-------------------------- MODULE StreamPoolProofs --------------------------
(***************************************************************************)
(* Proofs about the blocks of StreamPipe: none is lost or freed twice, and *)
(* none is free while a writer waits for one and nobody is on the way to   *)
(* take it; and about the data that pass through them, at the end of the   *)
(* module.  They hold whatever the calls, water marks, blocks, stream      *)
(* events and processes, and rest on the invariant of StreamPipeProofs.    *)
(***************************************************************************)
EXTENDS StreamPipeProofs, FiniteSetTheorems

(* The messages on the queues q. *)
Queued(q) == LET a == CHOOSE e \in End : TRUE
             IN  Len(q[a]) + Len(q[Other(a)])

(* The processes with a block in hand. *)
Holding == {p \in Proc : pc[p] \in {"copyin", "copyout"}}

Pool == nfree \in Nat /\ NBLK = nfree + Queued(rdq) + Cardinality(Holding)

(* The flags of queues and heads. *)
FlagTypes == {qwantw, rsleep, wsleep} \subseteq SUBSET End /\ strbcflag \in BOOLEAN

(* QFULL says what is on the queue, both ways. *)
FullExact == qfull = {e \in End : Len(rdq[e]) >= hiwat}

(* The list holds those that wait for a block, each once. *)
ListOf(list, pcs) ==
  /\ list \in Seq(Proc)
  /\ \A i, j \in 1 .. Len(list) : list[i] = list[j] => i = j
  /\ \A q \in Proc : pcs[q] = "bsleep" <=> \E i \in 1 .. Len(list) : list[i] = q

(* Those that have been called from the list and have not run yet. *)
Recalled(pcs) == {q \in Proc : pcs[q] = "bwoken"}

(* Those that have been called may take n blocks, or nobody waits. *)
Enough(n, pcs) ==
  \A q \in Proc : pcs[q] = "bsleep" => n <= Cardinality(Recalled(pcs))

Offered == strbcflag \/ Enough(nfree, pc)

BlockInv == Pool /\ FlagTypes /\ FullExact /\ ListOf(bufcalls, pc) /\ Offered

-----------------------------------------------------------------------------
(* Counting. *)

LEMMA FiniteProc ==
  /\ IsFiniteSet(Proc) /\ NBLK \in Nat
  /\ \A S \in SUBSET Proc : IsFiniteSet(S) /\ Cardinality(S) \in Nat
  /\ \A S \in SUBSET Proc : \A T \in SUBSET S : Cardinality(T) <= Cardinality(S)
<1>1. IsFiniteSet(Proc) /\ NBLK \in Nat
  BY ConstAssumption
<1>2. ASSUME NEW S \in SUBSET Proc
      PROVE  IsFiniteSet(S) /\ Cardinality(S) \in Nat
  BY <1>1, FS_Subset, FS_CardinalityType
<1>3. ASSUME NEW S \in SUBSET Proc, NEW T \in SUBSET S
      PROVE  Cardinality(T) <= Cardinality(S)
  BY <1>2, FS_Subset
<1> QED BY <1>1, <1>2, <1>3

(* A set that differs from another in one element at most. *)
LEMMA OneApart ==
  ASSUME NEW S \in SUBSET Proc, NEW T \in SUBSET Proc, NEW p \in Proc,
         \A q \in Proc \ {p} : q \in S <=> q \in T
  PROVE  Cardinality(T) + (IF p \in S THEN 1 ELSE 0)
           = Cardinality(S) + (IF p \in T THEN 1 ELSE 0)
<1>1. IsFiniteSet(S) /\ IsFiniteSet(T) /\ Cardinality(S) \in Nat /\ Cardinality(T) \in Nat
  BY FiniteProc
<1>2. CASE p \in S /\ p \in T
  <2>1. S = T
    BY <1>2
  <2> QED BY <1>2, <2>1
<1>3. CASE p \notin S /\ p \notin T
  <2>1. S = T
    BY <1>3
  <2> QED BY <1>3, <2>1
<1>4. CASE p \in S /\ p \notin T
  <2>1. S = T \cup {p}
    BY <1>4
  <2>2. Cardinality(S) = Cardinality(T) + 1
    BY <1>1, <1>4, <2>1, FS_AddElement
  <2> QED BY <1>1, <1>4, <2>2
<1>5. CASE p \notin S /\ p \in T
  <2>1. T = S \cup {p}
    BY <1>5
  <2>2. Cardinality(T) = Cardinality(S) + 1
    BY <1>1, <1>5, <2>1, FS_AddElement
  <2> QED BY <1>1, <1>5, <2>2
<1> QED BY <1>2, <1>3, <1>4, <1>5

(* As many processes as places, when none is on the list twice. *)
LEMMA DistinctCount ==
  ASSUME NEW s \in Seq(Proc), \A i, j \in 1 .. Len(s) : s[i] = s[j] => i = j,
         NEW k \in Nat, k <= Len(s)
  PROVE  Cardinality({s[i] : i \in 1 .. k}) = k
<1> DEFINE C == {s[i] : i \in 1 .. k}
           f == [i \in 1 .. k |-> s[i]]
<1>1. \A i \in 1 .. k : i \in 1 .. Len(s)
  OBVIOUS
<1>2. f \in Bijection(1 .. k, C)
  BY <1>1 DEF Bijection, Injection, Surjection, IsInjective
<1>3. ExistsBijection(1 .. k, C)
  BY <1>2 DEF ExistsBijection
<1>4. IsFiniteSet(1 .. k) /\ Cardinality(1 .. k) = k
  BY FS_Interval
<1> QED BY <1>3, <1>4, FS_Bijection

(* The messages on the queues r, when one of them has become q. *)
LEMMA QueueChange ==
  ASSUME NEW r \in [End -> Seq(Message)], NEW e \in End, NEW q \in Seq(Message)
  PROVE  /\ Queued(r) \in Nat /\ Queued([r EXCEPT ![e] = q]) \in Nat
         /\ Len(r[e]) \in Nat /\ Len(q) \in Nat
         /\ Queued([r EXCEPT ![e] = q]) + Len(r[e]) = Queued(r) + Len(q)
<1> DEFINE s == [r EXCEPT ![e] = q]
<1>1. PICK a \in End : /\ Queued(r) = Len(r[a]) + Len(r[Other(a)])
                       /\ Queued(s) = Len(s[a]) + Len(s[Other(a)])
  <2>1. (CHOOSE x \in End : TRUE) \in End
    BY ConstAssumption
  <2> QED BY <2>1 DEF Queued
<1>2. PICK b \in End : b = Other(a) /\ a # b /\ (e = a \/ e = b)
  BY Ends
<1>3. Len(r[a]) \in Nat /\ Len(r[b]) \in Nat /\ Len(q) \in Nat
  OBVIOUS
<1>4. s[e] = q /\ \A x \in End \ {e} : s[x] = r[x]
  OBVIOUS
<1> HIDE DEF s
<1>5. CASE e = a
  <2>1. Queued(s) = Len(q) + Len(r[b]) /\ Queued(r) = Len(r[a]) + Len(r[b])
    BY <1>1, <1>2, <1>4, <1>5
  <2> QED BY <1>3, <1>5, <2>1 DEF s
<1>6. CASE e = b
  <2>1. Queued(s) = Len(r[a]) + Len(q) /\ Queued(r) = Len(r[a]) + Len(r[b])
    BY <1>1, <1>2, <1>4, <1>6
  <2> QED BY <1>3, <1>6, <2>1 DEF s
<1> QED BY <1>2, <1>5, <1>6

(* A process that is not the one that acts stays where it is, or is woken. *)
Bystanders(p) ==
  \A q \in Proc \ {p} : \/ pc'[q] = pc[q]
                        \/ pc'[q] \in {"rwoken", "wwoken", "bwoken"}
                           /\ pc[q] \in {"rsleep", "wsleep", "bsleep"}

(* The blocks in the hands of a process that is at this point. *)
InHand(at) == IF at \in {"copyin", "copyout"} THEN 1 ELSE 0

(* The account of a step that leaves f blocks free: what one queue, the    *)
(* pool and one process give and take.                                     *)
LEMMA Account ==
  ASSUME IInv, Pool, NEW p \in Proc, NEW e \in End, NEW q \in Seq(Message),
         rdq' = [rdq EXCEPT ![e] = q], Bystanders(p),
         NEW f \in Nat, f + Len(q) + InHand(pc'[p]) = nfree + Len(rdq[e]) + InHand(pc[p])
  PROVE  NBLK = f + Queued(rdq') + Cardinality(Holding')
<1> DEFINE h == InHand(pc[p])
           k == InHand(pc'[p])
<1>1. /\ Queued(rdq) \in Nat /\ Queued(rdq') \in Nat
      /\ Len(rdq[e]) \in Nat /\ Len(q) \in Nat
      /\ Queued(rdq') + Len(rdq[e]) = Queued(rdq) + Len(q)
  BY QueueChange DEF IInv, Types
<1>2. \A x \in Proc \ {p} : x \in Holding <=> x \in Holding'
  BY DEF Bystanders, Holding
<1>3. Holding \in SUBSET Proc /\ Holding' \in SUBSET Proc
  BY DEF Holding
<1>4. Cardinality(Holding') + (IF p \in Holding THEN 1 ELSE 0)
        = Cardinality(Holding) + (IF p \in Holding' THEN 1 ELSE 0)
  BY <1>2, <1>3, OneApart
<1>5. h = (IF p \in Holding THEN 1 ELSE 0) /\ k = (IF p \in Holding' THEN 1 ELSE 0)
  BY DEF InHand, Holding
<1>6. Cardinality(Holding') \in Nat /\ Cardinality(Holding) \in Nat
  BY <1>3, FiniteProc
<1>7. h \in Nat /\ k \in Nat
  BY DEF InHand
<1>8. NBLK \in Nat /\ nfree \in Nat /\ NBLK = nfree + Queued(rdq) + Cardinality(Holding)
  BY FiniteProc DEF Pool
<1>9. /\ f + Len(q) + k = nfree + Len(rdq[e]) + h
      /\ Cardinality(Holding') + h = Cardinality(Holding) + k
  BY <1>4, <1>5
<1> HIDE DEF h, k
<1>10. PICK n \in Nat, g \in Nat, k0 \in Nat, k1 \in Nat :
         n = NBLK /\ g = nfree /\ k0 = h /\ k1 = k
  BY <1>7, <1>8
<1>11. PICK q0 \in Nat, q1 \in Nat, l0 \in Nat, l1 \in Nat, c0 \in Nat, c1 \in Nat :
         /\ q0 = Queued(rdq) /\ q1 = Queued(rdq')
         /\ l0 = Len(rdq[e]) /\ l1 = Len(q)
         /\ c0 = Cardinality(Holding) /\ c1 = Cardinality(Holding')
  BY <1>1, <1>6
<1>12. /\ q1 + l0 = q0 + l1 /\ c1 + k0 = c0 + k1
       /\ f + l1 + k1 = g + l0 + k0 /\ n = g + q0 + c0
  BY <1>1, <1>8, <1>9, <1>10, <1>11
<1>13. n = f + q1 + c1
  BY <1>12
<1> QED BY <1>10, <1>11, <1>13

LEMMA Balance ==
  ASSUME IInv, Pool, NEW p \in Proc, NEW e \in End, NEW q \in Seq(Message),
         rdq' = [rdq EXCEPT ![e] = q], Bystanders(p),
         NEW f \in Nat, f + Len(q) + InHand(pc'[p]) = nfree + Len(rdq[e]) + InHand(pc[p]),
         nfree' = f
  PROVE  Pool'
<1>1. NBLK = f + Queued(rdq') + Cardinality(Holding')
  BY Account
<1> QED BY <1>1 DEF Pool
-----------------------------------------------------------------------------
(* The list of those that wait for a block. *)

(* The processes are as in pcs, but for those that have to do with the     *)
(* list.                                                                   *)
SameWaiters(pcs) ==
  \A q \in Proc : (pc[q] \in {"bsleep", "bwoken"} \/ pcs[q] \in {"bsleep", "bwoken"})
                    => pcs[q] = pc[q]

LEMMA WaitersStay ==
  ASSUME NEW pcs, SameWaiters(pcs)
  PROVE  /\ \A list : ListOf(list, pc) => ListOf(list, pcs)
         /\ \A n : Enough(n, pc) => Enough(n, pcs)
<1>1. \A q \in Proc : pcs[q] = "bsleep" <=> pc[q] = "bsleep"
  BY DEF SameWaiters
<1>2. Recalled(pcs) = Recalled(pc)
  BY DEF SameWaiters, Recalled
<1>3. \A list : ListOf(list, pc) => ListOf(list, pcs)
  BY <1>1 DEF ListOf
<1>4. \A n : Enough(n, pc) => Enough(n, pcs)
  BY <1>1, <1>2 DEF Enough
<1> QED BY <1>3, <1>4

(* The pass of queuerun calls from the head of the list as many as there   *)
(* are blocks; who is left waits because these may take them all.          *)
LEMMA QueuerunServes ==
  ASSUME NEW pcs \in [Proc -> States], NEW n \in Nat, NEW flag \in BOOLEAN,
         ListOf(bufcalls, pcs), flag \/ Enough(n, pcs), queuerun(pcs, n, flag)
  PROVE  /\ pc' \in [Proc -> States]
         /\ ListOf(bufcalls, pc)' /\ Enough(n, pc')
         /\ \A q \in Proc : pc'[q] = pcs[q] \/ (pcs[q] = "bsleep" /\ pc'[q] = "bwoken")
<1>1. CASE ~flag
  <2>1. pc' = pcs /\ bufcalls' = bufcalls
    BY <1>1 DEF queuerun
  <2> QED BY <1>1, <2>1
<1>2. CASE flag
  <2> DEFINE l == Len(bufcalls)
             k == IF n < l THEN n ELSE l
             C == {bufcalls[i] : i \in 1 .. k}
  <2>1. /\ bufcalls \in Seq(Proc) /\ l \in Nat /\ k \in Nat /\ k <= l /\ k <= n
        /\ \A i \in 1 .. l : bufcalls[i] \in Proc
        /\ \A i, j \in 1 .. l : bufcalls[i] = bufcalls[j] => i = j
        /\ \A q \in Proc : pcs[q] = "bsleep" <=> \E i \in 1 .. l : bufcalls[i] = q
    BY DEF ListOf
  <2>2. /\ Called(n) = SubSeq(bufcalls, 1, k)
        /\ Len(SubSeq(bufcalls, 1, k)) = k
        /\ DOMAIN SubSeq(bufcalls, 1, k) = 1 .. k
        /\ \A i \in 1 .. k : SubSeq(bufcalls, 1, k)[i] = bufcalls[i]
    <3>1. Called(n) = SubSeq(bufcalls, 1, k)
      BY DEF Called
    <3> HIDE DEF k
    <3> QED BY <2>1, <3>1
  <2>3. /\ pc' = Woken(pcs, C)
        /\ bufcalls' = SubSeq(bufcalls, k + 1, l)
    <3>1. {Called(n)[i] : i \in DOMAIN Called(n)} = C
      BY <2>2
    <3>2. /\ pc' = Woken(pcs, {Called(n)[i] : i \in DOMAIN Called(n)})
          /\ bufcalls' = SubSeq(bufcalls, Len(Called(n)) + 1, Len(bufcalls))
      BY <1>2 DEF queuerun
    <3> QED BY <2>2, <3>1, <3>2
  <2>4. k < l => k = n
    OBVIOUS
  <2> HIDE DEF k, l
  <2>5. C \in SUBSET Proc /\ \A q \in C : pcs[q] = "bsleep"
    BY <2>1
  <2>6. \A q \in Proc : pc'[q] = IF q \in C THEN "bwoken" ELSE pcs[q]
    BY <2>3, <2>5 DEF Woken
  <2>7. pc' \in [Proc -> States]
    BY <2>3, WokenMoves
  <2>8. /\ bufcalls' \in Seq(Proc)
        /\ Len(bufcalls') = l - k
        /\ \A i \in 1 .. l - k : bufcalls'[i] = bufcalls[i + k]
    <3>1. /\ SubSeq(bufcalls, k + 1, l) \in Seq(Proc)
          /\ Len(SubSeq(bufcalls, k + 1, l)) = l - k
          /\ \A i \in 1 .. l - k : SubSeq(bufcalls, k + 1, l)[i] = bufcalls[i + k]
      BY <2>1 DEF l
    <3> QED BY <2>3, <3>1
  <2>9. \A q \in Proc : pc'[q] = "bsleep" <=> \E i \in k + 1 .. l : bufcalls[i] = q
    <3> SUFFICES ASSUME NEW q \in Proc
                 PROVE  pc'[q] = "bsleep" <=> \E i \in k + 1 .. l : bufcalls[i] = q
      OBVIOUS
    <3>1. pc'[q] = "bsleep" <=> pcs[q] = "bsleep" /\ q \notin C
      BY <2>6
    <3>2. ASSUME NEW i \in k + 1 .. l, bufcalls[i] = q
          PROVE  pcs[q] = "bsleep" /\ q \notin C
      BY <2>1, <3>2
    <3>3. ASSUME NEW i \in 1 .. l, bufcalls[i] = q, q \notin C
          PROVE  i \in k + 1 .. l
      BY <2>1, <3>3
    <3> QED BY <2>1, <3>1, <3>2, <3>3
  <2>10. \A q \in Proc : pc'[q] = "bsleep" <=> \E i \in 1 .. Len(bufcalls') : bufcalls'[i] = q
    <3> SUFFICES ASSUME NEW q \in Proc
                 PROVE  (\E i \in k + 1 .. l : bufcalls[i] = q)
                          <=> \E i \in 1 .. Len(bufcalls') : bufcalls'[i] = q
      BY <2>9
    <3>1. ASSUME NEW i \in k + 1 .. l, bufcalls[i] = q
          PROVE  \E j \in 1 .. Len(bufcalls') : bufcalls'[j] = q
      <4>1. i - k \in 1 .. l - k /\ (i - k) + k = i
        BY <2>1
      <4> QED BY <2>8, <3>1, <4>1
    <3>2. ASSUME NEW i \in 1 .. Len(bufcalls'), bufcalls'[i] = q
          PROVE  \E j \in k + 1 .. l : bufcalls[j] = q
      <4>1. i \in 1 .. l - k
        BY <2>8
      <4>2. i + k \in k + 1 .. l
        BY <2>1, <4>1
      <4> QED BY <2>8, <3>2, <4>1, <4>2
    <3> QED BY <3>1, <3>2
  <2>11. \A i, j \in 1 .. Len(bufcalls') : bufcalls'[i] = bufcalls'[j] => i = j
    <3> SUFFICES ASSUME NEW i \in 1 .. l - k, NEW j \in 1 .. l - k, bufcalls'[i] = bufcalls'[j]
                 PROVE  i = j
      BY <2>8
    <3>1. i + k \in 1 .. l /\ j + k \in 1 .. l
      BY <2>1
    <3>2. bufcalls[i + k] = bufcalls[j + k]
      BY <2>8
    <3>3. i + k = j + k
      BY <2>1, <3>1, <3>2
    <3> QED BY <2>1, <3>3
  <2>12. Enough(n, pc')
    <3> SUFFICES ASSUME NEW q \in Proc, pc'[q] = "bsleep"
                 PROVE  n <= Cardinality(Recalled(pc'))
      BY DEF Enough
    <3>1. k < l
      BY <2>1, <2>9
    <3>2. k = n
      BY <2>4, <3>1
    <3>3. Cardinality(C) = k
      BY <2>1, DistinctCount DEF l
    <3>4. C \in SUBSET Recalled(pc') /\ Recalled(pc') \in SUBSET Proc
      BY <2>5, <2>6 DEF Recalled
    <3> QED BY <3>2, <3>3, <3>4, FiniteProc
  <2>13. ListOf(bufcalls, pc)'
    BY <2>8, <2>10, <2>11 DEF ListOf
  <2> QED BY <2>5, <2>6, <2>7, <2>12, <2>13
<1> QED BY <1>1, <1>2

(* The process p goes to "to", sleepers for data or room are woken, and    *)
(* queuerun serves the list.                                               *)
Elsewhere == States \ {"rsleep", "wsleep", "bsleep", "bwoken"}

LEMMA WokenSame ==
  ASSUME Types, NEW p \in Proc, pc[p] \notin {"bsleep", "bwoken"},
         NEW to \in Elsewhere, NEW S, \A q \in S : pc[q] # "bsleep",
         NEW pcs, pcs = Woken(Moved(p, to), S)
  PROVE  /\ pcs \in [Proc -> States] /\ SameWaiters(pcs) /\ pcs[p] = to
         /\ \A q \in Proc \ {p} :
              \/ pcs[q] = pc[q]
              \/ pc[q] = "rsleep" /\ q \in S /\ pcs[q] = "rwoken"
              \/ pc[q] = "wsleep" /\ q \in S /\ pcs[q] = "wwoken"
<1>1. Moved(p, to) \in [Proc -> States]
  BY DEF Types, Moved, Elsewhere
<1>2. \A q \in Proc : Moved(p, to)[q] = IF q = p THEN to ELSE pc[q]
  BY DEF Types, Moved
<1>3. pcs \in [Proc -> States]
  BY <1>1, WokenMoves
<1>4. pcs[p] = to
  BY <1>2 DEF Woken, Elsewhere
<1>5. \A q \in Proc \ {p} :
        \/ pcs[q] = pc[q]
        \/ pc[q] = "rsleep" /\ q \in S /\ pcs[q] = "rwoken"
        \/ pc[q] = "wsleep" /\ q \in S /\ pcs[q] = "wwoken"
  BY <1>2 DEF Woken
<1>6. SameWaiters(pcs)
  BY <1>4, <1>5 DEF SameWaiters, Elsewhere
<1> QED BY <1>3, <1>4, <1>5, <1>6

LEMMA Served ==
  ASSUME IInv, BlockInv, NEW p \in Proc, pc[p] \notin {"bsleep", "bwoken"},
         NEW to \in Elsewhere, NEW S, \A q \in S : pc[q] # "bsleep",
         NEW n \in Nat, NEW b \in BOOLEAN, b \/ Enough(n, pc),
         queuerun(Woken(Moved(p, to), S), n, b)
  PROVE  /\ pc'[p] = to /\ Bystanders(p)
         /\ ListOf(bufcalls, pc)' /\ Enough(n, pc')
<1> DEFINE pcs == Woken(Moved(p, to), S)
<1>1. /\ pcs \in [Proc -> States] /\ SameWaiters(pcs) /\ pcs[p] = to
      /\ \A q \in Proc \ {p} :
              \/ pcs[q] = pc[q]
              \/ pc[q] = "rsleep" /\ q \in S /\ pcs[q] = "rwoken"
              \/ pc[q] = "wsleep" /\ q \in S /\ pcs[q] = "wwoken"
  BY WokenSame DEF IInv
<1> HIDE DEF pcs
<1>2. ListOf(bufcalls, pcs) /\ (b \/ Enough(n, pcs))
  BY <1>1, WaitersStay DEF BlockInv
<1>3. queuerun(pcs, n, b)
  BY DEF pcs
<1>4. /\ ListOf(bufcalls, pc)' /\ Enough(n, pc')
      /\ \A q \in Proc : pc'[q] = pcs[q] \/ (pcs[q] = "bsleep" /\ pc'[q] = "bwoken")
  BY <1>1, <1>2, <1>3, QueuerunServes
<1>5. pc'[p] = to
  BY <1>1, <1>4 DEF Elsewhere
<1>6. Bystanders(p)
  BY <1>1, <1>4 DEF Bystanders
<1> QED BY <1>4, <1>5, <1>6

(* freeb of k blocks asks for a pass of queuerun when anybody waits. *)
LEMMA FlagOrEnough ==
  ASSUME BlockInv, NEW k \in Nat
  PROVE  /\ nfree + k \in Nat
         /\ (strbcflag \/ freeb(k, bufcalls)) \in BOOLEAN
         /\ (strbcflag \/ freeb(k, bufcalls)) \/ Enough(nfree + k, pc)
<1>1. nfree \in Nat /\ strbcflag \in BOOLEAN
  BY DEF BlockInv, Pool, FlagTypes
<1>2. CASE k = 0
  <2>1. nfree + k = nfree
    BY <1>1, <1>2
  <2> QED BY <1>1, <2>1 DEF BlockInv, Offered
<1>3. CASE k > 0 /\ bufcalls # <<>>
  BY <1>1, <1>3 DEF freeb
<1>4. CASE bufcalls = <<>>
  <2>1. \A q \in Proc : pc[q] # "bsleep"
    BY <1>4 DEF BlockInv, ListOf
  <2> QED BY <1>1, <2>1 DEF Enough
<1> QED BY <1>2, <1>3, <1>4

(* A step that leaves the list alone and frees k blocks. *)
LEMMA FreedOffered ==
  ASSUME BlockInv, SameWaiters(pc'), bufcalls' = bufcalls, NEW k \in Nat,
         nfree' = nfree + k,
         strbcflag' = (strbcflag \/ freeb(k, bufcalls))
  PROVE  ListOf(bufcalls, pc)' /\ Offered' /\ strbcflag' \in BOOLEAN
<1>1. /\ (strbcflag \/ freeb(k, bufcalls)) \in BOOLEAN
      /\ (strbcflag \/ freeb(k, bufcalls)) \/ Enough(nfree + k, pc)
  BY FlagOrEnough
<1>2. ListOf(bufcalls, pc')
  BY WaitersStay DEF BlockInv
<1>3. strbcflag' \/ Enough(nfree + k, pc')
  BY <1>1, WaitersStay
<1> QED BY <1>1, <1>2, <1>3 DEF Offered, ListOf

LEMMA KeptOffered ==
  ASSUME BlockInv, SameWaiters(pc'), UNCHANGED <<bufcalls, nfree, strbcflag>>
  PROVE  ListOf(bufcalls, pc)' /\ Offered' /\ strbcflag' \in BOOLEAN
<1>1. ListOf(bufcalls, pc')
  BY WaitersStay DEF BlockInv
<1>2. strbcflag \/ Enough(nfree, pc')
  BY WaitersStay DEF BlockInv, Offered
<1> QED BY <1>1, <1>2 DEF Offered, ListOf, BlockInv, FlagTypes

(* The account of a step that leaves the queues alone. *)
LEMMA BalanceAtRest ==
  ASSUME IInv, Pool, NEW p \in Proc, UNCHANGED rdq, Bystanders(p),
         NEW f \in Nat, f + InHand(pc'[p]) = nfree + InHand(pc[p]), nfree' = f
  PROVE  Pool'
<1>1. PICK e \in End : e = Home(p)
  BY Homes
<1>2. rdq' = [rdq EXCEPT ![e] = rdq[e]] /\ rdq[e] \in Seq(Message)
  BY DEF IInv, Types
<1>3. PICK l \in Nat, g \in Nat, h \in Nat, k \in Nat :
        l = Len(rdq[e]) /\ g = nfree /\ h = InHand(pc[p]) /\ k = InHand(pc'[p])
  BY <1>2 DEF Pool, InHand
<1>4. f + k = g + h
  BY <1>3
<1>5. f + l + k = g + l + h
  BY <1>4
<1>6. f + Len(rdq[e]) + InHand(pc'[p]) = nfree + Len(rdq[e]) + InHand(pc[p])
  BY <1>3, <1>5
<1> QED BY <1>2, <1>6, Balance

(* A queue that has become q, with its QFULL. *)
LEMMA FullChange ==
  ASSUME IInv, FullExact, NEW e \in End, NEW q \in Seq(Message),
         rdq' = [rdq EXCEPT ![e] = q],
         qfull' = IF Len(q) >= hiwat THEN qfull \cup {e} ELSE qfull \ {e}
  PROVE  FullExact'
<1>1. rdq'[e] = q /\ \A x \in End \ {e} : rdq'[x] = rdq[x]
  BY DEF IInv, Types
<1>2. \A x \in End : x \in qfull' <=> Len(rdq'[x]) >= hiwat
  <2> SUFFICES ASSUME NEW x \in End PROVE x \in qfull' <=> Len(rdq'[x]) >= hiwat
    OBVIOUS
  <2>1. CASE x = e
    BY <1>1, <2>1
  <2>2. CASE x # e
    BY <1>1, <2>2 DEF FullExact
  <2> QED BY <2>1, <2>2
<1>3. qfull' \subseteq End
  BY DEF FullExact
<1> QED BY <1>2, <1>3 DEF FullExact

LEMMA EmptyNotFull == <<>> \in Seq(Message) /\ Len(<<>>) = 0 /\ ~(Len(<<>>) >= hiwat)
  BY Marks
-----------------------------------------------------------------------------
(* The actions. *)

LEMMA InitBlocks == Init => BlockInv
<1> SUFFICES ASSUME Init PROVE BlockInv
  OBVIOUS
<1>1. PICK a \in End : Queued(rdq) = Len(rdq[a]) + Len(rdq[Other(a)])
  <2>1. (CHOOSE x \in End : TRUE) \in End
    BY ConstAssumption
  <2> QED BY <2>1 DEF Queued
<1>2. Queued(rdq) = 0
  <2>1. Other(a) \in End
    BY Ends
  <2>2. rdq[a] = <<>> /\ rdq[Other(a)] = <<>>
    BY <2>1 DEF Init
  <2> QED BY <1>1, <2>2
<1>3. Holding = {}
  BY DEF Init, Holding
<1>4. Cardinality(Holding) = 0
  BY <1>3, FS_EmptySet
<1>5. Pool
  BY <1>2, <1>4, FiniteProc DEF Init, Pool
<1>6. FlagTypes
  BY DEF Init, FlagTypes
<1>7. FullExact
  BY EmptyNotFull DEF Init, FullExact
<1>8. ListOf(bufcalls, pc) /\ Offered
  <2>1. bufcalls = <<>> /\ bufcalls \in Seq(Proc) /\ Len(bufcalls) = 0
    BY DEF Init
  <2>2. \A q \in Proc : pc[q] # "bsleep"
    BY DEF Init
  <2> QED BY <2>1, <2>2 DEF ListOf, Offered, Enough
<1> QED BY <1>5, <1>6, <1>7, <1>8 DEF BlockInv

(* allocb takes a block, or the caller joins the list because there is     *)
(* none.                                                                   *)
LEMMA AllocbBlocks ==
  ASSUME IInv, BlockInv, NEW p \in Proc, pc[p] \in {"user", "wwoken", "bwoken"},
         allocb(pc, p, bufcalls), UNCHANGED <<rdq, strbcflag>>
  PROVE  Pool' /\ ListOf(bufcalls, pc)' /\ Offered'
<1>1. /\ nfree \in Nat /\ pc \in [Proc -> States] /\ InHand(pc[p]) = 0
      /\ bufcalls \in Seq(Proc)
  BY DEF BlockInv, Pool, IInv, Types, InHand, ListOf
<1>2. p \notin {q \in Proc : pc[q] = "bsleep"}
  OBVIOUS
<1>3. CASE nfree > 0
  <2>1. nfree' = nfree - 1 /\ bufcalls' = bufcalls /\ pc' = [pc EXCEPT ![p] = "copyin"]
    BY <1>3 DEF allocb
  <2>2. pc'[p] = "copyin" /\ \A q \in Proc \ {p} : pc'[q] = pc[q]
    BY <1>1, <2>1
  <2>3. Bystanders(p) /\ InHand(pc'[p]) = 1
    BY <2>2 DEF Bystanders, InHand
  <2>4. nfree - 1 \in Nat /\ (nfree - 1) + 1 = nfree + 0
    BY <1>1, <1>3
  <2>5. Pool'
    BY <1>1, <2>1, <2>3, <2>4, BalanceAtRest DEF BlockInv
  <2>6. ListOf(bufcalls, pc')
    BY <2>2 DEF BlockInv, ListOf
  <2>7. ListOf(bufcalls, pc)'
    BY <2>1, <2>6 DEF ListOf
  <2>8. ASSUME ~strbcflag PROVE Enough(nfree - 1, pc')
    <3> SUFFICES ASSUME NEW q \in Proc, pc'[q] = "bsleep"
                 PROVE  nfree - 1 <= Cardinality(Recalled(pc'))
      BY DEF Enough
    <3>1. pc[q] = "bsleep"
      BY <2>2
    <3>2. nfree <= Cardinality(Recalled(pc))
      BY <2>8, <3>1 DEF BlockInv, Offered, Enough
    <3>3. /\ Recalled(pc) \in SUBSET Proc /\ Recalled(pc') \in SUBSET Proc
          /\ p \notin Recalled(pc')
          /\ \A x \in Proc \ {p} : x \in Recalled(pc) <=> x \in Recalled(pc')
      BY <2>2 DEF Recalled
    <3>4. Cardinality(Recalled(pc')) + (IF p \in Recalled(pc) THEN 1 ELSE 0)
            = Cardinality(Recalled(pc)) + (IF p \in Recalled(pc') THEN 1 ELSE 0)
      BY <3>3, OneApart
    <3>5. PICK c \in Nat, d \in Nat :
            c = Cardinality(Recalled(pc)) /\ d = Cardinality(Recalled(pc'))
      BY <3>3, FiniteProc
    <3>6. d >= c - 1
      BY <3>3, <3>4, <3>5
    <3> QED BY <1>1, <3>2, <3>5, <3>6
  <2>9. Offered'
    BY <2>1, <2>8 DEF Offered
  <2> QED BY <2>5, <2>7, <2>9
<1>4. CASE ~(nfree > 0)
  <2>1. nfree = 0 /\ nfree' = nfree
    BY <1>1, <1>4 DEF allocb
  <2>2. PICK to \in {"bsleep", "user"} :
          /\ pc' = [pc EXCEPT ![p] = to]
          /\ bufcalls' = IF to = "bsleep" THEN Append(bufcalls, p) ELSE bufcalls
    BY <1>4 DEF allocb
  <2>3. pc'[p] = to /\ \A q \in Proc \ {p} : pc'[q] = pc[q]
    BY <1>1, <2>2
  <2>4. Bystanders(p) /\ InHand(pc'[p]) = 0
    BY <2>3 DEF Bystanders, InHand
  <2>5. Pool'
    BY <1>1, <2>1, <2>4, BalanceAtRest DEF BlockInv
  <2>6. \A c \in Nat : 0 <= c
    OBVIOUS
  <2>7. Enough(0, pc')
    <3>1. Cardinality(Recalled(pc')) \in Nat
      BY FiniteProc DEF Recalled
    <3> QED BY <2>6, <3>1 DEF Enough
  <2>8. Offered'
    BY <2>1, <2>7 DEF Offered
  <2>9. ListOf(bufcalls, pc)'
    <3>1. CASE to = "user"
      <4>1. ListOf(bufcalls, pc')
        BY <2>3, <3>1 DEF BlockInv, ListOf
      <4> QED BY <2>2, <3>1, <4>1 DEF ListOf
    <3>2. CASE to = "bsleep"
      <4> DEFINE l == Len(bufcalls)
      <4>1. /\ l \in Nat /\ Len(bufcalls') = l + 1 /\ bufcalls' \in Seq(Proc)
            /\ bufcalls'[l + 1] = p
            /\ \A i \in 1 .. l : bufcalls'[i] = bufcalls[i]
        BY <1>1, <2>2, <3>2
      <4>2. /\ \A i, j \in 1 .. l : bufcalls[i] = bufcalls[j] => i = j
            /\ \A q \in Proc : pc[q] = "bsleep" <=> \E i \in 1 .. l : bufcalls[i] = q
        BY DEF BlockInv, ListOf
      <4> HIDE DEF l
      <4>3. \A i \in 1 .. l : bufcalls[i] # p
        BY <4>2
      <4>4. \A i, j \in 1 .. l + 1 : bufcalls'[i] = bufcalls'[j] => i = j
        <5>1. \A i \in 1 .. l + 1 : i = l + 1 \/ i \in 1 .. l
          BY <4>1
        <5> QED BY <4>1, <4>2, <4>3, <5>1
      <4>5. \A q \in Proc : pc'[q] = "bsleep" <=> \E i \in 1 .. l + 1 : bufcalls'[i] = q
        <5>1. \A i \in 1 .. l + 1 : i = l + 1 \/ i \in 1 .. l
          BY <4>1
        <5>2. l + 1 \in 1 .. l + 1 /\ \A i \in 1 .. l : i \in 1 .. l + 1
          BY <4>1
        <5>3. pc'[p] = "bsleep"
          BY <2>3, <3>2
        <5> QED BY <2>3, <4>1, <4>2, <5>1, <5>2, <5>3
      <4> QED BY <4>1, <4>4, <4>5 DEF ListOf
    <3> QED BY <3>1, <3>2
  <2> QED BY <2>5, <2>8, <2>9
<1> QED BY <1>3, <1>4

LEMMA CanputBlocks ==
  ASSUME IInv, BlockInv, NEW p \in Proc, pc[p] \in {"user", "wwoken"},
         canput(p, pc, bufcalls), UNCHANGED <<rdq, qfull, rsleep, strbcflag>>
  PROVE  BlockInv'
<1>1. FullExact'
  BY DEF BlockInv, FullExact
<1>2. CASE Other(Home(p)) \in qfull
  <2>1. /\ qwantw' = qwantw \cup {Other(Home(p))}
        /\ wsleep' = wsleep \cup {Home(p)}
        /\ pc' = [pc EXCEPT ![p] = "wsleep"]
        /\ UNCHANGED <<bufcalls, nfree>>
    BY <1>2 DEF canput
  <2>2. pc'[p] = "wsleep" /\ \A q \in Proc \ {p} : pc'[q] = pc[q]
    BY <2>1 DEF IInv, Types
  <2>3. Bystanders(p) /\ InHand(pc'[p]) = 0 /\ InHand(pc[p]) = 0 /\ SameWaiters(pc')
    BY <2>2 DEF Bystanders, InHand, SameWaiters
  <2>4. Pool'
    BY <2>1, <2>3, BalanceAtRest DEF BlockInv, Pool
  <2>5. ListOf(bufcalls, pc)' /\ Offered' /\ strbcflag' \in BOOLEAN
    BY <2>1, <2>3, KeptOffered
  <2>6. FlagTypes'
    BY <2>1, <2>5, Homes, Ends DEF BlockInv, FlagTypes
  <2> QED BY <1>1, <2>4, <2>5, <2>6 DEF BlockInv
<1>3. CASE Other(Home(p)) \notin qfull
  <2>1. allocb(pc, p, bufcalls) /\ UNCHANGED <<qwantw, wsleep>>
    BY <1>3 DEF canput
  <2>2. Pool' /\ ListOf(bufcalls, pc)' /\ Offered'
    BY <2>1, AllocbBlocks
  <2>3. FlagTypes'
    BY <2>1 DEF BlockInv, FlagTypes
  <2> QED BY <1>1, <2>2, <2>3 DEF BlockInv
<1> QED BY <1>2, <1>3

LEMMA BufferWaiterBlocks ==
  ASSUME IInv, BlockInv, NEW p \in Proc, BufferWaiterRuns(p)
  PROVE  BlockInv'
<1>1. /\ pc[p] = "bwoken" /\ allocb(pc, p, strunbcall(bufcalls, p))
      /\ UNCHANGED <<rdq, qfull, qwantw, rsleep, wsleep, strbcflag>>
  BY DEF BufferWaiterRuns, queues, heads
<1>2. ~\E i \in 1 .. Len(bufcalls) : bufcalls[i] = p
  BY <1>1 DEF BlockInv, ListOf
<1>3. strunbcall(bufcalls, p) = bufcalls
  BY <1>2 DEF strunbcall, RemoveFirst
<1>4. Pool' /\ ListOf(bufcalls, pc)' /\ Offered'
  BY <1>1, <1>3, AllocbBlocks
<1>5. FlagTypes' /\ FullExact'
  BY <1>1 DEF BlockInv, FlagTypes, FullExact
<1> QED BY <1>4, <1>5 DEF BlockInv

(* A process that goes away, from the queues or with nothing. *)
LEMMA QuietBlocks ==
  ASSUME IInv, BlockInv, NEW p \in Proc, pc[p] \notin {"bsleep", "bwoken"},
         NEW k \in {0, 1}, InHand(pc[p]) = k, NEW to \in {"user", "rsleep"},
         pc' = Moved(p, to), nfree' = nfree + k, bufcalls' = bufcalls,
         strbcflag' = (strbcflag \/ freeb(k, bufcalls)),
         UNCHANGED <<rdq, qfull, qwantw, wsleep>>, rsleep' \in SUBSET End
  PROVE  BlockInv'
<1>1. pc'[p] = to /\ \A q \in Proc \ {p} : pc'[q] = pc[q]
  BY DEF IInv, Types, Moved
<1>2. Bystanders(p) /\ InHand(pc'[p]) = 0 /\ SameWaiters(pc')
  BY <1>1 DEF Bystanders, InHand, SameWaiters
<1>3. nfree + k \in Nat /\ (nfree + k) + 0 = nfree + k
  BY DEF BlockInv, Pool
<1>4. Pool'
  BY <1>2, <1>3, BalanceAtRest DEF BlockInv
<1>5. ListOf(bufcalls, pc)' /\ Offered' /\ strbcflag' \in BOOLEAN
  BY <1>2, FreedOffered
<1>6. FlagTypes' /\ FullExact'
  BY <1>5 DEF BlockInv, FlagTypes, FullExact
<1> QED BY <1>4, <1>5, <1>6 DEF BlockInv

(* The same when no block is freed. *)
LEMMA ReturnBlocks ==
  ASSUME IInv, BlockInv, NEW p \in Proc, pc[p] \in {"user", "rwoken", "wwoken"},
         NEW to \in {"user", "rsleep"}, pc' = Moved(p, to),
         UNCHANGED <<rdq, qfull, qwantw, wsleep, pool>>, rsleep' \in SUBSET End
  PROVE  BlockInv'
<1>1. UNCHANGED <<strbcflag, bufcalls, nfree>>
  BY DEF pool
<1>2. InHand(pc[p]) = 0
  BY DEF InHand
<1>3. nfree + 0 = nfree
  BY DEF BlockInv, Pool
<1>4. (strbcflag \/ freeb(0, bufcalls)) = strbcflag
  BY DEF freeb, BlockInv, FlagTypes
<1> QED BY <1>1, <1>2, <1>3, <1>4, QuietBlocks

LEMMA WriteBlocks ==
  ASSUME IInv, BlockInv, NEW p \in Proc, NEW n, strwrite(p, n)
  PROVE  BlockInv'
  BY CanputBlocks DEF strwrite

LEMMA WriterRunsBlocks ==
  ASSUME IInv, BlockInv, NEW p \in Proc, WriterRuns(p)
  PROVE  BlockInv'
<1>1. pc[p] = "wwoken" /\ UNCHANGED <<rdq, qfull, rsleep, strbcflag>>
  BY DEF WriterRuns
<1>2. CASE state[Home(p)] = "ok"
  BY <1>1, <1>2, CanputBlocks DEF WriterRuns
<1>3. CASE state[Home(p)] # "ok"
  <2>1. pc' = Moved(p, "user") /\ UNCHANGED <<qwantw, wsleep, pool>>
    BY <1>1, <1>3 DEF WriterRuns, pool
  <2>2. rsleep' \in SUBSET End
    BY <1>1 DEF BlockInv, FlagTypes
  <2> QED BY <1>1, <2>1, <2>2, ReturnBlocks
<1> QED BY <1>2, <1>3

LEMMA FailsBlocks ==
  ASSUME IInv, BlockInv, NEW p \in Proc, CopyInFails(p) \/ CopyOutFails(p)
  PROVE  BlockInv'
<1>1. /\ pc[p] \in {"copyin", "copyout"} /\ pc' = Moved(p, "user")
      /\ nfree' = nfree + 1 /\ bufcalls' = bufcalls
      /\ strbcflag' = (strbcflag \/ freeb(1, bufcalls))
      /\ UNCHANGED <<rdq, qfull, qwantw, wsleep, rsleep>>
  BY DEF CopyInFails, CopyOutFails, queues, heads
<1>2. rsleep' \in SUBSET End /\ InHand(pc[p]) = 1
  BY <1>1 DEF BlockInv, FlagTypes, InHand
<1> QED BY <1>1, <1>2, QuietBlocks

LEMMA PutBlocks ==
  ASSUME IInv, BlockInv, NEW p \in Proc, Put(p)
  PROVE  BlockInv'
<1> DEFINE d == Other(Home(p))
           m == [at |-> sent[d], len |-> count[p]]
           S == IF d \in rsleep THEN Readers(d) ELSE {}
           q == Append(rdq[d], m)
<1>1. d \in End /\ Types
  BY Homes, Ends DEF IInv
<1>2. m \in Message
  BY <1>1, MessageParts DEF Types
<1>3. /\ pc[p] = "copyin"
      /\ rdq' = [rdq EXCEPT ![d] = Append(@, m)]
      /\ qfull' = IF putqFills(rdq'[d]) THEN qfull \cup {d} ELSE qfull
      /\ rsleep' = rsleep \ {d}
      /\ queuerun(Woken(Moved(p, "user"), S), nfree, strbcflag)
      /\ strbcflag' = FALSE
      /\ UNCHANGED <<qwantw, wsleep, nfree>>
  BY DEF Put, strrput
<1>4. \A x \in S : pc[x] # "bsleep"
  BY DEF Readers
<1>5. "user" \in Elsewhere
  BY DEF Elsewhere, States
<1> HIDE DEF m, S, d
<1>6. nfree \in Nat /\ strbcflag \in BOOLEAN /\ (strbcflag \/ Enough(nfree, pc))
  BY DEF BlockInv, Pool, FlagTypes, Offered
<1>7. pc'[p] = "user" /\ Bystanders(p) /\ ListOf(bufcalls, pc)' /\ Enough(nfree, pc')
  BY <1>3, <1>4, <1>5, <1>6, Served
<1>8. /\ rdq[d] \in Seq(Message) /\ q \in Seq(Message)
      /\ Len(rdq[d]) \in Nat /\ Len(q) = Len(rdq[d]) + 1
  <2>1. rdq[d] \in Seq(Message)
    BY <1>1 DEF Types
  <2> QED BY <1>2, <2>1
<1>9. rdq' = [rdq EXCEPT ![d] = q] /\ rdq'[d] = q
  BY <1>1, <1>3 DEF Types
<1> HIDE DEF q
<1>10. Pool'
  <2>1. InHand(pc[p]) = 1 /\ InHand(pc'[p]) = 0
    BY <1>3, <1>7 DEF InHand
  <2>2. PICK l \in Nat, g \in Nat : l = Len(rdq[d]) /\ g = nfree
    BY <1>6, <1>8
  <2>3. g + (l + 1) + 0 = g + l + 1
    OBVIOUS
  <2>4. nfree + Len(q) + InHand(pc'[p]) = nfree + Len(rdq[d]) + InHand(pc[p])
    BY <1>8, <2>1, <2>2, <2>3
  <2> QED BY <1>1, <1>3, <1>6, <1>7, <1>8, <1>9, <2>4, Balance DEF BlockInv
<1>11. FullExact'
  <2>1. d \in qfull => Len(q) >= hiwat
    <3>1. d \in qfull => Len(rdq[d]) >= hiwat
      BY DEF BlockInv, FullExact
    <3> QED BY <1>8, <3>1, Marks
  <2>2. qfull' = IF Len(q) >= hiwat THEN qfull \cup {d} ELSE qfull \ {d}
    BY <1>3, <1>9, <2>1 DEF putqFills
  <2> QED BY <1>1, <1>8, <1>9, <2>2, FullChange DEF BlockInv
<1>12. FlagTypes'
  BY <1>3 DEF BlockInv, FlagTypes
<1>13. Offered'
  BY <1>3, <1>7 DEF Offered
<1> QED BY <1>7, <1>10, <1>11, <1>12, <1>13 DEF BlockInv

LEMMA PutRefusedBlocks ==
  ASSUME IInv, BlockInv, NEW p \in Proc, PutRefused(p)
  PROVE  BlockInv'
<1> DEFINE e == Home(p)
           k == Len(rdq[e]) + 1
           S == Readers(e) \cup Writers(e)
<1>1. e \in End /\ Types
  BY Homes DEF IInv
<1>2. /\ pc[p] = "copyin"
      /\ rdq' = [rdq EXCEPT ![e] = <<>>]
      /\ qfull' = qfull \ {e} /\ qwantw' = qwantw \ {e}
      /\ nfree' = nfree + k
      /\ queuerun(Woken(Moved(p, "user"), S), nfree + k, strbcflag \/ freeb(k, bufcalls))
      /\ strbcflag' = FALSE
      /\ UNCHANGED <<rsleep, wsleep>>
  BY DEF PutRefused
<1>3. \A x \in S : pc[x] # "bsleep"
  BY DEF Readers, Writers
<1>4. "user" \in Elsewhere
  BY DEF Elsewhere, States
<1>5. Len(rdq[e]) \in Nat /\ k \in Nat /\ nfree \in Nat
  <2>1. rdq[e] \in Seq(Message)
    BY <1>1 DEF Types
  <2> QED BY <2>1 DEF BlockInv, Pool
<1> HIDE DEF S
<1>6. /\ nfree + k \in Nat
      /\ (strbcflag \/ freeb(k, bufcalls)) \in BOOLEAN
      /\ (strbcflag \/ freeb(k, bufcalls)) \/ Enough(nfree + k, pc)
  BY <1>5, FlagOrEnough
<1>7. PICK n \in Nat, b \in BOOLEAN : n = nfree + k /\ b = (strbcflag \/ freeb(k, bufcalls))
  BY <1>6
<1>8. queuerun(Woken(Moved(p, "user"), S), n, b) /\ (b \/ Enough(n, pc))
  BY <1>2, <1>6, <1>7
<1>9. pc'[p] = "user" /\ Bystanders(p) /\ ListOf(bufcalls, pc)' /\ Enough(n, pc')
  BY <1>2, <1>3, <1>4, <1>8, Served
<1>10. Pool'
  <2>1. InHand(pc[p]) = 1 /\ InHand(pc'[p]) = 0
    BY <1>2, <1>9 DEF InHand
  <2>2. n + 0 + 0 = nfree + Len(rdq[e]) + 1
    BY <1>5, <1>7
  <2>3. n + Len(<<>>) + InHand(pc'[p]) = nfree + Len(rdq[e]) + InHand(pc[p])
    BY <2>1, <2>2, EmptyNotFull
  <2> QED BY <1>1, <1>2, <1>7, <1>9, <2>3, EmptyNotFull, Balance DEF BlockInv
<1>11. FullExact'
  BY <1>1, <1>2, EmptyNotFull, FullChange DEF BlockInv
<1>12. FlagTypes'
  BY <1>2 DEF BlockInv, FlagTypes
<1>13. Offered'
  BY <1>2, <1>7, <1>9 DEF Offered
<1> QED BY <1>9, <1>10, <1>11, <1>12, <1>13 DEF BlockInv

(* getq at the end of p: the flags that it may change. *)
LEMMA GetqFlagTypes ==
  ASSUME BlockInv, NEW e, NEW q, getqFlags(e, q), UNCHANGED rsleep, strbcflag' \in BOOLEAN
  PROVE  FlagTypes'
  BY DEF BlockInv, FlagTypes, getqFlags

(* The caller of the loop of strread: the block of the message it has      *)
(* copied, if any, has been freed.                                         *)
Turn(p, n, b) ==
  /\ pc[p] \in {"user", "rwoken", "copyout"}
  /\ n \in Nat /\ n = nfree + InHand(pc[p])
  /\ b \in BOOLEAN /\ (b \/ Enough(n, pc))

LEMMA TakeBlocks ==
  ASSUME IInv, BlockInv, NEW p \in Proc, NEW n, NEW b, Turn(p, n, b), ReadTake(p, n, b)
  PROVE  BlockInv'
<1> DEFINE e == Home(p)
           q == Tail(rdq[e])
           S == strwsrv(e, q)
<1>1. e \in End /\ Types
  BY Homes DEF IInv
<1>2. /\ rdq[e] # <<>>
      /\ rdq' = [rdq EXCEPT ![e] = q]
      /\ qfull' = IF Len(q) < hiwat THEN qfull \ {e} ELSE qfull
      /\ getqFlags(e, q)
      /\ queuerun(Woken(Moved(p, "copyout"), S), n, b)
      /\ nfree' = n /\ strbcflag' = FALSE /\ UNCHANGED rsleep
  BY DEF ReadTake
<1>3. \A x \in S : pc[x] # "bsleep"
  BY DEF strwsrv, Writers
<1>4. "copyout" \in Elsewhere
  BY DEF Elsewhere, States
<1>5. /\ q \in Seq(Message) /\ Len(q) \in Nat
      /\ Len(rdq[e]) \in Nat /\ Len(rdq[e]) = Len(q) + 1
  <2>1. rdq[e] \in Seq(Message)
    BY <1>1 DEF Types
  <2> QED BY <1>2, <2>1
<1> HIDE DEF S, q
<1>6. pc[p] \notin {"bsleep", "bwoken"} /\ n \in Nat /\ b \in BOOLEAN /\ (b \/ Enough(n, pc))
  BY DEF Turn
<1>7. pc'[p] = "copyout" /\ Bystanders(p) /\ ListOf(bufcalls, pc)' /\ Enough(n, pc')
  BY <1>2, <1>3, <1>4, <1>6, Served
<1>8. Pool'
  <2>1. InHand(pc'[p]) = 1 /\ InHand(pc[p]) \in Nat /\ nfree \in Nat /\ n = nfree + InHand(pc[p])
    BY <1>7 DEF InHand, BlockInv, Pool, Turn
  <2>2. PICK l \in Nat, g \in Nat, h \in Nat : l = Len(q) /\ g = nfree /\ h = InHand(pc[p])
    BY <1>5, <2>1
  <2>3. (g + h) + l + 1 = g + (l + 1) + h
    OBVIOUS
  <2>4. n + Len(q) + InHand(pc'[p]) = nfree + Len(rdq[e]) + InHand(pc[p])
    BY <1>5, <2>1, <2>2, <2>3
  <2> QED BY <1>1, <1>2, <1>5, <1>6, <1>7, <2>4, Balance DEF BlockInv
<1>9. FullExact'
  <2>1. e \notin qfull => ~(Len(q) >= hiwat)
    <3>1. e \notin qfull => ~(Len(rdq[e]) >= hiwat)
      BY <1>1 DEF BlockInv, FullExact
    <3> QED BY <1>5, <3>1, Marks
  <2>2. Len(q) < hiwat <=> ~(Len(q) >= hiwat)
    BY <1>5, Marks
  <2>3. qfull' = IF Len(q) >= hiwat THEN qfull \cup {e} ELSE qfull \ {e}
    BY <1>2, <2>1, <2>2
  <2> QED BY <1>1, <1>2, <1>5, <2>3, FullChange DEF BlockInv
<1>10. FlagTypes'
  BY <1>2, GetqFlagTypes
<1>11. Offered'
  BY <1>2, <1>7 DEF Offered
<1> QED BY <1>7, <1>8, <1>9, <1>10, <1>11 DEF BlockInv

LEMMA EndBlocks ==
  ASSUME IInv, BlockInv, NEW p \in Proc, NEW rflg \in BOOLEAN, NEW n, NEW b,
         Turn(p, n, b), ReadEnd(p, rflg, n, b)
  PROVE  BlockInv'
<1> DEFINE e == Home(p)
           q == Tail(rdq[e])
           left == IF rflg THEN putbq(Head(rdq[e]), q) ELSE q
           S == strwsrv(e, q)
           f == IF rflg THEN n ELSE n + 1
<1>1. e \in End /\ Types
  BY Homes DEF IInv
<1>2. /\ rdq[e] # <<>>
      /\ rdq' = [rdq EXCEPT ![e] = left]
      /\ qfull' = IF putqFills(left) THEN qfull \cup {e} ELSE qfull \ {e}
      /\ getqFlags(e, q)
      /\ queuerun(Woken(Moved(p, "user"), S), n, b)
      /\ nfree' = f
      /\ strbcflag' = (~rflg /\ freeb(1, bufcalls'))
      /\ UNCHANGED rsleep
  BY DEF ReadEnd
<1>3. \A x \in S : pc[x] # "bsleep"
  BY DEF strwsrv, Writers
<1>4. "user" \in Elsewhere
  BY DEF Elsewhere, States
<1>5. /\ left \in Seq(Message) /\ Len(left) \in Nat /\ Len(q) \in Nat
      /\ Len(rdq[e]) \in Nat /\ Len(rdq[e]) = Len(q) + 1
      /\ Len(left) = IF rflg THEN Len(q) + 1 ELSE Len(q)
  <2>1. rdq[e] \in Seq(Message)
    BY <1>1 DEF Types
  <2>2. q \in Seq(Message) /\ Head(rdq[e]) \in Message /\ Len(q) \in Nat
        /\ Len(rdq[e]) \in Nat /\ Len(rdq[e]) = Len(q) + 1
    BY <1>2, <2>1
  <2>3. \A m \in Message, r \in Seq(Message) :
          <<m>> \o r \in Seq(Message) /\ Len(<<m>> \o r) = Len(r) + 1
    OBVIOUS
  <2> QED BY <2>2, <2>3 DEF putbq
<1> HIDE DEF S, q, left, f
<1>6. pc[p] \notin {"bsleep", "bwoken"} /\ n \in Nat /\ b \in BOOLEAN /\ (b \/ Enough(n, pc))
  BY DEF Turn
<1>7. pc'[p] = "user" /\ Bystanders(p) /\ ListOf(bufcalls, pc)' /\ Enough(n, pc')
  BY <1>2, <1>3, <1>4, <1>6, Served
<1>8. Pool'
  <2>1. InHand(pc'[p]) = 0 /\ InHand(pc[p]) \in Nat /\ nfree \in Nat /\ n = nfree + InHand(pc[p])
    BY <1>7 DEF InHand, BlockInv, Pool, Turn
  <2>2. PICK l \in Nat, g \in Nat, h \in Nat : l = Len(q) /\ g = nfree /\ h = InHand(pc[p])
    BY <1>5, <2>1
  <2>3. (g + h) + (l + 1) + 0 = g + (l + 1) + h /\ (g + h) + 1 + l + 0 = g + (l + 1) + h
    OBVIOUS
  <2>4. f + Len(left) + InHand(pc'[p]) = nfree + Len(rdq[e]) + InHand(pc[p])
    BY <1>5, <2>1, <2>2, <2>3 DEF f
  <2>5. f \in Nat
    BY <1>6 DEF f
  <2> QED BY <1>1, <1>2, <1>5, <1>7, <2>4, <2>5, Balance DEF BlockInv
<1>9. FullExact'
  BY <1>1, <1>2, <1>5, FullChange DEF BlockInv, putqFills
<1>10. FlagTypes'
  <2>1. strbcflag' \in BOOLEAN
    BY <1>2
  <2> QED BY <1>2, <2>1, GetqFlagTypes
<1>11. Offered'
  <2>1. CASE rflg
    BY <1>2, <1>7, <2>1 DEF Offered, f
  <2>2. CASE ~rflg /\ bufcalls' # <<>>
    <3>1. freeb(1, bufcalls')
      BY <2>2 DEF freeb
    <3>2. strbcflag'
      BY <1>2, <2>2, <3>1
    <3> QED BY <3>2 DEF Offered
  <2>3. CASE bufcalls' = <<>>
    <3>1. \A x \in Proc : pc'[x] # "bsleep"
      BY <1>7, <2>3 DEF ListOf
    <3> QED BY <3>1 DEF Offered, Enough
  <2> QED BY <2>1, <2>2, <2>3
<1> QED BY <1>7, <1>8, <1>9, <1>10, <1>11 DEF BlockInv

LEMMA FirstBlocks ==
  ASSUME IInv, BlockInv, NEW p \in Proc, pc[p] \in {"user", "rwoken"}, ReadFirst(p)
  PROVE  BlockInv'
<1>1. Turn(p, nfree, strbcflag)
  <2>1. InHand(pc[p]) = 0 /\ nfree \in Nat /\ nfree = nfree + 0
    BY DEF InHand, BlockInv, Pool
  <2> QED BY <2>1 DEF Turn, BlockInv, FlagTypes, Offered
<1>2. CASE ReadEmpty(p) /\ UNCHANGED <<pool, mp>>
  <2>1. PICK to \in {"user", "rsleep"} : pc' = Moved(p, to)
    BY <1>2 DEF ReadEmpty
  <2>2. UNCHANGED <<rdq, qfull, qwantw, wsleep, pool>>
    BY <1>2 DEF ReadEmpty, queues
  <2>3. rsleep' \in SUBSET End
    BY <1>2, Homes DEF ReadEmpty, BlockInv, FlagTypes
  <2> QED BY <2>1, <2>2, <2>3, ReturnBlocks
<1>3. CASE ReadTake(p, nfree, strbcflag)
  BY <1>1, <1>3, TakeBlocks
<1>4. CASE ReadEnd(p, FALSE, nfree, strbcflag)
  BY <1>1, <1>4, EndBlocks
<1> QED BY <1>2, <1>3, <1>4 DEF ReadFirst

LEMMA ReadBlocks ==
  ASSUME IInv, BlockInv, NEW p \in Proc, NEW n, strread(p, n)
  PROVE  BlockInv'
  BY FirstBlocks DEF strread

LEMMA ReaderRunsBlocks ==
  ASSUME IInv, BlockInv, NEW p \in Proc, ReaderRuns(p)
  PROVE  BlockInv'
<1>1. pc[p] = "rwoken"
  BY DEF ReaderRuns
<1>2. CASE state[Home(p)] = "STRERR"
  <2>1. pc' = Moved(p, "user") /\ UNCHANGED <<rdq, qfull, qwantw, wsleep, rsleep, pool>>
    BY <1>2 DEF ReaderRuns, queues
  <2>2. rsleep' \in SUBSET End
    BY <2>1 DEF BlockInv, FlagTypes
  <2> QED BY <1>1, <2>1, <2>2, ReturnBlocks
<1>3. CASE state[Home(p)] # "STRERR"
  BY <1>1, <1>3, FirstBlocks DEF ReaderRuns
<1> QED BY <1>2, <1>3

LEMMA CopyOutBlocks ==
  ASSUME IInv, BlockInv, NEW p \in Proc, CopyOut(p)
  PROVE  BlockInv'
<1> DEFINE e == Home(p)
           m == mp[p]
           n == count[p]
           r == [at |-> (m.at + n) % M, len |-> m.len - n]
           back == putbq(r, rdq[e])
           bcflag == strbcflag \/ freeb(1, bufcalls)
<1>1. e \in End /\ Types /\ pc[p] = "copyout" /\ InHand(pc[p]) = 1
  BY Homes DEF IInv, CopyOut, InHand
<1>2. Turn(p, nfree + 1, bcflag)
  BY <1>1, FlagOrEnough DEF Turn
<1>3. CASE n < m.len
  <2>1. /\ rdq' = [rdq EXCEPT ![e] = back]
        /\ qfull' = IF putqFills(rdq'[e]) THEN qfull \cup {e} ELSE qfull
        /\ pc' = Moved(p, "user")
        /\ UNCHANGED <<qwantw, rsleep, wsleep, pool>>
    BY <1>1, <1>3 DEF CopyOut, Types
  <2>2. r \in Message
    BY <1>1, <1>3, MessageParts DEF Types
  <2> HIDE DEF r
  <2>3. /\ back \in Seq(Message)
        /\ Len(rdq[e]) \in Nat /\ Len(back) = Len(rdq[e]) + 1
    <3>1. rdq[e] \in Seq(Message)
      BY <1>1 DEF Types
    <3>2. \A x \in Message, q \in Seq(Message) :
            /\ <<x>> \o q \in Seq(Message) /\ Len(q) \in Nat
            /\ Len(<<x>> \o q) = Len(q) + 1
      OBVIOUS
    <3> QED BY <2>2, <3>1, <3>2 DEF putbq
  <2> HIDE DEF back
  <2>4. pc'[p] = "user" /\ \A q \in Proc \ {p} : pc'[q] = pc[q]
    BY <1>1, <2>1 DEF Types, Moved
  <2>5. Bystanders(p) /\ InHand(pc'[p]) = 0 /\ SameWaiters(pc')
    BY <1>1, <2>4 DEF Bystanders, InHand, SameWaiters
  <2>6. UNCHANGED <<strbcflag, bufcalls, nfree>>
    BY <2>1 DEF pool
  <2>7. Pool'
    <3>1. nfree \in Nat
      BY DEF BlockInv, Pool
    <3>2. PICK l \in Nat, g \in Nat : l = Len(rdq[e]) /\ g = nfree
      BY <2>3, <3>1
    <3>3. g + (l + 1) + 0 = g + l + 1
      OBVIOUS
    <3>4. nfree + Len(back) + InHand(pc'[p]) = nfree + Len(rdq[e]) + InHand(pc[p])
      BY <1>1, <2>3, <2>5, <3>2, <3>3
    <3> QED BY <1>1, <2>1, <2>3, <2>5, <2>6, <3>1, <3>4, Balance DEF BlockInv
  <2>8. FullExact'
    <3>1. e \in qfull => Len(back) >= hiwat
      <4>1. e \in qfull => Len(rdq[e]) >= hiwat
        BY DEF BlockInv, FullExact
      <4> QED BY <2>3, <4>1, Marks
    <3>2. rdq'[e] = back
      BY <1>1, <2>1 DEF Types
    <3>3. qfull' = IF Len(back) >= hiwat THEN qfull \cup {e} ELSE qfull \ {e}
      BY <2>1, <3>1, <3>2 DEF putqFills
    <3> QED BY <1>1, <2>1, <2>3, <3>3, FullChange DEF BlockInv
  <2>9. ListOf(bufcalls, pc)' /\ Offered' /\ strbcflag' \in BOOLEAN
    BY <2>5, <2>6, KeptOffered
  <2>10. FlagTypes'
    BY <2>1, <2>9 DEF BlockInv, FlagTypes
  <2> QED BY <2>7, <2>8, <2>9, <2>10 DEF BlockInv
<1>4. CASE ~(n < m.len)
  <2>1. CASE /\ pc' = Moved(p, "user")
             /\ nfree' = nfree + 1 /\ strbcflag' = bcflag
             /\ UNCHANGED <<queues, rsleep, wsleep, bufcalls>>
    <3>1. UNCHANGED <<rdq, qfull, qwantw, wsleep, bufcalls>> /\ rsleep' \in SUBSET End
      BY <2>1 DEF queues, BlockInv, FlagTypes
    <3> QED BY <1>1, <2>1, <3>1, QuietBlocks
  <2>2. CASE ReadTake(p, nfree + 1, bcflag)
    BY <1>2, <2>2, TakeBlocks
  <2>3. CASE ReadEnd(p, TRUE, nfree + 1, bcflag)
    BY <1>2, <2>3, EndBlocks
  <2> QED BY <1>4, <2>1, <2>2, <2>3 DEF CopyOut
<1> QED BY <1>3, <1>4

LEMMA InterruptedBlocks ==
  ASSUME IInv, BlockInv, NEW p \in Proc, Interrupted(p)
  PROVE  BlockInv'
<1>1. PICK from \in {"wsleep", "rsleep"} :
        pc' = Woken(Moved(p, "user"), InterruptedCalls(p, from))
  BY DEF Interrupted
<1>2. /\ pc[p] \in {"wsleep", "wwoken", "rsleep", "rwoken"}
      /\ UNCHANGED <<rdq, qfull, qwantw, strbcflag, bufcalls, nfree>>
      /\ wsleep' \subseteq wsleep /\ rsleep' \subseteq rsleep
  BY DEF Interrupted, queues, pool
<1>3. "user" \in Elsewhere
  BY DEF Elsewhere, States
<1>4. \A q \in InterruptedCalls(p, from) : pc[q] # "bsleep"
  BY DEF InterruptedCalls
<1>5. /\ SameWaiters(pc') /\ pc'[p] = "user"
      /\ \A q \in Proc \ {p} : \/ pc'[q] = pc[q]
                               \/ pc[q] = "rsleep" /\ pc'[q] = "rwoken"
                               \/ pc[q] = "wsleep" /\ pc'[q] = "wwoken"
  BY <1>1, <1>2, <1>3, <1>4, WokenSame DEF IInv
<1>6. Bystanders(p) /\ InHand(pc[p]) = 0 /\ InHand(pc'[p]) = 0
  BY <1>2, <1>5 DEF Bystanders, InHand
<1>7. Pool'
  BY <1>2, <1>6, BalanceAtRest DEF BlockInv, Pool
<1>8. ListOf(bufcalls, pc)' /\ Offered' /\ strbcflag' \in BOOLEAN
  BY <1>2, <1>5, KeptOffered
<1>9. FlagTypes' /\ FullExact'
  BY <1>2, <1>8 DEF BlockInv, FlagTypes, FullExact
<1> QED BY <1>7, <1>8, <1>9 DEF BlockInv

LEMMA CloseBlocks ==
  ASSUME IInv, BlockInv, NEW p \in Proc, close(p)
  PROVE  BlockInv'
<1> DEFINE e == Home(p)
           d == Other(e)
           k == Len(rdq[e])
<1>1. e \in End /\ d \in End /\ Types
  BY Homes, Ends DEF IInv
<1>2. pc[p] = "user" /\ UNCHANGED bufcalls
  BY DEF close
<1>3. CASE fds[e] = {p}
  <2>1. /\ rdq' = [rdq EXCEPT ![e] = <<>>]
        /\ qfull' = qfull \ {e} /\ qwantw' = qwantw \ {e}
        /\ rsleep' = rsleep \ {e} /\ wsleep' = wsleep \ {e}
        /\ pc' = IF fds[d] # {} THEN Woken(pc, M_HANGUP(d)) ELSE pc
        /\ nfree' = nfree + k
        /\ strbcflag' = (strbcflag \/ freeb(k, bufcalls))
    BY <1>3 DEF close
  <2>2. k \in Nat /\ nfree \in Nat
    <3>1. rdq[e] \in Seq(Message)
      BY <1>1 DEF Types
    <3> QED BY <3>1 DEF BlockInv, Pool
  <2>3. /\ \A q \in Proc : \/ pc'[q] = pc[q]
                           \/ pc[q] = "rsleep" /\ pc'[q] = "rwoken"
                           \/ pc[q] = "wsleep" /\ pc'[q] = "wwoken"
        /\ pc'[p] = "user"
    BY <1>2, <2>1 DEF Woken, M_HANGUP, Readers, Writers
  <2>4. /\ Bystanders(p) /\ InHand(pc[p]) = 0 /\ InHand(pc'[p]) = 0
        /\ SameWaiters(pc')
    BY <1>2, <2>3 DEF Bystanders, InHand, SameWaiters
  <2>5. Pool'
    <3>1. nfree + k \in Nat /\ (nfree + k) + 0 + 0 = nfree + k + 0
      BY <2>2
    <3> QED BY <1>1, <2>1, <2>4, <3>1, EmptyNotFull, Balance DEF BlockInv
  <2>6. ListOf(bufcalls, pc)' /\ Offered' /\ strbcflag' \in BOOLEAN
    BY <1>2, <2>1, <2>2, <2>4, FreedOffered
  <2>7. FullExact'
    BY <1>1, <2>1, EmptyNotFull, FullChange DEF BlockInv
  <2>8. FlagTypes'
    BY <2>1, <2>6 DEF BlockInv, FlagTypes
  <2> QED BY <2>5, <2>6, <2>7, <2>8 DEF BlockInv
<1>4. CASE fds[e] # {p}
  <2>1. UNCHANGED <<rdq, qfull, qwantw, rsleep, wsleep, strbcflag, nfree, pc>>
    BY <1>4 DEF close, queues
  <2> QED BY <1>2, <2>1 DEF BlockInv, Pool, FlagTypes, FullExact, ListOf, Offered, Holding
<1> QED BY <1>3, <1>4

LEMMA RunqueuesBlocks ==
  ASSUME IInv, BlockInv, runqueues
  PROVE  BlockInv'
<1>1. /\ strbcflag /\ queuerun(pc, nfree, TRUE) /\ strbcflag' = FALSE
      /\ UNCHANGED <<rdq, qfull, qwantw, rsleep, wsleep, nfree>>
  BY DEF runqueues, queues, heads
<1>2. nfree \in Nat /\ pc \in [Proc -> States]
  BY DEF BlockInv, Pool, IInv, Types
<1>3. /\ ListOf(bufcalls, pc)' /\ Enough(nfree, pc')
      /\ \A q \in Proc : pc'[q] = pc[q] \/ (pc[q] = "bsleep" /\ pc'[q] = "bwoken")
  BY <1>1, <1>2, QueuerunServes DEF BlockInv
<1>4. Holding' = Holding
  BY <1>3 DEF Holding
<1>5. Pool'
  BY <1>1, <1>4 DEF BlockInv, Pool
<1>6. FlagTypes' /\ FullExact'
  BY <1>1 DEF BlockInv, FlagTypes, FullExact
<1>7. Offered'
  BY <1>1, <1>3 DEF Offered
<1> QED BY <1>3, <1>5, <1>6, <1>7 DEF BlockInv

LEMMA NextBlocks ==
  ASSUME IInv, BlockInv, [Next]_vars
  PROVE  BlockInv'
<1>1. CASE UNCHANGED <<queues, rsleep, wsleep, pool, pc>>
  BY <1>1 DEF queues, pool, BlockInv, Pool, FlagTypes, FullExact, ListOf, Offered, Holding
<1>2. ASSUME NEW c \in Calls, \/ c[2] = "write" /\ strwrite(c[1], c[3])
                              \/ c[2] = "read" /\ strread(c[1], c[3])
      PROVE  BlockInv'
  BY <1>2, CallTypes, WriteBlocks, ReadBlocks
<1>3. ASSUME NEW p \in Proc, Runs(p) PROVE BlockInv'
  BY <1>3, WriterRunsBlocks, ReaderRunsBlocks, BufferWaiterBlocks, PutBlocks,
     PutRefusedBlocks, FailsBlocks, CopyOutBlocks DEF Runs
<1>4. ASSUME NEW p \in Proc, Interrupted(p) PROVE BlockInv'
  BY <1>4, InterruptedBlocks
<1>5. ASSUME NEW p \in Proc, close(p) PROVE BlockInv'
  BY <1>5, CloseBlocks
<1>6. CASE spopen
  BY <1>1, <1>6 DEF spopen, procVars
<1>7. CASE runqueues
  BY <1>7, RunqueuesBlocks
<1>8. CASE UNCHANGED vars
  BY <1>1, <1>8 DEF vars, heads, procVars
<1> QED BY <1>2, <1>3, <1>4, <1>5, <1>6, <1>7, <1>8 DEF Next

-----------------------------------------------------------------------------
(* The theorems. *)

LEMMA BlocksHold == Spec => [](IInv /\ BlockInv)
<1>1. Init => IInv /\ BlockInv
  BY InitKeeps, InitBlocks
<1>2. IInv /\ BlockInv /\ [Next]_vars => IInv' /\ BlockInv'
  BY NextKeeps, NextBlocks
<1> QED BY <1>1, <1>2, PTL DEF Spec

(* Every block is free, on a queue or in somebody's hands, through failed  *)
(* copies, signals, ends of file that are put back, refused writes and     *)
(* closes (allocb, freeb, strread, strwrite, strclose).                    *)
THEOREM NoBlockIsLost == Spec => []BlocksAreConserved
<1>1. IInv /\ BlockInv => BlocksAreConserved
  <2> SUFFICES ASSUME IInv, BlockInv PROVE BlocksAreConserved
    OBVIOUS
  <2> DEFINE a == CHOOSE e \in End : TRUE
  <2>1. a \in End /\ Other(a) \in End
    BY ConstAssumption, Ends
  <2>2. NBLK = nfree + Queued(rdq) + Cardinality(Holding) /\ nfree \in Nat
    BY DEF BlockInv, Pool
  <2>3. Queued(rdq) = Len(rdq[a]) + Len(rdq[Other(a)])
    BY DEF Queued
  <2>4. rdq[a] \in Seq(Message) /\ rdq[Other(a)] \in Seq(Message)
    BY <2>1 DEF IInv, Types
  <2>5. PICK x \in Nat, y \in Nat, f \in Nat, h \in Nat :
          x = Len(rdq[a]) /\ y = Len(rdq[Other(a)]) /\ f = nfree /\ h = Cardinality(Holding)
    <3>1. Len(rdq[a]) \in Nat /\ Len(rdq[Other(a)]) \in Nat
      BY <2>4
    <3>2. Cardinality(Holding) \in Nat
      BY FiniteProc DEF Holding
    <3> HIDE DEF a
    <3> QED BY <2>2, <3>1, <3>2
  <2>6. f + (x + y) + h = f + x + y + h
    OBVIOUS
  <2>7. NBLK = nfree + Len(rdq[a]) + Len(rdq[Other(a)]) + Cardinality(Holding)
    BY <2>2, <2>3, <2>5, <2>6
  <2> QED BY <2>7 DEF BlocksAreConserved, Holding
<1> QED BY <1>1, BlocksHold, PTL

(* A writer that waits for a block is on the list of bufcall, and as long  *)
(* as it waits there is no free block that nobody has been called for:     *)
(* either queuerun is to look at the list, or those it has called may take *)
(* them all (bufcall, freeb, queuerun, strunbcall).                        *)
THEOREM FreeBlocksFindWaiters == Spec => []BufferWaitersAreCalled
<1>1. IInv /\ BlockInv => BufferWaitersAreCalled
  <2> SUFFICES ASSUME IInv, BlockInv, NEW p \in Proc, pc[p] = "bsleep"
               PROVE  /\ Contains(bufcalls, p)
                      /\ strbcflag \/ nfree <= Cardinality({q \in Proc : pc[q] = "bwoken"})
    BY DEF BufferWaitersAreCalled
  <2>1. Contains(bufcalls, p)
    BY DEF BlockInv, ListOf, Contains
  <2>2. strbcflag \/ nfree <= Cardinality(Recalled(pc))
    BY DEF BlockInv, Offered, Enough
  <2> QED BY <2>1, <2>2 DEF Recalled
<1> QED BY <1>1, BlocksHold, PTL

(* The variables have their types, no more blocks are free than there are, *)
(* and QFULL is set exactly when a queue is at its high water mark (putq,  *)
(* putbq, getq, flushq).                                                   *)
THEOREM StreamTypes == Spec => []TypeOK
<1>1. IInv /\ BlockInv => TypeOK
  <2> SUFFICES ASSUME IInv, BlockInv PROVE TypeOK
    OBVIOUS
  <2>1. nfree \in 0 .. NBLK
    <3>1. PICK a \in End : Queued(rdq) = Len(rdq[a]) + Len(rdq[Other(a)])
      <4>1. (CHOOSE e \in End : TRUE) \in End
        BY ConstAssumption
      <4> QED BY <4>1 DEF Queued
    <3>2. rdq[a] \in Seq(Message) /\ rdq[Other(a)] \in Seq(Message)
      BY <3>1, Ends DEF IInv, Types
    <3>3. Queued(rdq) \in Nat
      <4>1. Len(rdq[a]) \in Nat /\ Len(rdq[Other(a)]) \in Nat
        BY <3>2
      <4>2. PICK x \in Nat, y \in Nat : x = Len(rdq[a]) /\ y = Len(rdq[Other(a)])
        BY <4>1
      <4>3. Queued(rdq) = x + y
        BY <3>1, <4>2
      <4> QED BY <4>3
    <3>4. Cardinality(Holding) \in Nat
      BY FiniteProc DEF Holding
    <3>5. PICK n \in Nat, f \in Nat, x \in Nat, h \in Nat :
            n = NBLK /\ f = nfree /\ x = Queued(rdq) /\ h = Cardinality(Holding)
      <4>1. NBLK \in Nat /\ nfree \in Nat
        BY FiniteProc DEF BlockInv, Pool
      <4> QED BY <3>3, <3>4, <4>1
    <3>6. n = f + x + h
      <4>1. NBLK = nfree + Queued(rdq) + Cardinality(Holding)
        BY DEF BlockInv, Pool
      <4> QED BY <3>5, <4>1
    <3>7. f \in 0 .. n
      BY <3>6
    <3> QED BY <3>5, <3>7
  <2>2. qfull \subseteq End
    BY DEF BlockInv, FullExact
  <2> QED BY <2>1, <2>2 DEF TypeOK, IInv, Types, BlockInv, FlagTypes, FullExact, ListOf
<1> QED BY <1>1, BlocksHold, PTL

-----------------------------------------------------------------------------
(* The data, for stream pipes each end of which is read by one process at  *)
(* most: the reader is not forgotten, the bytes come in order and the      *)
(* queues stay bounded.                                                    *)

Reading == {"rsleep", "rwoken", "copyout"}

(* Past canput, the message not yet put. *)
Passing == {"bsleep", "bwoken", "copyin"}

OnlyReaders(pcs) == \A p \in Proc : pcs[p] \in Reading => IsReader(p)

(* strclose empties the queue, and nothing is put at a closed end. *)
ClosedIsEmpty == \A e \in End : fds[e] = {} => rdq[e] = <<>>

CallInv == OnlyReaders(pc) /\ ReadersAreCalled /\ ClosedIsEmpty

(* What the high water mark has to account for at e: the messages there,   *)
(* those the reader may put back, those that canput has let through.       *)
Taken(e, pcs) == {p \in At(e) : pcs[p] = "copyout"}
Passed(e, pcs) == {p \in At(e) : pcs[p] \in Passing}
Load(e, pcs, q) ==
  Len(q[e]) + Cardinality(Taken(e, pcs)) + Cardinality(Passed(Other(e), pcs))

Bounded == \A e \in End : Load(e, pc, rdq) <= hiwat + Cardinality(At(Other(e)))

(* What is still to be delivered at e, the message in hand first. *)
Streamed(e, pcs, mps, q) ==
  IF Taken(e, pcs) = {} THEN q[e]
  ELSE <<mps[CHOOSE p \in Taken(e, pcs) : TRUE]>> \o q[e]

(* Each message begins where the one before it ended; next is the number   *)
(* of the byte that follows.                                               *)
Chain(s, next) ==
  \A i \in DOMAIN s :
    (s[i].at + s[i].len) % M = IF i = Len(s) THEN next ELSE s[i + 1].at

InOrder == \A e \in End : state[e] # "STRERR" => Chain(Streamed(e, pc, mp, rdq), sent[e])

DataInv == CallInv /\ Bounded /\ InOrder

Ground == IInv /\ BlockInv /\ DataInv

-----------------------------------------------------------------------------
(* Arithmetic modulo M. *)

LEMMA Division ==
  ASSUME NEW m \in Nat, m > 0, NEW a \in Nat
  PROVE  \E q \in Nat, r \in 0 .. m - 1 : a = m * q + r /\ a % m = r
<1>1. a % m \in 0 .. m - 1 /\ a \div m \in Nat
  OBVIOUS
<1>2. PICK q \in Nat, r \in 0 .. m - 1 : q = a \div m /\ r = a % m
  BY <1>1
<1>3. a = m * q + r
  BY <1>2
<1> QED BY <1>2, <1>3

LEMMA Remainder ==
  ASSUME NEW m \in Nat, m > 0, NEW q \in Nat, NEW r \in 0 .. m - 1
  PROVE  (m * q + r) % m = r
  OBVIOUS

LEMMA ModOfSum ==
  ASSUME NEW m \in Nat, m > 0, NEW a \in Nat, NEW b \in Nat
  PROVE  ((a % m) + b) % m = (a + b) % m
<1>1. PICK q \in Nat, r \in 0 .. m - 1 : a = m * q + r /\ a % m = r
  BY Division
<1>2. r + b \in Nat
  OBVIOUS
<1>3. PICK k \in Nat, s \in 0 .. m - 1 : r + b = m * k + s /\ (r + b) % m = s
  BY <1>2, Division
<1>4. q + k \in Nat /\ m * (q + k) = m * q + m * k
  OBVIOUS
<1>5. a + b = m * (q + k) + s
  BY <1>1, <1>3, <1>4
<1>6. (m * (q + k) + s) % m = s
  BY <1>4, Remainder
<1> QED BY <1>1, <1>3, <1>5, <1>6

-----------------------------------------------------------------------------
(* Chains of messages. *)

LEMMA FrontFacts ==
  ASSUME NEW m \in Message, NEW q \in Seq(Message)
  PROVE  /\ <<m>> \o q \in Seq(Message)
         /\ Len(q) \in Nat /\ Len(<<m>> \o q) = Len(q) + 1
         /\ DOMAIN (<<m>> \o q) = 1 .. Len(q) + 1 /\ DOMAIN q = 1 .. Len(q)
         /\ (<<m>> \o q)[1] = m
         /\ \A i \in 1 .. Len(q) : (<<m>> \o q)[i + 1] = q[i]
  OBVIOUS

(* The first message of a chain may go. *)
LEMMA ChainTail ==
  ASSUME NEW m \in Message, NEW q \in Seq(Message), NEW x, Chain(<<m>> \o q, x)
  PROVE  Chain(q, x)
<1> DEFINE s == <<m>> \o q
<1>1. PICK l \in Nat :
        /\ l = Len(q) /\ Len(s) = l + 1 /\ DOMAIN s = 1 .. l + 1 /\ DOMAIN q = 1 .. l
        /\ \A k \in 1 .. l : s[k + 1] = q[k]
  BY FrontFacts
<1> SUFFICES ASSUME NEW i \in 1 .. l
             PROVE  (q[i].at + q[i].len) % M = IF i = l THEN x ELSE q[i + 1].at
  BY <1>1 DEF Chain
<1>2. i + 1 \in DOMAIN s
  BY <1>1
<1>3. (s[i + 1].at + s[i + 1].len) % M = IF i + 1 = l + 1 THEN x ELSE s[(i + 1) + 1].at
  BY <1>1, <1>2 DEF Chain
<1> HIDE DEF s
<1>4. s[i + 1] = q[i]
  BY <1>1
<1>5. CASE i = l
  BY <1>3, <1>4, <1>5
<1>6. CASE i # l
  <2>1. i + 1 \in 1 .. l /\ i + 1 # l + 1
    BY <1>6
  <2>2. s[(i + 1) + 1] = q[i + 1]
    BY <1>1, <2>1
  <2> QED BY <1>3, <1>4, <1>6, <2>1, <2>2
<1> QED BY <1>5, <1>6

(* A message put in front of a chain that begins where it ends. *)
LEMMA ChainFront ==
  ASSUME NEW m \in Message, NEW q \in Seq(Message), NEW x, Chain(q, x),
         (m.at + m.len) % M = IF q = <<>> THEN x ELSE q[1].at
  PROVE  Chain(<<m>> \o q, x)
<1> DEFINE s == <<m>> \o q
<1>1. PICK l \in Nat :
        /\ l = Len(q) /\ Len(s) = l + 1 /\ DOMAIN s = 1 .. l + 1
        /\ DOMAIN q = 1 .. l /\ s[1] = m
        /\ \A k \in 1 .. l : s[k + 1] = q[k]
  BY FrontFacts
<1>2. q = <<>> <=> l = 0
  BY <1>1
<1> HIDE DEF s
<1> SUFFICES ASSUME NEW i \in 1 .. l + 1
             PROVE  (s[i].at + s[i].len) % M = IF i = l + 1 THEN x ELSE s[i + 1].at
  BY <1>1 DEF Chain, s
<1>3. CASE i = 1
  <2>1. i = l + 1 <=> q = <<>>
    BY <1>2, <1>3
  <2>2. q # <<>> => s[i + 1] = q[1]
    BY <1>1, <1>2, <1>3
  <2> QED BY <1>1, <1>3, <2>1, <2>2
<1>4. CASE i # 1
  <2>1. PICK k \in 1 .. l : i = k + 1
    <3>1. i - 1 \in 1 .. l /\ i = (i - 1) + 1
      BY <1>4
    <3> QED BY <3>1
  <2>2. s[i] = q[k] /\ (i = l + 1 <=> k = l)
    BY <1>1, <2>1
  <2>3. (q[k].at + q[k].len) % M = IF k = l THEN x ELSE q[k + 1].at
    BY <1>1 DEF Chain
  <2>4. ASSUME k # l PROVE s[i + 1] = q[k + 1]
    <3>1. k + 1 \in 1 .. l /\ i + 1 = (k + 1) + 1
      BY <2>1, <2>4
    <3> QED BY <1>1, <3>1
  <2> QED BY <2>2, <2>3, <2>4
<1> QED BY <1>3, <1>4

(* Where a chain that is not empty continues its first message. *)
LEMMA ChainStart ==
  ASSUME NEW m \in Message, NEW q \in Seq(Message), NEW x, Chain(<<m>> \o q, x)
  PROVE  (m.at + m.len) % M = IF q = <<>> THEN x ELSE q[1].at
<1> DEFINE s == <<m>> \o q
<1>1. /\ Len(q) \in Nat /\ Len(s) = Len(q) + 1 /\ DOMAIN s = 1 .. Len(q) + 1 /\ s[1] = m
      /\ \A k \in 1 .. Len(q) : s[k + 1] = q[k]
  BY FrontFacts
<1>2. q = <<>> <=> Len(q) = 0
  OBVIOUS
<1>3. (s[1].at + s[1].len) % M = IF 1 = Len(s) THEN x ELSE s[1 + 1].at
  BY <1>1 DEF Chain
<1> HIDE DEF s
<1>4. 1 = Len(s) <=> q = <<>>
  <2>1. PICK l \in Nat : l = Len(q)
    BY <1>1
  <2>2. 1 = l + 1 <=> l = 0
    OBVIOUS
  <2> QED BY <1>1, <1>2, <2>1, <2>2
<1>5. q # <<>> => s[1 + 1] = q[1]
  BY <1>1, <1>2
<1> QED BY <1>1, <1>3, <1>4, <1>5

(* What the caller has no room for begins where it stopped. *)
LEMMA ChainSplit ==
  ASSUME NEW m \in Message, NEW q \in Seq(Message), NEW x, Chain(<<m>> \o q, x),
         NEW n \in 0 .. MaxLen, n < m.len
  PROVE  Chain(<<[at |-> (m.at + n) % M, len |-> m.len - n]>> \o q, x)
<1> DEFINE r == [at |-> (m.at + n) % M, len |-> m.len - n]
<1>1. r \in Message
  BY MessageParts
<1>2. m.at \in Nat /\ m.len \in Nat /\ n \in Nat /\ M \in Nat /\ M > 0
  BY MessageParts, Marks, Modulus
<1>3. PICK a \in Nat, l \in Nat : a = m.at /\ l = m.len
  BY <1>2
<1>4. PICK j \in Nat : j = n /\ j < l
  BY <1>2, <1>3
<1>5. a + j \in Nat /\ l - j \in Nat /\ (a + j) + (l - j) = a + l
  BY <1>4
<1>6. (((a + j) % M) + (l - j)) % M = ((a + j) + (l - j)) % M
  BY <1>2, <1>5, ModOfSum
<1>7. r.at = (a + j) % M /\ r.len = l - j
  BY <1>3, <1>4
<1>8. (r.at + r.len) % M = (m.at + m.len) % M
  BY <1>3, <1>5, <1>6, <1>7
<1> HIDE DEF r
<1>9. Chain(<<r>> \o q, x)
  BY <1>1, <1>8, ChainTail, ChainStart, ChainFront
<1> QED BY <1>9 DEF r

(* A message put at the end. *)
LEMMA ChainAppend ==
  ASSUME NEW s \in Seq(Message), NEW m \in Message, Chain(s, m.at)
  PROVE  Chain(Append(s, m), (m.at + m.len) % M)
<1> DEFINE t == Append(s, m)
           l == Len(s)
<1>1. /\ l \in Nat /\ Len(t) = l + 1 /\ DOMAIN t = 1 .. l + 1 /\ DOMAIN s = 1 .. l
      /\ t[l + 1] = m /\ \A i \in 1 .. l : t[i] = s[i]
  OBVIOUS
<1> HIDE DEF t, l
<1> SUFFICES ASSUME NEW i \in 1 .. l + 1
             PROVE  (t[i].at + t[i].len) % M
                      = IF i = Len(t) THEN (m.at + m.len) % M ELSE t[i + 1].at
  BY <1>1 DEF Chain, t
<1>2. CASE i = l + 1
  BY <1>1, <1>2
<1>3. CASE i # l + 1
  <2>1. i \in 1 .. l /\ i # Len(t) /\ t[i] = s[i]
    BY <1>1, <1>3
  <2>2. (s[i].at + s[i].len) % M = IF i = l THEN m.at ELSE s[i + 1].at
    BY <1>1, <2>1 DEF Chain, l
  <2>3. CASE i = l
    BY <1>1, <2>1, <2>2, <2>3
  <2>4. CASE i # l
    <3>1. i + 1 \in 1 .. l
      BY <1>1, <2>1, <2>4
    <3> QED BY <1>1, <2>1, <2>2, <2>4, <3>1
  <2> QED BY <2>3, <2>4
<1> QED BY <1>2, <1>3

-----------------------------------------------------------------------------
(* What a step leaves of the others. *)

(* No other process than p changes its part in the traffic, and those of S *)
(* do not sleep for data any more.                                         *)
Aside(p, S) ==
  \A q \in Proc \ {p} :
    /\ pc'[q] = "rsleep" => pc[q] = "rsleep" /\ q \notin S
    /\ pc'[q] \in Reading => pc[q] \in Reading
    /\ pc'[q] = "copyout" <=> pc[q] = "copyout"
    /\ pc'[q] \in Passing <=> pc[q] \in Passing

LEMMA MovesAlone ==
  ASSUME Types, NEW p \in Proc, NEW to, pc' = [pc EXCEPT ![p] = to]
  PROVE  pc'[p] = to /\ Aside(p, {}) /\ \A q \in Proc \ {p} : pc'[q] = pc[q]
<1>1. pc'[p] = to /\ \A q \in Proc \ {p} : pc'[q] = pc[q]
  BY DEF Types
<1> QED BY <1>1 DEF Aside

LEMMA Stirs ==
  ASSUME Types, NEW p \in Proc, NEW to \in Elsewhere, NEW S, NEW n, NEW b,
         queuerun(Woken(Moved(p, to), S), n, b)
  PROVE  pc'[p] = to /\ Aside(p, S)
<1> DEFINE pcs == Woken(Moved(p, to), S)
<1>1. pcs \in [Proc -> States] /\ \A q \in Proc : Moved(p, to)[q] = IF q = p THEN to ELSE pc[q]
  <2>1. Moved(p, to) \in [Proc -> States]
    BY DEF Types, Moved, Elsewhere
  <2>2. \A q \in Proc : Moved(p, to)[q] = IF q = p THEN to ELSE pc[q]
    BY DEF Types, Moved
  <2> QED BY <2>1, <2>2, WokenMoves
<1>2. pcs[p] = to
  BY <1>1 DEF Woken, Elsewhere
<1>3. \A q \in Proc \ {p} :
        /\ pcs[q] = "rsleep" => pc[q] = "rsleep" /\ q \notin S
        /\ pcs[q] \in Reading => pc[q] \in Reading
        /\ pcs[q] = "copyout" <=> pc[q] = "copyout"
        /\ pcs[q] \in Passing <=> pc[q] \in Passing
  BY <1>1 DEF Woken, Reading, Passing
<1> HIDE DEF pcs
<1>4. pc' = pcs \/ \E T : pc' = Woken(pcs, T)
  BY DEF queuerun, pcs
<1>5. /\ pc'[p] = pcs[p]
      /\ \A q \in Proc \ {p} :
           /\ pc'[q] = "rsleep" => pcs[q] = "rsleep"
           /\ pc'[q] \in Reading => pcs[q] \in Reading
           /\ pc'[q] = "copyout" <=> pcs[q] = "copyout"
           /\ pc'[q] \in Passing <=> pcs[q] \in Passing
  <2>1. CASE pc' = pcs
    BY <2>1
  <2>2. CASE \E T : pc' = Woken(pcs, T)
    <3>1. PICK T : pc' = Woken(pcs, T)
      BY <2>2
    <3>2. pc'[p] = pcs[p]
      BY <1>2, <3>1 DEF Woken, Elsewhere
    <3>3. ASSUME NEW q \in Proc
          PROVE  /\ pc'[q] = "rsleep" => pcs[q] = "rsleep"
                 /\ pc'[q] \in Reading => pcs[q] \in Reading
                 /\ pc'[q] = "copyout" <=> pcs[q] = "copyout"
                 /\ pc'[q] \in Passing <=> pcs[q] \in Passing
      BY <3>1 DEF Woken, Reading, Passing
    <3> QED BY <3>2, <3>3
  <2> QED BY <1>4, <2>1, <2>2
<1>6. pc'[p] = to
  BY <1>2, <1>5
<1> QED BY <1>3, <1>5, <1>6 DEF Aside

(* No reader at an end but p holds a message. *)
LEMMA TakenByOne ==
  ASSUME OneReader, NEW p \in Proc, IsReader(p), NEW pcs, OnlyReaders(pcs)
  PROVE  Taken(Home(p), pcs) = IF pcs[p] = "copyout" THEN {p} ELSE {}
  BY DEF OneReader, OnlyReaders, Taken, At, Reading

LEMMA StreamedBy ==
  ASSUME OneReader, NEW p \in Proc, IsReader(p), NEW pcs, OnlyReaders(pcs),
         NEW mps, NEW q
  PROVE  Streamed(Home(p), pcs, mps, q)
           = IF pcs[p] = "copyout" THEN <<mps[p]>> \o q[Home(p)] ELSE q[Home(p)]
<1>1. Taken(Home(p), pcs) = IF pcs[p] = "copyout" THEN {p} ELSE {}
  BY TakenByOne
<1>2. (CHOOSE x \in {p} : TRUE) = p
  OBVIOUS
<1> QED BY <1>1, <1>2 DEF Streamed

(* An end at which nothing changes. *)
LEMMA OtherEnd ==
  ASSUME InOrder, NEW x \in End,
         \A y \in At(x) : /\ pc'[y] = "copyout" <=> pc[y] = "copyout"
                          /\ pc[y] = "copyout" => mp'[y] = mp[y],
         rdq'[x] = rdq[x], sent'[x] = sent[x],
         state'[x] # "STRERR" => state[x] # "STRERR"
  PROVE  state'[x] # "STRERR" => Chain(Streamed(x, pc', mp', rdq'), sent'[x])
<1>1. Taken(x, pc') = Taken(x, pc)
  BY DEF Taken
<1>2. Taken(x, pc) # {} => mp'[CHOOSE p \in Taken(x, pc) : TRUE]
                             = mp[CHOOSE p \in Taken(x, pc) : TRUE]
  <2> SUFFICES ASSUME Taken(x, pc) # {}
               PROVE  mp'[CHOOSE p \in Taken(x, pc) : TRUE]
                        = mp[CHOOSE p \in Taken(x, pc) : TRUE]
    OBVIOUS
  <2>1. (CHOOSE p \in Taken(x, pc) : TRUE) \in Taken(x, pc)
    OBVIOUS
  <2> QED BY <2>1 DEF Taken
<1>3. Streamed(x, pc', mp', rdq') = Streamed(x, pc, mp, rdq)
  BY <1>1, <1>2 DEF Streamed
<1> QED BY <1>3 DEF InOrder

-----------------------------------------------------------------------------
(* Counting what the high water mark has to account for. *)

Takes(at) == IF at = "copyout" THEN 1 ELSE 0
Passes(at) == IF at \in Passing THEN 1 ELSE 0

LEMMA Counts2 ==
  ASSUME NEW e \in End, NEW pcs
  PROVE  /\ Cardinality(Taken(e, pcs)) \in Nat /\ Cardinality(Passed(e, pcs)) \in Nat
         /\ Cardinality(At(e)) \in Nat
         /\ Cardinality(Passed(e, pcs)) <= Cardinality(At(e))
<1>1. /\ Taken(e, pcs) \in SUBSET Proc /\ Passed(e, pcs) \in SUBSET Proc
      /\ At(e) \in SUBSET Proc /\ Passed(e, pcs) \in SUBSET At(e)
  BY DEF Taken, Passed, At
<1> QED BY <1>1, FiniteProc

LEMMA CountsChange ==
  ASSUME NEW p \in Proc, NEW S, Aside(p, S)
  PROVE  /\ Cardinality(Taken(Home(p), pc')) + Takes(pc[p])
              = Cardinality(Taken(Home(p), pc)) + Takes(pc'[p])
         /\ Cardinality(Passed(Home(p), pc')) + Passes(pc[p])
              = Cardinality(Passed(Home(p), pc)) + Passes(pc'[p])
         /\ Taken(Other(Home(p)), pc') = Taken(Other(Home(p)), pc)
         /\ Passed(Other(Home(p)), pc') = Passed(Other(Home(p)), pc)
<1> DEFINE e == Home(p)
<1>1. p \in At(e) /\ p \notin At(Other(e))
  BY Homes, Ends DEF At
<1>2. /\ \A x \in Proc \ {p} : x \in Taken(e, pc) <=> x \in Taken(e, pc')
      /\ \A x \in Proc \ {p} : x \in Passed(e, pc) <=> x \in Passed(e, pc')
  BY DEF Aside, Taken, Passed, At
<1>3. /\ Taken(e, pc) \in SUBSET Proc /\ Taken(e, pc') \in SUBSET Proc
      /\ Passed(e, pc) \in SUBSET Proc /\ Passed(e, pc') \in SUBSET Proc
  BY DEF Taken, Passed, At
<1>4. Cardinality(Taken(e, pc')) + (IF p \in Taken(e, pc) THEN 1 ELSE 0)
        = Cardinality(Taken(e, pc)) + (IF p \in Taken(e, pc') THEN 1 ELSE 0)
  BY <1>2, <1>3, OneApart
<1>5. Cardinality(Passed(e, pc')) + (IF p \in Passed(e, pc) THEN 1 ELSE 0)
        = Cardinality(Passed(e, pc)) + (IF p \in Passed(e, pc') THEN 1 ELSE 0)
  BY <1>2, <1>3, OneApart
<1>6. /\ p \in Taken(e, pc) <=> pc[p] = "copyout"
      /\ p \in Taken(e, pc') <=> pc'[p] = "copyout"
      /\ p \in Passed(e, pc) <=> pc[p] \in Passing
      /\ p \in Passed(e, pc') <=> pc'[p] \in Passing
  BY <1>1 DEF Taken, Passed
<1>7. Taken(Other(e), pc') = Taken(Other(e), pc)
  BY <1>1 DEF Aside, Taken, At
<1>8. Passed(Other(e), pc') = Passed(Other(e), pc)
  BY <1>1 DEF Aside, Passed, At
<1> QED BY <1>4, <1>5, <1>6, <1>7, <1>8 DEF Takes, Passes

(* A step of p that adds to the load of no end. *)
LEMMA BoundedStep ==
  ASSUME IInv, IInv', Bounded, NEW p \in Proc, NEW S, Aside(p, S),
         Len(rdq'[Home(p)]) + Takes(pc'[p]) <= Len(rdq[Home(p)]) + Takes(pc[p]),
         Len(rdq'[Other(Home(p))]) + Passes(pc'[p])
           <= Len(rdq[Other(Home(p))]) + Passes(pc[p])
  PROVE  Bounded'
<1> DEFINE e == Home(p)
           d == Other(e)
<1>1. e \in End /\ d \in End /\ Other(d) = e /\ \A x \in End : x = e \/ x = d
  BY Homes, Ends
<1>2. \A x \in End : Len(rdq[x]) \in Nat /\ Len(rdq'[x]) \in Nat
  BY DEF IInv, Types
<1>3. /\ Cardinality(Taken(e, pc')) + Takes(pc[p]) = Cardinality(Taken(e, pc)) + Takes(pc'[p])
      /\ Cardinality(Passed(e, pc')) + Passes(pc[p]) = Cardinality(Passed(e, pc)) + Passes(pc'[p])
      /\ Taken(d, pc') = Taken(d, pc) /\ Passed(d, pc') = Passed(d, pc)
  BY CountsChange
<1>4. /\ Takes(pc[p]) \in Nat /\ Takes(pc'[p]) \in Nat
      /\ Passes(pc[p]) \in Nat /\ Passes(pc'[p]) \in Nat /\ hiwat \in Nat
  BY Marks DEF Takes, Passes
<1>5. Load(e, pc', rdq') <= hiwat + Cardinality(At(d))
  <2>1. PICK l0 \in Nat, l1 \in Nat, t0 \in Nat, t1 \in Nat :
          l0 = Len(rdq[e]) /\ l1 = Len(rdq'[e]) /\ t0 = Takes(pc[p]) /\ t1 = Takes(pc'[p])
    BY <1>1, <1>2, <1>4
  <2>2. PICK c0 \in Nat, c1 \in Nat, w \in Nat, n \in Nat, h \in Nat :
          /\ c0 = Cardinality(Taken(e, pc)) /\ c1 = Cardinality(Taken(e, pc'))
          /\ w = Cardinality(Passed(d, pc)) /\ n = Cardinality(At(d)) /\ h = hiwat
    BY <1>1, <1>4, Counts2
  <2>3. l1 + t1 <= l0 + t0 /\ c1 + t0 = c0 + t1
    BY <1>3, <2>1, <2>2
  <2>4. l0 + c0 + w <= h + n
    BY <1>1, <2>1, <2>2 DEF Bounded, Load
  <2>5. l1 + c1 + w <= h + n
    BY <2>3, <2>4
  <2>6. Load(e, pc', rdq') = l1 + c1 + w
    BY <1>3, <2>1, <2>2 DEF Load
  <2> QED BY <2>2, <2>5, <2>6
<1>6. Load(d, pc', rdq') <= hiwat + Cardinality(At(e))
  <2>1. PICK l0 \in Nat, l1 \in Nat, t0 \in Nat, t1 \in Nat :
          l0 = Len(rdq[d]) /\ l1 = Len(rdq'[d]) /\ t0 = Passes(pc[p]) /\ t1 = Passes(pc'[p])
    BY <1>1, <1>2, <1>4
  <2>2. PICK c0 \in Nat, c1 \in Nat, w \in Nat, n \in Nat, h \in Nat :
          /\ c0 = Cardinality(Passed(e, pc)) /\ c1 = Cardinality(Passed(e, pc'))
          /\ w = Cardinality(Taken(d, pc)) /\ n = Cardinality(At(e)) /\ h = hiwat
    BY <1>1, <1>4, Counts2
  <2>3. l1 + t1 <= l0 + t0 /\ c1 + t0 = c0 + t1
    BY <1>3, <2>1, <2>2
  <2>4. l0 + w + c0 <= h + n
    BY <1>1, <2>1, <2>2 DEF Bounded, Load
  <2>5. l1 + w + c1 <= h + n
    BY <2>3, <2>4
  <2>6. Load(d, pc', rdq') = l1 + w + c1
    BY <1>1, <1>3, <2>1, <2>2 DEF Load
  <2> QED BY <2>2, <2>5, <2>6
<1> QED BY <1>1, <1>5, <1>6 DEF Bounded

(* A writer is let through: the queue is below its high water mark, and    *)
(* its reader may put back one message.                                    *)
LEMMA BoundedEntry ==
  ASSUME OneReader, IInv, FullExact, OnlyReaders(pc), Bounded, NEW p \in Proc,
         Aside(p, {}), Other(Home(p)) \notin qfull, rdq' = rdq,
         pc[p] # "copyout", pc'[p] # "copyout"
  PROVE  Bounded'
<1> DEFINE e == Home(p)
           d == Other(e)
<1>1. e \in End /\ d \in End /\ Other(d) = e /\ \A x \in End : x = e \/ x = d
  BY Homes, Ends
<1>2. \A x \in End : Len(rdq[x]) \in Nat
  BY DEF IInv, Types
<1>3. /\ Cardinality(Taken(e, pc')) + Takes(pc[p]) = Cardinality(Taken(e, pc)) + Takes(pc'[p])
      /\ Taken(d, pc') = Taken(d, pc) /\ Passed(d, pc') = Passed(d, pc)
  BY CountsChange
<1>4. Takes(pc[p]) = 0 /\ Takes(pc'[p]) = 0
  BY DEF Takes
<1>5. Cardinality(Taken(e, pc')) = Cardinality(Taken(e, pc))
  <2>0. Cardinality(Taken(e, pc)) \in Nat /\ Cardinality(Taken(e, pc')) \in Nat
    BY <1>1, Counts2
  <2>1. PICK a \in Nat, b \in Nat :
          a = Cardinality(Taken(e, pc)) /\ b = Cardinality(Taken(e, pc'))
    BY <2>0
  <2>2. b + 0 = a + 0
    BY <1>3, <1>4, <2>1
  <2>3. \A x, y \in Nat : x + 0 = y + 0 => x = y
    OBVIOUS
  <2> QED BY <2>1, <2>2, <2>3
<1>6. Load(e, pc', rdq') <= hiwat + Cardinality(At(d))
  BY <1>1, <1>3, <1>5 DEF Bounded, Load
<1>7. Cardinality(Taken(d, pc)) <= 1
  <2>1. \A x, y \in Taken(d, pc) : x = y
    BY DEF OneReader, OnlyReaders, Taken, At, Reading
  <2>2. Taken(d, pc) = {} \/ \E x : Taken(d, pc) = {x}
    BY <2>1
  <2>3. Cardinality({}) = 0 /\ \A x : Cardinality({x}) = 1
    BY FS_EmptySet, FS_Singleton
  <2>4. Cardinality(Taken(d, pc)) = 0 \/ Cardinality(Taken(d, pc)) = 1
    BY <2>2, <2>3
  <2> QED BY <2>4
<1>8. Len(rdq[d]) < hiwat
  <2>1. ~(Len(rdq[d]) >= hiwat)
    BY <1>1 DEF FullExact
  <2>2. PICK l \in Nat, h \in Nat : l = Len(rdq[d]) /\ h = hiwat
    BY <1>1, <1>2, Marks
  <2>3. l < h
    BY <2>1, <2>2
  <2> QED BY <2>2, <2>3
<1>9. Load(d, pc', rdq') <= hiwat + Cardinality(At(e))
  <2>1. PICK l \in Nat, t \in Nat, c \in Nat, n \in Nat, h \in Nat :
          /\ l = Len(rdq[d]) /\ t = Cardinality(Taken(d, pc)) /\ h = hiwat
          /\ c = Cardinality(Passed(e, pc')) /\ n = Cardinality(At(e))
    <3>1. /\ Len(rdq[d]) \in Nat /\ hiwat \in Nat
          /\ Cardinality(Taken(d, pc)) \in Nat /\ Cardinality(At(e)) \in Nat
      BY <1>1, <1>2, Counts2, Marks
    <3>2. Cardinality(Passed(e, pc')) \in Nat
      BY <1>1, Counts2
    <3> QED BY <3>1, <3>2
  <2>2. l < h /\ t <= 1 /\ c <= n
    BY <1>1, <1>7, <1>8, <2>1, Counts2
  <2>3. l + t + c <= h + n
    BY <2>2
  <2>4. Load(d, pc', rdq') = l + t + c
    BY <1>1, <1>3, <2>1 DEF Load
  <2> QED BY <2>1, <2>3, <2>4
<1> QED BY <1>1, <1>6, <1>9 DEF Bounded

-----------------------------------------------------------------------------
(* Parts of actions. *)

(* What a reader that sleeps at x relies on. *)
Quiet(x) == x \in rsleep /\ rdq[x] = <<>> /\ state[x] = "ok"

LEMMA CallsKept ==
  ASSUME OnlyReaders(pc), NEW p \in Proc, NEW S, Aside(p, S),
         pc'[p] \in Reading => IsReader(p),
         pc'[p] = "rsleep" => Quiet(Home(p))',
         \A w \in Proc \ {p} : pc[w] = "rsleep" /\ w \notin S => Quiet(Home(w))'
  PROVE  OnlyReaders(pc)' /\ ReadersAreCalled'
<1>1. ASSUME NEW w \in Proc, pc'[w] \in Reading PROVE IsReader(w)
  BY <1>1 DEF OnlyReaders, Aside
<1>2. ASSUME NEW w \in Proc, pc'[w] = "rsleep" PROVE Quiet(Home(w))'
  BY <1>2 DEF Aside
<1> QED BY <1>1, <1>2 DEF OnlyReaders, ReadersAreCalled, Quiet

(* Of two readers that are in a call, neither is at the end of the other. *)
LEMMA Apart ==
  ASSUME OneReader, OnlyReaders(pc), NEW p \in Proc, IsReader(p),
         NEW w \in Proc \ {p}, pc[w] \in Reading
  PROVE  Home(w) = Other(Home(p)) /\ Home(w) # Home(p)
<1>1. IsReader(w)
  BY DEF OnlyReaders
<1>2. Home(w) # Home(p)
  BY <1>1 DEF OneReader
<1> QED BY <1>2, Homes, Ends

LEMMA ClosedKept ==
  ASSUME ClosedIsEmpty, \A x \in End : fds'[x] = {} => fds[x] = {} /\ rdq'[x] = rdq[x]
  PROVE  ClosedIsEmpty'
  BY DEF ClosedIsEmpty

(* p takes nothing off a queue, and has taken nothing. *)
LEMMA OrderKept ==
  ASSUME InOrder, NEW p \in Proc, NEW S, Aside(p, S), NEW x \in End,
         pc[p] # "copyout", pc'[p] # "copyout",
         rdq'[x] = rdq[x], sent'[x] = sent[x], mp' = mp,
         state'[x] # "STRERR" => state[x] # "STRERR"
  PROVE  state'[x] # "STRERR" => Chain(Streamed(x, pc', mp', rdq'), sent'[x])
<1>1. \A y \in At(x) : /\ pc'[y] = "copyout" <=> pc[y] = "copyout"
                       /\ pc[y] = "copyout" => mp'[y] = mp[y]
  BY DEF Aside, At
<1> QED BY <1>1, OtherEnd

(* A step of one process that touches no queue, no head and no message. *)
LEMMA Untouched ==
  ASSUME IInv, IInv', DataInv, NEW p \in Proc, Aside(p, {}),
         pc[p] # "copyout", pc'[p] \notin Reading,
         UNCHANGED <<rdq, rsleep, state, fds, mp, sent>>
  PROVE  /\ CallInv' /\ InOrder'
         /\ (pc'[p] \in Passing => pc[p] \in Passing) => DataInv'
<1>1. OnlyReaders(pc)' /\ ReadersAreCalled'
  <2>1. \A w \in Proc \ {p} : pc[w] = "rsleep" => Quiet(Home(w))'
    BY DEF DataInv, CallInv, ReadersAreCalled, Quiet
  <2>2. pc'[p] # "rsleep"
    BY DEF Reading
  <2> QED BY <2>1, <2>2, CallsKept DEF DataInv, CallInv
<1>2. ClosedIsEmpty'
  BY ClosedKept DEF DataInv, CallInv
<1>3. pc'[p] # "copyout"
  BY DEF Reading
<1>4. InOrder'
  <2>1. ASSUME NEW x \in End, state'[x] # "STRERR"
        PROVE  Chain(Streamed(x, pc', mp', rdq'), sent'[x])
    BY <1>3, <2>1, OrderKept DEF DataInv
  <2> QED BY <2>1 DEF InOrder
<1>5. ASSUME pc'[p] \in Passing => pc[p] \in Passing PROVE Bounded'
  <2>1. Takes(pc'[p]) = 0 /\ Takes(pc[p]) = 0
    BY <1>3 DEF Takes
  <2>2. Passes(pc'[p]) <= Passes(pc[p]) /\ Passes(pc[p]) \in Nat /\ Passes(pc'[p]) \in Nat
    BY <1>5 DEF Passes
  <2>3. \A x \in End : Len(rdq[x]) \in Nat
    BY DEF IInv, Types
  <2>4. Home(p) \in End /\ Other(Home(p)) \in End
    BY Homes, Ends
  <2>5. /\ Len(rdq'[Home(p)]) + Takes(pc'[p]) <= Len(rdq[Home(p)]) + Takes(pc[p])
        /\ Len(rdq'[Other(Home(p))]) + Passes(pc'[p])
             <= Len(rdq[Other(Home(p))]) + Passes(pc[p])
    <3>1. PICK a \in Nat, b \in Nat, s \in Nat, t \in Nat :
            /\ a = Len(rdq[Home(p)]) /\ b = Len(rdq[Other(Home(p))])
            /\ s = Passes(pc'[p]) /\ t = Passes(pc[p])
      BY <2>2, <2>3, <2>4
    <3>2. s <= t
      BY <2>2, <3>1
    <3>3. a + 0 <= a + 0 /\ b + s <= b + t
      BY <3>2
    <3> QED BY <2>1, <3>1, <3>3
  <2> QED BY <2>5, BoundedStep DEF DataInv
<1> QED BY <1>1, <1>2, <1>4, <1>5 DEF DataInv, CallInv

-----------------------------------------------------------------------------
(* The writers. *)

LEMMA CanputData ==
  ASSUME OneReader, Ground, IInv', NEW p \in Proc, pc[p] \in {"user", "wwoken"},
         NEW list, canput(p, pc, list), UNCHANGED <<rdq, rsleep, state, fds, mp, sent>>
  PROVE  DataInv'
<1>1. PICK to \in {"wsleep", "copyin", "bsleep", "user"} :
        /\ pc' = [pc EXCEPT ![p] = to]
        /\ to \in Passing => Other(Home(p)) \notin qfull
  <2>1. CASE Other(Home(p)) \in qfull
    BY <2>1 DEF canput, Passing
  <2>2. CASE Other(Home(p)) \notin qfull
    BY <2>2 DEF canput, allocb
  <2> QED BY <2>1, <2>2
<1>2. pc'[p] = to /\ Aside(p, {})
  BY <1>1, MovesAlone DEF Ground, IInv
<1>3. pc[p] # "copyout" /\ pc'[p] \notin Reading /\ pc'[p] # "copyout"
  BY <1>2 DEF Reading
<1>4. CASE to \notin Passing
  BY <1>2, <1>3, <1>4, Untouched DEF Ground
<1>5. CASE to \in Passing
  <2>1. CallInv' /\ InOrder'
    BY <1>2, <1>3, Untouched DEF Ground
  <2>2. Bounded'
    BY <1>1, <1>2, <1>3, <1>5, BoundedEntry DEF Ground, BlockInv, DataInv, CallInv
  <2> QED BY <2>1, <2>2 DEF DataInv
<1> QED BY <1>4, <1>5

LEMMA WriteData ==
  ASSUME OneReader, Ground, IInv', NEW p \in Proc, NEW n, strwrite(p, n)
  PROVE  DataInv'
  BY CanputData DEF strwrite

(* A process that returns from the middle of its call. *)
LEMMA ReturnData ==
  ASSUME Ground, IInv', NEW p \in Proc, pc[p] # "copyout", pc' = Moved(p, "user"),
         UNCHANGED <<rdq, rsleep, state, fds, mp, sent>>
  PROVE  DataInv'
<1>1. pc'[p] = "user" /\ Aside(p, {})
  BY MovesAlone DEF Ground, IInv, Moved
<1>2. pc'[p] \notin Reading /\ pc'[p] \notin Passing
  BY <1>1 DEF Reading, Passing
<1> QED BY <1>1, <1>2, Untouched DEF Ground

LEMMA WriterRunsData ==
  ASSUME OneReader, Ground, IInv', NEW p \in Proc, WriterRuns(p)
  PROVE  DataInv'
<1>1. CASE state[Home(p)] = "ok"
  BY <1>1, CanputData DEF WriterRuns
<1>2. CASE state[Home(p)] # "ok"
  BY <1>2, ReturnData DEF WriterRuns
<1> QED BY <1>1, <1>2

LEMMA BufferWaiterData ==
  ASSUME Ground, IInv', NEW p \in Proc, BufferWaiterRuns(p)
  PROVE  DataInv'
<1>1. PICK to \in {"copyin", "bsleep", "user"} : pc' = [pc EXCEPT ![p] = to]
  BY DEF BufferWaiterRuns, allocb
<1>2. pc'[p] = to /\ Aside(p, {})
  BY <1>1, MovesAlone DEF Ground, IInv
<1>3. pc[p] # "copyout" /\ pc'[p] \notin Reading /\ pc[p] \in Passing
  BY <1>2 DEF BufferWaiterRuns, Reading, Passing
<1>4. UNCHANGED <<rdq, rsleep, state, fds, mp, sent>>
  BY DEF BufferWaiterRuns, queues, heads
<1> QED BY <1>2, <1>3, <1>4, Untouched DEF Ground

LEMMA CopyInFailsData ==
  ASSUME Ground, IInv', NEW p \in Proc, CopyInFails(p)
  PROVE  DataInv'
<1>1. UNCHANGED <<rdq, rsleep, state, fds, mp, sent>>
  BY DEF CopyInFails, queues, heads
<1> QED BY <1>1, ReturnData DEF CopyInFails

LEMMA PutData ==
  ASSUME Ground, IInv', NEW p \in Proc, Put(p)
  PROVE  DataInv'
<1> DEFINE e == Home(p)
           d == Other(e)
           m == [at |-> sent[d], len |-> count[p]]
           S == IF d \in rsleep THEN Readers(d) ELSE {}
<1>1. e \in End /\ d \in End /\ d # e /\ Other(d) = e /\ \A x \in End : x = e \/ x = d
  BY Homes, Ends
<1>2. /\ pc[p] = "copyin" /\ fds[d] # {}
      /\ rdq' = [rdq EXCEPT ![d] = Append(@, m)]
      /\ rsleep' = rsleep \ {d}
      /\ sent' = [sent EXCEPT ![d] = (@ + count[p]) % M]
      /\ queuerun(Woken(Moved(p, "user"), S), nfree, strbcflag)
      /\ UNCHANGED <<state, fds, mp>>
  BY DEF Put, strrput
<1>3. Types /\ m \in Message
  <2>1. Types
    BY DEF Ground, IInv
  <2> QED BY <1>1, <2>1, MessageParts DEF Types
<1>4. pc'[p] = "user" /\ Aside(p, S)
  <2>1. "user" \in Elsewhere
    BY DEF Elsewhere, States
  <2> QED BY <1>2, <1>3, <2>1, Stirs
<1>5. /\ rdq'[d] = Append(rdq[d], m) /\ sent'[d] = (sent[d] + count[p]) % M
      /\ \A x \in End \ {d} : rdq'[x] = rdq[x] /\ sent'[x] = sent[x]
  BY <1>1, <1>2, <1>3 DEF Types
<1>6. OnlyReaders(pc)' /\ ReadersAreCalled'
  <2>1. ASSUME NEW w \in Proc \ {p}, pc[w] = "rsleep", w \notin S
        PROVE  Quiet(Home(w))'
    <3>1. Home(w) \in rsleep /\ rdq[Home(w)] = <<>> /\ state[Home(w)] = "ok"
      BY <2>1 DEF Ground, DataInv, CallInv, ReadersAreCalled
    <3>2. Home(w) # d
      BY <2>1, <3>1 DEF Readers, At
    <3> QED BY <1>2, <1>5, <3>1, <3>2, Homes DEF Quiet
  <2> QED BY <1>4, <2>1, CallsKept DEF Reading, Ground, DataInv, CallInv
<1>7. ClosedIsEmpty'
  <2>1. \A x \in End : fds'[x] = {} => fds[x] = {} /\ rdq'[x] = rdq[x]
    BY <1>2, <1>5
  <2> QED BY <2>1, ClosedKept DEF Ground, DataInv, CallInv
<1>8. Bounded'
  <2>1. Len(rdq'[e]) = Len(rdq[e]) /\ Len(rdq[e]) \in Nat
    BY <1>1, <1>3, <1>5 DEF Types
  <2>2. Len(rdq'[d]) = Len(rdq[d]) + 1 /\ Len(rdq[d]) \in Nat
    <3>1. rdq[d] \in Seq(Message)
      BY <1>1, <1>3 DEF Types
    <3>2. \A s \in Seq(Message) : Len(s) \in Nat /\ Len(Append(s, m)) = Len(s) + 1
      OBVIOUS
    <3> QED BY <1>5, <3>1, <3>2
  <2>3. Takes(pc'[p]) = 0 /\ Takes(pc[p]) = 0 /\ Passes(pc'[p]) = 0 /\ Passes(pc[p]) = 1
    BY <1>2, <1>4 DEF Takes, Passes, Passing
  <2>4. /\ Len(rdq'[e]) + Takes(pc'[p]) <= Len(rdq[e]) + Takes(pc[p])
        /\ Len(rdq'[d]) + Passes(pc'[p]) <= Len(rdq[d]) + Passes(pc[p])
    BY <2>1, <2>2, <2>3
  <2> QED BY <1>4, <2>4, BoundedStep DEF Ground, DataInv
<1>9. InOrder'
  <2>1. ASSUME state'[e] # "STRERR" PROVE Chain(Streamed(e, pc', mp', rdq'), sent'[e])
    BY <1>1, <1>2, <1>4, <1>5, <2>1, OrderKept DEF Ground, DataInv
  <2>2. ASSUME state'[d] # "STRERR" PROVE Chain(Streamed(d, pc', mp', rdq'), sent'[d])
    <3>1. Taken(d, pc') = Taken(d, pc)
      BY <1>4, CountsChange
    <3>2. mp \in [Proc -> Message] /\ rdq[d] \in Seq(Message)
      BY <1>1, <1>3 DEF Types
    <3>3. Chain(Streamed(d, pc, mp, rdq), m.at)
      BY <1>1, <1>2, <2>2 DEF Ground, DataInv, InOrder
    <3>4. sent'[d] = (m.at + m.len) % M
      BY <1>5
    <3> HIDE DEF m, d
    <3>5. CASE Taken(d, pc) = {}
      <4>1. Chain(rdq[d], m.at)
        BY <3>3, <3>5 DEF Streamed
      <4>2. Chain(Append(rdq[d], m), (m.at + m.len) % M)
        BY <1>3, <3>2, <4>1, ChainAppend
      <4>3. Streamed(d, pc', mp', rdq') = Append(rdq[d], m)
        BY <1>5, <3>1, <3>5 DEF Streamed
      <4> QED BY <3>4, <4>2, <4>3
    <3>6. CASE Taken(d, pc) # {}
      <4>1. PICK t \in Proc : t = CHOOSE x \in Taken(d, pc) : TRUE
        <5>1. (CHOOSE x \in Taken(d, pc) : TRUE) \in Taken(d, pc)
          BY <3>6
        <5> QED BY <5>1 DEF Taken, At
      <4>2. PICK h \in Message : h = mp[t]
        BY <3>2
      <4>3. \A s \in Seq(Message) : <<h>> \o s \in Seq(Message)
                                    /\ <<h>> \o Append(s, m) = Append(<<h>> \o s, m)
        BY <1>3
      <4>4. Chain(<<h>> \o rdq[d], m.at)
        BY <3>3, <3>6, <4>1, <4>2 DEF Streamed
      <4>5. Chain(Append(<<h>> \o rdq[d], m), (m.at + m.len) % M)
        BY <1>3, <3>2, <4>3, <4>4, ChainAppend
      <4>6. Streamed(d, pc', mp', rdq') = <<h>> \o Append(rdq[d], m)
        BY <1>2, <1>5, <3>1, <3>6, <4>1, <4>2 DEF Streamed
      <4> QED BY <3>2, <3>4, <4>3, <4>5, <4>6
    <3> QED BY <3>5, <3>6
  <2> QED BY <1>1, <2>1, <2>2 DEF InOrder
<1> QED BY <1>6, <1>7, <1>8, <1>9 DEF DataInv, CallInv

LEMMA PutRefusedData ==
  ASSUME Ground, IInv', NEW p \in Proc, PutRefused(p)
  PROVE  DataInv'
<1> DEFINE e == Home(p)
           d == Other(e)
           k == Len(rdq[e]) + 1
           S == Readers(e) \cup Writers(e)
<1>1. e \in End /\ d \in End /\ d # e /\ Other(d) = e /\ \A x \in End : x = e \/ x = d
  BY Homes, Ends
<1>2. /\ pc[p] = "copyin" /\ fds[d] = {}
      /\ rdq' = [rdq EXCEPT ![e] = <<>>]
      /\ state' = [state EXCEPT ![e] = "STRERR"]
      /\ queuerun(Woken(Moved(p, "user"), S), nfree + k, strbcflag \/ freeb(k, bufcalls))
      /\ UNCHANGED <<rsleep, fds, mp, sent>>
  BY DEF PutRefused
<1>3. Types
  BY DEF Ground, IInv
<1>4. pc'[p] = "user" /\ Aside(p, S)
  <2>1. "user" \in Elsewhere
    BY DEF Elsewhere, States
  <2> QED BY <1>2, <1>3, <2>1, Stirs
<1>5. /\ rdq'[e] = <<>> /\ rdq'[d] = rdq[d]
      /\ state'[e] = "STRERR" /\ state'[d] = state[d]
  BY <1>1, <1>2, <1>3 DEF Types
<1>6. OnlyReaders(pc)' /\ ReadersAreCalled'
  <2>1. ASSUME NEW w \in Proc \ {p}, pc[w] = "rsleep", w \notin S
        PROVE  Quiet(Home(w))'
    <3>1. Home(w) # e
      BY <2>1 DEF Readers, At
    <3>2. Home(w) # d
      BY <1>2, <2>1 DEF Ground, IInv, InUse
    <3> QED BY <1>1, <3>1, <3>2, Homes
  <2> QED BY <1>4, <2>1, CallsKept DEF Reading, Ground, DataInv, CallInv
<1>7. ClosedIsEmpty'
  <2>1. fds[e] # {}
    BY <1>2 DEF Ground, IInv, InUse
  <2>2. \A x \in End : fds'[x] = {} => fds[x] = {} /\ rdq'[x] = rdq[x]
    BY <1>1, <1>2, <1>5, <2>1
  <2> QED BY <2>2, ClosedKept DEF Ground, DataInv, CallInv
<1>8. Bounded'
  <2>1. Len(rdq[e]) \in Nat /\ Len(rdq[d]) \in Nat /\ Len(rdq'[e]) = 0
        /\ Len(rdq'[d]) = Len(rdq[d])
    BY <1>1, <1>3, <1>5 DEF Types
  <2>2. Takes(pc'[p]) = 0 /\ Takes(pc[p]) = 0 /\ Passes(pc'[p]) = 0 /\ Passes(pc[p]) = 1
    BY <1>2, <1>4 DEF Takes, Passes, Passing
  <2>3. /\ Len(rdq'[e]) + Takes(pc'[p]) <= Len(rdq[e]) + Takes(pc[p])
        /\ Len(rdq'[d]) + Passes(pc'[p]) <= Len(rdq[d]) + Passes(pc[p])
    BY <2>1, <2>2
  <2> QED BY <1>4, <2>3, BoundedStep DEF Ground, DataInv
<1>9. InOrder'
  <2>1. ASSUME state'[d] # "STRERR" PROVE Chain(Streamed(d, pc', mp', rdq'), sent'[d])
    BY <1>1, <1>2, <1>4, <1>5, <2>1, OrderKept DEF Ground, DataInv
  <2> QED BY <1>1, <1>5, <2>1 DEF InOrder
<1> QED BY <1>6, <1>7, <1>8, <1>9 DEF DataInv, CallInv

-----------------------------------------------------------------------------
(* The readers. *)

LEMMA QueueChain ==
  ASSUME OneReader, Ground, NEW p \in Proc, IsReader(p), state[Home(p)] # "STRERR"
  PROVE  /\ Chain(rdq[Home(p)], sent[Home(p)])
         /\ pc[p] = "copyout" => Chain(<<mp[p]>> \o rdq[Home(p)], sent[Home(p)])
<1>1. /\ Home(p) \in End /\ OnlyReaders(pc)
      /\ rdq[Home(p)] \in Seq(Message) /\ mp[p] \in Message
  BY Homes DEF Ground, IInv, Types, DataInv, CallInv
<1>2. Chain(Streamed(Home(p), pc, mp, rdq), sent[Home(p)])
  BY <1>1 DEF Ground, DataInv, InOrder
<1>3. Streamed(Home(p), pc, mp, rdq)
        = IF pc[p] = "copyout" THEN <<mp[p]>> \o rdq[Home(p)] ELSE rdq[Home(p)]
  BY <1>1, StreamedBy
<1>4. CASE pc[p] = "copyout"
  <2>1. Chain(<<mp[p]>> \o rdq[Home(p)], sent[Home(p)])
    BY <1>2, <1>3, <1>4
  <2> QED BY <1>1, <2>1, ChainTail
<1>5. CASE pc[p] # "copyout"
  BY <1>2, <1>3, <1>5
<1> QED BY <1>4, <1>5

(* A turn of the loop of strread, or the end of it: p leaves the messages  *)
(* of q on its queue.                                                      *)
LEMMA TurnData ==
  ASSUME OneReader, Ground, IInv', NEW p \in Proc, IsReader(p), p \in fds[Home(p)],
         NEW S, Aside(p, S), pc[p] \notin Passing, pc'[p] \in {"user", "copyout"},
         NEW q \in Seq(Message), rdq' = [rdq EXCEPT ![Home(p)] = q],
         Len(q) + Takes(pc'[p]) <= Len(rdq[Home(p)]) + Takes(pc[p]),
         \A w \in Proc \ {p} : mp'[w] = mp[w],
         state[Home(p)] # "STRERR" =>
           Chain(IF pc'[p] = "copyout" THEN <<mp'[p]>> \o q ELSE q, sent[Home(p)]),
         UNCHANGED <<rsleep, state, fds, sent>>
  PROVE  DataInv'
<1> DEFINE e == Home(p)
           d == Other(e)
<1>1. e \in End /\ d \in End /\ d # e /\ Other(d) = e /\ \A x \in End : x = e \/ x = d
  BY Homes, Ends
<1>2. Types /\ OnlyReaders(pc)
  BY DEF Ground, IInv, DataInv, CallInv
<1>3. rdq'[e] = q /\ rdq'[d] = rdq[d]
  BY <1>1, <1>2 DEF Types
<1>4. OnlyReaders(pc)' /\ ReadersAreCalled'
  <2>1. ASSUME NEW w \in Proc \ {p}, pc[w] = "rsleep", w \notin S
        PROVE  Quiet(Home(w))'
    <3>1. Home(w) = d
      BY <1>2, <2>1, Apart DEF Reading
    <3>2. Home(w) \in rsleep /\ rdq[Home(w)] = <<>> /\ state[Home(w)] = "ok"
      BY <2>1 DEF Ground, DataInv, CallInv, ReadersAreCalled
    <3> QED BY <1>3, <3>1, <3>2 DEF Quiet
  <2> QED BY <1>2, <2>1, CallsKept
<1>5. ClosedIsEmpty'
  <2>1. \A x \in End : fds'[x] = {} => fds[x] = {} /\ rdq'[x] = rdq[x]
    BY <1>1, <1>3
  <2> QED BY <2>1, ClosedKept DEF Ground, DataInv, CallInv
<1>6. Bounded'
  <2>1. Passes(pc'[p]) = 0 /\ Passes(pc[p]) = 0
    BY DEF Passes, Passing
  <2>2. Len(rdq'[d]) + Passes(pc'[p]) <= Len(rdq[d]) + Passes(pc[p])
    <3>1. Len(rdq[d]) \in Nat
      BY <1>1, <1>2 DEF Types
    <3> QED BY <1>3, <2>1, <3>1
  <2> QED BY <1>3, <2>2, BoundedStep DEF Ground, DataInv
<1>7. InOrder'
  <2>1. ASSUME state'[d] # "STRERR" PROVE Chain(Streamed(d, pc', mp', rdq'), sent'[d])
    <3>1. \A y \in At(d) : /\ pc'[y] = "copyout" <=> pc[y] = "copyout"
                           /\ pc[y] = "copyout" => mp'[y] = mp[y]
      BY <1>1 DEF Aside, At
    <3> QED BY <1>1, <1>3, <2>1, <3>1, OtherEnd DEF Ground, DataInv
  <2>2. ASSUME state'[e] # "STRERR" PROVE Chain(Streamed(e, pc', mp', rdq'), sent'[e])
    <3>1. OnlyReaders(pc')
      BY <1>4 DEF OnlyReaders
    <3>2. Taken(e, pc') = IF pc'[p] = "copyout" THEN {p} ELSE {}
      BY <3>1, TakenByOne
    <3>3. (CHOOSE x \in {p} : TRUE) = p
      OBVIOUS
    <3>4. Streamed(e, pc', mp', rdq') = IF pc'[p] = "copyout" THEN <<mp'[p]>> \o q ELSE q
      BY <1>3, <3>2, <3>3 DEF Streamed
    <3> QED BY <2>2, <3>4
  <2> QED BY <1>1, <2>1, <2>2 DEF InOrder
<1> QED BY <1>4, <1>5, <1>6, <1>7 DEF DataInv, CallInv

(* The first message of a queue and the others. *)
LEMMA HeadAndTail ==
  ASSUME NEW s \in Seq(Message), s # <<>>
  PROVE  /\ Head(s) \in Message /\ Tail(s) \in Seq(Message)
         /\ <<Head(s)>> \o Tail(s) = s
         /\ Len(s) \in Nat /\ Len(Tail(s)) \in Nat /\ Len(s) = Len(Tail(s)) + 1
  OBVIOUS

LEMMA TakeData ==
  ASSUME OneReader, Ground, IInv', NEW p \in Proc, IsReader(p), p \in fds[Home(p)],
         pc[p] \notin Passing, NEW n, NEW b, ReadTake(p, n, b),
         UNCHANGED <<state, fds, sent>>
  PROVE  DataInv'
<1> DEFINE e == Home(p)
           q == Tail(rdq[e])
<1>1. e \in End /\ Types /\ rdq[e] \in Seq(Message)
  BY Homes DEF Ground, IInv, Types
<1>2. /\ rdq[e] # <<>>
      /\ mp' = [mp EXCEPT ![p] = Head(rdq[e])]
      /\ rdq' = [rdq EXCEPT ![e] = q]
      /\ queuerun(Woken(Moved(p, "copyout"), strwsrv(e, q)), n, b)
      /\ UNCHANGED rsleep
  BY DEF ReadTake
<1>3. /\ Head(rdq[e]) \in Message /\ q \in Seq(Message)
      /\ <<Head(rdq[e])>> \o q = rdq[e]
      /\ Len(rdq[e]) \in Nat /\ Len(q) \in Nat /\ Len(rdq[e]) = Len(q) + 1
  BY <1>1, <1>2, HeadAndTail
<1>4. pc'[p] = "copyout" /\ Aside(p, strwsrv(e, q))
  <2>1. "copyout" \in Elsewhere
    BY DEF Elsewhere, States
  <2> QED BY <1>1, <1>2, <2>1, Stirs
<1>5. mp'[p] = Head(rdq[e]) /\ \A w \in Proc \ {p} : mp'[w] = mp[w]
  BY <1>1, <1>2 DEF Types
<1>6. Len(q) + Takes(pc'[p]) <= Len(rdq[e]) + Takes(pc[p])
  <2>1. Takes(pc'[p]) = 1 /\ (Takes(pc[p]) = 0 \/ Takes(pc[p]) = 1)
    BY <1>4 DEF Takes
  <2>2. PICK l \in Nat, t \in Nat : l = Len(q) /\ t = Takes(pc[p])
    BY <1>3, <2>1
  <2>3. l + 1 <= (l + 1) + t
    OBVIOUS
  <2> QED BY <1>3, <2>1, <2>2, <2>3
<1>7. state[e] # "STRERR" =>
        Chain(IF pc'[p] = "copyout" THEN <<mp'[p]>> \o q ELSE q, sent[e])
  BY <1>3, <1>4, <1>5, QueueChain
<1>8. pc'[p] \in {"user", "copyout"}
  BY <1>4
<1> QED BY <1>2, <1>3, <1>4, <1>5, <1>6, <1>7, <1>8, TurnData

LEMMA EndData ==
  ASSUME OneReader, Ground, IInv', NEW p \in Proc, IsReader(p), p \in fds[Home(p)],
         pc[p] \notin Passing, NEW rflg, rflg => pc[p] = "copyout",
         NEW n, NEW b, ReadEnd(p, rflg, n, b), UNCHANGED <<state, fds, sent>>
  PROVE  DataInv'
<1> DEFINE e == Home(p)
           q == Tail(rdq[e])
           left == IF rflg THEN putbq(Head(rdq[e]), q) ELSE q
<1>1. e \in End /\ Types /\ rdq[e] \in Seq(Message)
  BY Homes DEF Ground, IInv, Types
<1>2. /\ rdq[e] # <<>>
      /\ mp' = [mp EXCEPT ![p] = NoMsg]
      /\ rdq' = [rdq EXCEPT ![e] = left]
      /\ queuerun(Woken(Moved(p, "user"), strwsrv(e, q)), n, b)
      /\ UNCHANGED rsleep
  BY DEF ReadEnd
<1>3. /\ Head(rdq[e]) \in Message /\ q \in Seq(Message)
      /\ <<Head(rdq[e])>> \o q = rdq[e]
      /\ Len(rdq[e]) \in Nat /\ Len(q) \in Nat /\ Len(rdq[e]) = Len(q) + 1
  BY <1>1, <1>2, HeadAndTail
<1>4. pc'[p] = "user" /\ Aside(p, strwsrv(e, q))
  <2>1. "user" \in Elsewhere
    BY DEF Elsewhere, States
  <2> QED BY <1>1, <1>2, <2>1, Stirs
<1>5. \A w \in Proc \ {p} : mp'[w] = mp[w]
  BY <1>1, <1>2 DEF Types
<1>6. left = IF rflg THEN rdq[e] ELSE q
  BY <1>3 DEF putbq
<1> HIDE DEF left
<1>7. left \in Seq(Message)
  BY <1>1, <1>3, <1>6
<1>8. Len(left) + Takes(pc'[p]) <= Len(rdq[e]) + Takes(pc[p])
  <2>1. Takes(pc'[p]) = 0 /\ (Takes(pc[p]) = 0 \/ Takes(pc[p]) = 1)
    BY <1>4 DEF Takes
  <2>2. PICK l \in Nat, t \in Nat : l = Len(q) /\ t = Takes(pc[p])
    <3>1. Len(q) \in Nat
      BY <1>3
    <3>2. Takes(pc[p]) \in Nat
      BY <2>1
    <3> QED BY <3>1, <3>2
  <2>3. l + 0 <= (l + 1) + t /\ (l + 1) + 0 <= (l + 1) + t
    OBVIOUS
  <2>4. Len(left) = l \/ Len(left) = l + 1
    BY <1>3, <1>6, <2>2
  <2> QED BY <1>3, <2>1, <2>2, <2>3, <2>4
<1>9. state[e] # "STRERR" =>
        Chain(IF pc'[p] = "copyout" THEN <<mp'[p]>> \o left ELSE left, sent[e])
  <2> SUFFICES ASSUME state[e] # "STRERR" PROVE Chain(left, sent[e])
    BY <1>4
  <2>1. Chain(<<Head(rdq[e])>> \o q, sent[e])
    BY <1>3, QueueChain
  <2>2. Chain(q, sent[e])
    BY <1>3, <2>1, ChainTail
  <2> QED BY <1>3, <1>6, <2>1, <2>2
<1>10. pc'[p] \in {"user", "copyout"}
  BY <1>4
<1> QED BY <1>2, <1>4, <1>5, <1>7, <1>8, <1>9, <1>10, TurnData

LEMMA EmptyData ==
  ASSUME OneReader, Ground, IInv', NEW p \in Proc, IsReader(p), pc[p] # "copyout",
         ReadEmpty(p), UNCHANGED <<state, fds, mp, sent>>
  PROVE  DataInv'
<1> DEFINE e == Home(p)
<1>1. e \in End /\ Types /\ rdq[e] = <<>> /\ UNCHANGED rdq
  BY Homes DEF Ground, IInv, ReadEmpty, queues
<1>2. CASE state[e] # "ok"
  BY <1>1, <1>2, ReturnData DEF ReadEmpty
<1>3. CASE state[e] = "ok"
  <2>1. pc' = Moved(p, "rsleep") /\ rsleep' = rsleep \cup {e}
    BY <1>3 DEF ReadEmpty
  <2>2. pc'[p] = "rsleep" /\ Aside(p, {})
    BY <1>1, <2>1, MovesAlone DEF Moved
  <2>3. OnlyReaders(pc)' /\ ReadersAreCalled'
    <3>1. \A w \in Proc \ {p} : pc[w] = "rsleep" => Quiet(Home(w))'
      BY <1>1, <2>1 DEF Ground, DataInv, CallInv, ReadersAreCalled, Quiet
    <3>2. Quiet(e)'
      BY <1>1, <1>3, <2>1 DEF Quiet
    <3> QED BY <2>2, <3>1, <3>2, CallsKept DEF Ground, DataInv, CallInv
  <2>4. ClosedIsEmpty'
    BY <1>1, ClosedKept DEF Ground, DataInv, CallInv
  <2>5. InOrder'
    <3>1. ASSUME NEW x \in End, state'[x] # "STRERR"
          PROVE  Chain(Streamed(x, pc', mp', rdq'), sent'[x])
      <4>1. pc'[p] # "copyout"
        BY <2>2
      <4> QED BY <1>1, <2>2, <3>1, <4>1, OrderKept DEF Ground, DataInv
    <3> QED BY <3>1 DEF InOrder
  <2>6. Bounded'
    <3>1. Takes(pc'[p]) = 0 /\ Takes(pc[p]) = 0 /\ Passes(pc'[p]) = 0
          /\ (Passes(pc[p]) = 0 \/ Passes(pc[p]) = 1)
      BY <2>2 DEF Takes, Passes, Passing
    <3>2. Len(rdq[e]) \in Nat /\ Len(rdq[Other(e)]) \in Nat
      BY <1>1, Ends DEF Types
    <3>3. /\ Len(rdq'[e]) + Takes(pc'[p]) <= Len(rdq[e]) + Takes(pc[p])
          /\ Len(rdq'[Other(e)]) + Passes(pc'[p]) <= Len(rdq[Other(e)]) + Passes(pc[p])
      BY <1>1, <3>1, <3>2
    <3> QED BY <2>2, <3>3, BoundedStep DEF Ground, DataInv
  <2> QED BY <2>3, <2>4, <2>5, <2>6 DEF DataInv, CallInv
<1> QED BY <1>2, <1>3

LEMMA FirstData ==
  ASSUME OneReader, Ground, IInv', NEW p \in Proc, IsReader(p), p \in fds[Home(p)],
         pc[p] \in {"user", "rwoken"}, ReadFirst(p), UNCHANGED <<state, fds, sent>>
  PROVE  DataInv'
<1>1. pc[p] \notin Passing /\ pc[p] # "copyout"
  BY DEF Passing
<1>2. CASE ReadEmpty(p) /\ UNCHANGED <<pool, mp>>
  BY <1>1, <1>2, EmptyData
<1>3. CASE ReadTake(p, nfree, strbcflag)
  BY <1>1, <1>3, TakeData
<1>4. CASE ReadEnd(p, FALSE, nfree, strbcflag)
  BY <1>1, <1>4, EndData
<1> QED BY <1>2, <1>3, <1>4 DEF ReadFirst

LEMMA ReadData ==
  ASSUME OneReader, Ground, IInv', NEW c \in Calls, c[2] = "read", strread(c[1], c[3])
  PROVE  DataInv'
<1>1. c[1] \in Proc /\ IsReader(c[1])
  BY CallTypes DEF IsReader
<1> QED BY <1>1, FirstData DEF strread

LEMMA ReaderRunsData ==
  ASSUME OneReader, Ground, IInv', NEW p \in Proc, ReaderRuns(p)
  PROVE  DataInv'
<1>1. pc[p] = "rwoken" /\ UNCHANGED <<state, fds, sent>>
  BY DEF ReaderRuns
<1>2. IsReader(p) /\ p \in fds[Home(p)]
  BY <1>1 DEF Ground, IInv, InUse, DataInv, CallInv, OnlyReaders, Reading
<1>3. CASE state[Home(p)] = "STRERR"
  BY <1>1, <1>3, ReturnData DEF ReaderRuns, queues
<1>4. CASE state[Home(p)] # "STRERR"
  BY <1>1, <1>2, <1>4, FirstData DEF ReaderRuns
<1> QED BY <1>3, <1>4

LEMMA CopyOutFailsData ==
  ASSUME OneReader, Ground, IInv', NEW p \in Proc, CopyOutFails(p)
  PROVE  DataInv'
<1> DEFINE e == Home(p)
<1>1. /\ pc[p] = "copyout" /\ pc' = Moved(p, "user")
      /\ mp' = [mp EXCEPT ![p] = NoMsg]
      /\ UNCHANGED <<rdq, rsleep, state, fds, sent>>
  BY DEF CopyOutFails, queues, heads
<1>2. /\ e \in End /\ Types /\ rdq[e] \in Seq(Message) /\ Len(rdq[e]) \in Nat
      /\ IsReader(p) /\ p \in fds[e]
  BY <1>1, Homes DEF Ground, IInv, Types, InUse, DataInv, CallInv, OnlyReaders, Reading
<1>3. pc'[p] = "user" /\ Aside(p, {})
  BY <1>1, <1>2, MovesAlone DEF Moved
<1>4. rdq' = [rdq EXCEPT ![e] = rdq[e]] /\ \A w \in Proc \ {p} : mp'[w] = mp[w]
  BY <1>1, <1>2 DEF Types
<1>5. Len(rdq[e]) + Takes(pc'[p]) <= Len(rdq[e]) + Takes(pc[p])
  <2>1. Takes(pc'[p]) = 0 /\ Takes(pc[p]) = 1
    BY <1>1, <1>3 DEF Takes
  <2> QED BY <1>2, <2>1
<1>6. state[e] # "STRERR" =>
        Chain(IF pc'[p] = "copyout" THEN <<mp'[p]>> \o rdq[e] ELSE rdq[e], sent[e])
  BY <1>2, <1>3, QueueChain
<1>7. pc[p] \notin Passing /\ pc'[p] \in {"user", "copyout"}
  BY <1>1, <1>3 DEF Passing
<1> QED BY <1>1, <1>2, <1>3, <1>4, <1>5, <1>6, <1>7, TurnData

LEMMA CopyOutData ==
  ASSUME OneReader, Ground, IInv', NEW p \in Proc, CopyOut(p)
  PROVE  DataInv'
<1> DEFINE e == Home(p)
           m == mp[p]
           n == count[p]
           r == [at |-> (m.at + n) % M, len |-> m.len - n]
           bcflag == strbcflag \/ freeb(1, bufcalls)
<1>1. pc[p] = "copyout" /\ UNCHANGED <<state, fds, sent>>
  BY DEF CopyOut
<1>2. /\ e \in End /\ Types /\ rdq[e] \in Seq(Message) /\ Len(rdq[e]) \in Nat
      /\ IsReader(p) /\ p \in fds[e]
  BY <1>1, Homes DEF Ground, IInv, Types, InUse, DataInv, CallInv, OnlyReaders, Reading
<1>3. m \in Message /\ n \in 0 .. MaxLen
  BY <1>2 DEF Types
<1>4. pc[p] \notin Passing /\ Takes(pc[p]) = 1
  BY <1>1 DEF Passing, Takes
<1>5. state[e] # "STRERR" => Chain(rdq[e], sent[e]) /\ Chain(<<m>> \o rdq[e], sent[e])
  BY <1>1, <1>2, QueueChain
<1>6. ASSUME pc' = Moved(p, "user"), mp' = [mp EXCEPT ![p] = NoMsg], UNCHANGED rsleep,
             NEW q \in Seq(Message), rdq' = [rdq EXCEPT ![e] = q],
             Len(q) <= Len(rdq[e]) + 1, state[e] # "STRERR" => Chain(q, sent[e])
      PROVE  DataInv'
  <2>1. pc'[p] = "user" /\ Aside(p, {})
    BY <1>2, <1>6, MovesAlone DEF Moved
  <2>2. \A w \in Proc \ {p} : mp'[w] = mp[w]
    BY <1>2, <1>6 DEF Types
  <2>3. Len(q) + Takes(pc'[p]) <= Len(rdq[e]) + Takes(pc[p])
    <3>1. Takes(pc'[p]) = 0
      BY <2>1 DEF Takes
    <3>2. Len(q) \in Nat
      OBVIOUS
    <3> QED BY <1>2, <1>4, <1>6, <3>1, <3>2
  <2>4. state[e] # "STRERR" =>
          Chain(IF pc'[p] = "copyout" THEN <<mp'[p]>> \o q ELSE q, sent[e])
    BY <1>6, <2>1
  <2>5. pc'[p] \in {"user", "copyout"}
    BY <2>1
  <2> QED BY <1>1, <1>2, <1>4, <1>6, <2>1, <2>2, <2>3, <2>4, <2>5, TurnData
<1>7. CASE n < m.len
  <2>1. /\ rdq' = [rdq EXCEPT ![e] = <<r>> \o rdq[e]]
        /\ pc' = Moved(p, "user") /\ mp' = [mp EXCEPT ![p] = NoMsg] /\ UNCHANGED rsleep
    BY <1>7 DEF CopyOut, putbq
  <2>2. r \in Message
    BY <1>3, <1>7, MessageParts
  <2>3. <<r>> \o rdq[e] \in Seq(Message) /\ Len(<<r>> \o rdq[e]) <= Len(rdq[e]) + 1
    <3> HIDE DEF r
    <3>1. <<r>> \o rdq[e] \in Seq(Message) /\ Len(<<r>> \o rdq[e]) = Len(rdq[e]) + 1
      BY <1>2, <2>2, FrontFacts
    <3> QED BY <1>2, <3>1
  <2>4. state[e] # "STRERR" => Chain(<<r>> \o rdq[e], sent[e])
    BY <1>2, <1>3, <1>5, <1>7, ChainSplit
  <2> HIDE DEF r
  <2> QED BY <1>6, <2>1, <2>3, <2>4
<1>8. CASE ~(n < m.len)
  <2>1. \/ /\ pc' = Moved(p, "user") /\ mp' = [mp EXCEPT ![p] = NoMsg]
           /\ UNCHANGED <<queues, rsleep>>
        \/ ReadTake(p, nfree + 1, bcflag)
        \/ ReadEnd(p, TRUE, nfree + 1, bcflag)
    BY <1>8 DEF CopyOut
  <2>2. CASE pc' = Moved(p, "user") /\ mp' = [mp EXCEPT ![p] = NoMsg]
             /\ UNCHANGED <<queues, rsleep>>
    <3>1. rdq' = [rdq EXCEPT ![e] = rdq[e]] /\ Len(rdq[e]) <= Len(rdq[e]) + 1
      BY <1>2, <2>2 DEF Types, queues
    <3> QED BY <1>2, <1>5, <1>6, <2>2, <3>1
  <2>3. CASE ReadTake(p, nfree + 1, bcflag)
    BY <1>1, <1>2, <1>4, <2>3, TakeData
  <2>4. CASE ReadEnd(p, TRUE, nfree + 1, bcflag)
    BY <1>1, <1>2, <1>4, <2>4, EndData
  <2> QED BY <2>1, <2>2, <2>3, <2>4
<1> QED BY <1>7, <1>8

-----------------------------------------------------------------------------
(* Signals, the last close, the scheduler. *)

LEMMA InterruptedData ==
  ASSUME Ground, IInv', NEW p \in Proc, Interrupted(p)
  PROVE  DataInv'
<1> DEFINE e == Home(p)
<1>1. e \in End /\ Types /\ UNCHANGED <<rdq, state, fds, bufcalls, mp, sent>>
  BY Homes DEF Ground, IInv, Interrupted, queues, pool
<1>2. PICK from \in {"wsleep", "rsleep"} :
        /\ pc[p] \in {"wsleep", "wwoken", "rsleep", "rwoken"}
        /\ pc' = Woken(Moved(p, "user"), InterruptedCalls(p, from))
        /\ rsleep' = IF from = "rsleep" THEN rsleep \ {e} ELSE rsleep
  BY DEF Interrupted
<1> DEFINE S == InterruptedCalls(p, from)
<1>3. pc'[p] = "user" /\ Aside(p, S)
  <2>1. "user" \in Elsewhere
    BY DEF Elsewhere, States
  <2>2. queuerun(Woken(Moved(p, "user"), S), 0, FALSE)
    BY <1>1, <1>2 DEF queuerun
  <2> QED BY <1>1, <2>1, <2>2, Stirs
<1>4. OnlyReaders(pc)' /\ ReadersAreCalled'
  <2>1. ASSUME NEW w \in Proc \ {p}, pc[w] = "rsleep", w \notin S
        PROVE  Quiet(Home(w))'
    <3>1. Home(w) \in rsleep /\ rdq[Home(w)] = <<>> /\ state[Home(w)] = "ok"
      BY <2>1 DEF Ground, DataInv, CallInv, ReadersAreCalled
    <3>2. from = "rsleep" => Home(w) # e
      BY <2>1 DEF InterruptedCalls, At
    <3> QED BY <1>1, <1>2, <3>1, <3>2 DEF Quiet
  <2> QED BY <1>3, <2>1, CallsKept DEF Reading, Ground, DataInv, CallInv
<1>5. ClosedIsEmpty'
  BY <1>1, ClosedKept DEF Ground, DataInv, CallInv
<1>6. pc[p] # "copyout" /\ pc'[p] # "copyout"
  BY <1>2, <1>3
<1>7. InOrder'
  <2>1. ASSUME NEW x \in End, state'[x] # "STRERR"
        PROVE  Chain(Streamed(x, pc', mp', rdq'), sent'[x])
    BY <1>1, <1>3, <1>6, <2>1, OrderKept DEF Ground, DataInv
  <2> QED BY <2>1 DEF InOrder
<1>8. Bounded'
  <2>1. Takes(pc'[p]) = 0 /\ Takes(pc[p]) = 0 /\ Passes(pc'[p]) = 0 /\ Passes(pc[p]) = 0
    BY <1>2, <1>3, <1>6 DEF Takes, Passes, Passing
  <2>2. Len(rdq[e]) \in Nat /\ Len(rdq[Other(e)]) \in Nat
    BY <1>1, Ends DEF Types
  <2>3. /\ Len(rdq'[e]) + Takes(pc'[p]) <= Len(rdq[e]) + Takes(pc[p])
        /\ Len(rdq'[Other(e)]) + Passes(pc'[p]) <= Len(rdq[Other(e)]) + Passes(pc[p])
    BY <1>1, <2>1, <2>2
  <2> QED BY <1>3, <2>3, BoundedStep DEF Ground, DataInv
<1> QED BY <1>4, <1>5, <1>7, <1>8 DEF DataInv, CallInv

LEMMA LastCloseData ==
  ASSUME Ground, IInv', NEW p \in Proc, close(p), fds[Home(p)] = {p}
  PROVE  DataInv'
<1> DEFINE e == Home(p)
           d == Other(e)
<1>1. e \in End /\ d \in End /\ d # e /\ Other(d) = e /\ \A x \in End : x = e \/ x = d
  BY Homes, Ends
<1>2. /\ pc[p] = "user" /\ rsleep' = rsleep \ {e}
      /\ rdq' = [rdq EXCEPT ![e] = <<>>]
      /\ fds' = [fds EXCEPT ![e] = @ \ {p}]
      /\ state' = IF fds[d] # {} /\ state[d] = "ok"
                  THEN [state EXCEPT ![d] = "STRHUP"] ELSE state
      /\ pc' = IF fds[d] # {} THEN Woken(pc, M_HANGUP(d)) ELSE pc
      /\ UNCHANGED <<bufcalls, mp, sent>>
  BY DEF close
<1>3. Types /\ \A w \in Proc : Home(w) = e => pc[w] = "user"
  BY <1>2 DEF Ground, IInv, InUse
<1>4. fds[d] = {} => \A w \in Proc : pc[w] = "user"
  BY <1>1, <1>3, Homes DEF Ground, IInv, InUse
<1>5. PICK S : S = IF fds[d] # {} THEN M_HANGUP(d) ELSE {}
  OBVIOUS
<1>6. pc'[p] = "user" /\ Aside(p, S)
  <2>1. "user" \in Elsewhere
    BY DEF Elsewhere, States
  <2>2. Moved(p, "user") = pc
    BY <1>2, <1>3 DEF Types, Moved
  <2>3. Woken(pc, {}) = pc
    BY <1>3 DEF Types, Woken
  <2>4. queuerun(Woken(Moved(p, "user"), S), 0, FALSE)
    BY <1>2, <1>5, <2>2, <2>3 DEF queuerun
  <2> QED BY <1>3, <2>1, <2>4, Stirs
<1>7. /\ rdq'[e] = <<>> /\ rdq'[d] = rdq[d] /\ fds'[d] = fds[d]
      /\ \A x \in End : state'[x] # "STRERR" => state[x] # "STRERR"
  BY <1>1, <1>2, <1>3 DEF Types
<1>8. OnlyReaders(pc)' /\ ReadersAreCalled'
  <2>1. ASSUME NEW w \in Proc \ {p}, pc[w] = "rsleep", w \notin S
        PROVE  FALSE
    <3>1. Home(w) = d /\ fds[d] # {}
      BY <1>1, <1>3, <1>4, <2>1, Homes
    <3> QED BY <1>5, <2>1, <3>1 DEF M_HANGUP, Readers, At
  <2>2. pc'[p] \notin Reading /\ pc'[p] # "rsleep" /\ OnlyReaders(pc)
    BY <1>6 DEF Reading, Ground, DataInv, CallInv
  <2> QED BY <1>6, <2>1, <2>2, CallsKept
<1>9. ClosedIsEmpty'
  BY <1>1, <1>7 DEF Ground, DataInv, CallInv, ClosedIsEmpty
<1>10. Bounded'
  <2>1. Takes(pc'[p]) = 0 /\ Takes(pc[p]) = 0 /\ Passes(pc'[p]) = 0 /\ Passes(pc[p]) = 0
    BY <1>2, <1>6 DEF Takes, Passes, Passing
  <2>2. Len(rdq[e]) \in Nat /\ Len(rdq[d]) \in Nat /\ Len(rdq'[e]) = 0
        /\ Len(rdq'[d]) = Len(rdq[d])
    BY <1>1, <1>3, <1>7 DEF Types
  <2>3. /\ Len(rdq'[e]) + Takes(pc'[p]) <= Len(rdq[e]) + Takes(pc[p])
        /\ Len(rdq'[d]) + Passes(pc'[p]) <= Len(rdq[d]) + Passes(pc[p])
    BY <2>1, <2>2
  <2> QED BY <1>6, <2>3, BoundedStep DEF Ground, DataInv
<1>11. InOrder'
  <2>1. ASSUME state'[d] # "STRERR" PROVE Chain(Streamed(d, pc', mp', rdq'), sent'[d])
    BY <1>1, <1>2, <1>6, <1>7, <2>1, OrderKept DEF Ground, DataInv
  <2>2. Chain(Streamed(e, pc', mp', rdq'), sent'[e])
    <3>1. Taken(e, pc') = {}
      BY <1>3, <1>6 DEF Taken, At, Aside
    <3>2. Streamed(e, pc', mp', rdq') = <<>>
      BY <1>7, <3>1 DEF Streamed
    <3> QED BY <3>2 DEF Chain
  <2> QED BY <1>1, <2>1, <2>2 DEF InOrder
<1> QED BY <1>8, <1>9, <1>10, <1>11 DEF DataInv, CallInv

LEMMA CloseData ==
  ASSUME Ground, IInv', NEW p \in Proc, close(p)
  PROVE  DataInv'
<1>1. CASE fds[Home(p)] = {p}
  BY <1>1, LastCloseData
<1>2. CASE fds[Home(p)] # {p}
  <2>1. /\ UNCHANGED <<rdq, rsleep, state, pc, mp, sent>>
        /\ fds' = [fds EXCEPT ![Home(p)] = @ \ {p}] /\ p \in fds[Home(p)]
    BY <1>2 DEF close, queues
  <2>2. Types /\ \A x \in End : fds'[x] = {} => fds[x] = {}
    BY <1>2, <2>1, Homes DEF Ground, IInv, Types
  <2>3. ClosedIsEmpty'
    BY <2>1, <2>2, ClosedKept DEF Ground, DataInv, CallInv
  <2> QED BY <2>1, <2>3 DEF Ground, DataInv, CallInv, OnlyReaders, ReadersAreCalled,
                        Bounded, Load, InOrder, Streamed, Taken, Passed
<1> QED BY <1>1, <1>2

LEMMA OpenData ==
  ASSUME Ground, spopen
  PROVE  DataInv'
<1>1. /\ \A x \in End : fds[x] = {}
      /\ UNCHANGED <<rdq, rsleep, pc, mp, sent>>
  BY DEF spopen, queues, procVars
<1>2. \A w \in Proc : pc[w] = "user"
  BY <1>1, Homes DEF Ground, IInv, InUse
<1>3. \A x \in End : rdq[x] = <<>>
  BY <1>1 DEF Ground, DataInv, CallInv, ClosedIsEmpty
<1>4. OnlyReaders(pc)' /\ ReadersAreCalled' /\ ClosedIsEmpty'
  BY <1>1, <1>2, <1>3 DEF OnlyReaders, Reading, ReadersAreCalled, ClosedIsEmpty
<1>5. Bounded'
  BY <1>1 DEF Ground, DataInv, Bounded, Load, Taken, Passed
<1>6. InOrder'
  <2>1. \A x \in End : Streamed(x, pc', mp', rdq') = <<>>
    BY <1>1, <1>2, <1>3 DEF Streamed, Taken, At
  <2> QED BY <2>1 DEF InOrder, Chain
<1> QED BY <1>4, <1>5, <1>6 DEF DataInv, CallInv

LEMMA RunqueuesData ==
  ASSUME Ground, runqueues
  PROVE  DataInv'
<1>1. /\ strbcflag /\ queuerun(pc, nfree, TRUE)
      /\ UNCHANGED <<rdq, rsleep, state, fds, mp, sent>>
  BY DEF runqueues, queues, heads
<1>2. nfree \in Nat /\ pc \in [Proc -> States] /\ ListOf(bufcalls, pc)
  BY DEF Ground, BlockInv, Pool, IInv, Types
<1>3. \A q \in Proc : pc'[q] = pc[q] \/ (pc[q] = "bsleep" /\ pc'[q] = "bwoken")
  BY <1>1, <1>2, QueuerunServes
<1>4. \A x \in End : Taken(x, pc') = Taken(x, pc) /\ Passed(x, pc') = Passed(x, pc)
  BY <1>3 DEF Taken, Passed, Passing, At
<1>5. OnlyReaders(pc)' /\ ReadersAreCalled' /\ ClosedIsEmpty'
  BY <1>1, <1>3 DEF Ground, DataInv, CallInv, OnlyReaders, Reading, ReadersAreCalled,
                    ClosedIsEmpty
<1>6. Bounded'
  <2>1. \A x \in End : Other(x) \in End
    BY Ends
  <2> QED BY <1>1, <1>4, <2>1 DEF Ground, DataInv, Bounded, Load
<1>7. InOrder'
  <2>1. ASSUME NEW x \in End, state'[x] # "STRERR"
        PROVE  Chain(Streamed(x, pc', mp', rdq'), sent'[x])
    <3>1. \A y \in At(x) : /\ pc'[y] = "copyout" <=> pc[y] = "copyout"
                           /\ pc[y] = "copyout" => mp'[y] = mp[y]
      BY <1>1, <1>3 DEF At
    <3> QED BY <1>1, <2>1, <3>1, OtherEnd DEF Ground, DataInv
  <2> QED BY <2>1 DEF InOrder
<1> QED BY <1>5, <1>6, <1>7 DEF DataInv, CallInv

-----------------------------------------------------------------------------
(* The theorems. *)

LEMMA InitData == Init => DataInv
<1> SUFFICES ASSUME Init PROVE DataInv
  OBVIOUS
<1>1. CallInv
  BY DEF Init, CallInv, OnlyReaders, Reading, ReadersAreCalled, ClosedIsEmpty
<1>2. Bounded
  <2>1. ASSUME NEW x \in End PROVE Load(x, pc, rdq) <= hiwat + Cardinality(At(Other(x)))
    <3>1. Taken(x, pc) = {} /\ Passed(Other(x), pc) = {} /\ Len(rdq[x]) = 0
      BY DEF Init, Taken, Passed, Passing, At
    <3>2. Load(x, pc, rdq) = 0
      BY <3>1, FS_EmptySet DEF Load
    <3>3. Cardinality(At(Other(x))) \in Nat /\ hiwat \in Nat
      BY Ends, Counts2, Marks
    <3>4. \A a, b \in Nat : 0 <= a + b
      OBVIOUS
    <3> QED BY <3>2, <3>3, <3>4
  <2> QED BY <2>1 DEF Bounded
<1>3. InOrder
  <2>1. ASSUME NEW x \in End PROVE Streamed(x, pc, mp, rdq) = <<>>
    BY DEF Init, Streamed, Taken, At
  <2> QED BY <2>1 DEF InOrder, Chain
<1> QED BY <1>1, <1>2, <1>3 DEF DataInv

LEMMA NextData ==
  ASSUME OneReader, Ground, IInv', [Next]_vars
  PROVE  DataInv'
<1>1. CASE UNCHANGED vars
  BY <1>1 DEF vars, queues, heads, procVars, Ground, DataInv, CallInv, OnlyReaders,
              ReadersAreCalled, ClosedIsEmpty, Bounded, Load, InOrder, Streamed, Taken, Passed
<1>2. ASSUME NEW c \in Calls, c[2] = "write" /\ strwrite(c[1], c[3]) PROVE DataInv'
  BY <1>2, CallTypes, WriteData
<1>3. ASSUME NEW c \in Calls, c[2] = "read" /\ strread(c[1], c[3]) PROVE DataInv'
  BY <1>3, ReadData
<1>4. ASSUME NEW p \in Proc, Runs(p) PROVE DataInv'
  BY <1>4, WriterRunsData, ReaderRunsData, BufferWaiterData, PutData, PutRefusedData,
     CopyInFailsData, CopyOutData, CopyOutFailsData DEF Runs
<1>5. ASSUME NEW p \in Proc, Interrupted(p) PROVE DataInv'
  BY <1>5, InterruptedData
<1>6. ASSUME NEW p \in Proc, close(p) PROVE DataInv'
  BY <1>6, CloseData
<1>7. CASE spopen
  BY <1>7, OpenData
<1>8. CASE runqueues
  BY <1>8, RunqueuesData
<1> QED BY <1>1, <1>2, <1>3, <1>4, <1>5, <1>6, <1>7, <1>8 DEF Next

LEMMA DataHolds == ASSUME OneReader PROVE Spec => []Ground
<1>1. Init => Ground
  BY InitKeeps, InitBlocks, InitData DEF Ground
<1>2. Ground /\ [Next]_vars => Ground'
  <2>1. Ground /\ [Next]_vars => IInv' /\ BlockInv'
    BY NextKeeps, NextBlocks DEF Ground
  <2> QED BY <2>1, NextData DEF Ground
<1> QED BY <1>1, <1>2, PTL DEF Spec

(* A reader that sleeps has nothing to read, no end of file or error to    *)
(* see, and will be woken: RSLEEP is set for the next message, hang-up or  *)
(* error (strread, strwaitq, strrput), whatever signals, partial reads and *)
(* closes come between.                                                    *)
THEOREM ReaderNeverForgotten == ASSUME OneReader PROVE Spec => []ReadersAreCalled
<1>1. Ground => ReadersAreCalled
  BY DEF Ground, DataInv, CallInv
<1> QED BY <1>1, DataHolds, PTL

(* However long the writers slept between canput and putq, and whatever a  *)
(* reader puts back, a queue is never longer than its high water mark and  *)
(* one message for each process that may write to it (canput, strmakemsg). *)
THEOREM OverrunBounded == ASSUME OneReader PROVE Spec => []OverrunIsBounded
<1>1. Ground => OverrunIsBounded
  <2> SUFFICES ASSUME Ground, NEW e \in End
               PROVE  Len(rdq[e]) + Cardinality({p \in At(e) : pc[p] = "copyout"})
                        <= hiwat + Cardinality(At(Other(e)))
    BY DEF OverrunIsBounded
  <2>1. /\ Len(rdq[e]) \in Nat /\ Cardinality(Taken(e, pc)) \in Nat
        /\ Cardinality(Passed(Other(e), pc)) \in Nat /\ Cardinality(At(Other(e))) \in Nat
        /\ hiwat \in Nat
    <3>1. rdq[e] \in Seq(Message) /\ Other(e) \in End
      BY Ends DEF Ground, IInv, Types
    <3>2. /\ Cardinality(Taken(e, pc)) \in Nat
          /\ Cardinality(Passed(Other(e), pc)) \in Nat
          /\ Cardinality(At(Other(e))) \in Nat
      BY <3>1, Counts2
    <3>3. Len(rdq[e]) \in Nat
      BY <3>1
    <3> QED BY <3>2, <3>3, Marks
  <2>2. PICK l \in Nat, t \in Nat, w \in Nat, n \in Nat, h \in Nat :
          /\ l = Len(rdq[e]) /\ t = Cardinality(Taken(e, pc)) /\ h = hiwat
          /\ w = Cardinality(Passed(Other(e), pc)) /\ n = Cardinality(At(Other(e)))
    BY <2>1
  <2>3. l + t + w <= h + n
    BY <2>2 DEF Ground, DataInv, Bounded, Load
  <2>4. l + t <= h + n
    BY <2>3
  <2> QED BY <2>2, <2>4 DEF Taken
<1> QED BY <1>1, DataHolds, PTL

(* What is on a queue and in the hands of its reader is the last that was  *)
(* put there, each byte once and in order, however messages are split, put *)
(* back, taken as an end of file or lost with a failed copy (strread,      *)
(* putbq, putq).                                                           *)
THEOREM BytesComeInOrder == ASSUME OneReader PROVE Spec => []BytesInOrder
<1>1. Ground => BytesInOrder
  <2> SUFFICES ASSUME Ground, NEW e \in End, state[e] # "STRERR"
               PROVE  Chain(Streamed(e, pc, mp, rdq), sent[e])
    BY DEF BytesInOrder, Chain, Streamed, Taken
  <2> QED BY DEF Ground, DataInv, InOrder
<1> QED BY <1>1, DataHolds, PTL
=============================================================================
