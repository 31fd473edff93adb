-------------------------- MODULE StreamPipeProofs --------------------------
(***************************************************************************)
(* Proofs about StreamPipe: no writer of a stream pipe that sleeps for     *)
(* room is forgotten, whatever the water marks, the number of blocks and   *)
(* of processes, and the calls they make.                                  *)
(***************************************************************************)
EXTENDS StreamPipe, TLAPS

(* The types that the argument needs. *)
Types ==
  /\ rdq \in [End -> Seq(Message)]
  /\ state \in [End -> {"ok", "STRHUP", "STRERR"}]
  /\ fds \in [End -> SUBSET Proc]
  /\ pc \in [Proc -> States]
  /\ count \in [Proc -> 0 .. MaxLen]
  /\ mp \in [Proc -> Message]
  /\ sent \in [End -> 0 .. M - 1]

(* canput refuses only above the high water mark. *)
FullIsFull == \A e \in qfull : e \in End /\ Len(rdq[e]) >= hiwat

(* A process in a call has its end open, so that end is not closed. *)
InUse == \A p \in Proc : pc[p] # "user" => p \in fds[Home(p)]

IInv == Types /\ FullIsFull /\ InUse /\ WritersAreCalled

-----------------------------------------------------------------------------
(* The constants. *)

LEMMA Ends ==
  ASSUME NEW e \in End
  PROVE  Other(e) \in End /\ Other(e) # e /\ Other(Other(e)) = e
         /\ \A d \in End : d = e \/ d = Other(e)
<1>1. PICK a, b \in End : a # b /\ End = {a, b}
  BY ConstAssumption
<1>2. \A x \in End : Other(x) \in End /\ Other(x) # x
  <2>1. \A x \in End : \E d \in End : d # x
    BY <1>1
  <2> QED BY <2>1 DEF Other
<1> QED BY <1>1, <1>2

LEMMA Homes == \A p \in Proc : Home(p) \in End
  BY ConstAssumption

LEMMA Marks == hiwat \in Nat /\ lowat \in Nat /\ lowat < hiwat /\ MaxLen \in Nat
  BY ConstAssumption

LEMMA Modulus == M \in Nat /\ M > 0
<1>1. NBLK \in Nat /\ MaxLen \in Nat
  BY ConstAssumption
<1>2. NBLK * MaxLen \in Nat
  BY <1>1
<1> QED BY <1>2 DEF M

LEMMA CallTypes ==
  ASSUME NEW c \in Calls
  PROVE  c[1] \in Proc /\ c[3] \in 0 .. MaxLen
  BY ConstAssumption

(* The parts of a message, and what is left of one. *)
LEMMA MessageParts ==
  /\ NoMsg \in Message
  /\ \A m \in Message : m.len \in 0 .. MaxLen /\ m.at \in 0 .. M - 1
  /\ \A at \in 0 .. M - 1, len \in 0 .. MaxLen :
        [at |-> at, len |-> len] \in Message
  /\ \A m \in Message, n \in 0 .. MaxLen :
        n < m.len => [at |-> (m.at + n) % M, len |-> m.len - n] \in Message
<1>1. \A x \in Nat : x % M \in 0 .. M - 1
  BY Modulus
<1>2. MaxLen \in Nat /\ M \in Nat /\ M > 0
  BY Marks, Modulus
<1>3. NoMsg \in Message
  BY <1>2 DEF NoMsg, Message
<1>4. \A m \in Message : m.len \in 0 .. MaxLen /\ m.at \in 0 .. M - 1
  BY DEF Message
<1>5. \A at \in 0 .. M - 1, len \in 0 .. MaxLen :
        [at |-> at, len |-> len] \in Message
  BY DEF Message
<1>6. ASSUME NEW m \in Message, NEW n \in 0 .. MaxLen, n < m.len
      PROVE  [at |-> (m.at + n) % M, len |-> m.len - n] \in Message
  <2>1. m.at + n \in Nat /\ m.len - n \in 0 .. MaxLen
    BY <1>2, <1>4, <1>6
  <2> QED BY <1>1, <1>5, <2>1
<1> QED BY <1>3, <1>4, <1>5, <1>6

-----------------------------------------------------------------------------
(* Processes that move. *)

LEMMA WokenMoves ==
  ASSUME NEW pcs \in [Proc -> States], NEW S
  PROVE  /\ Woken(pcs, S) \in [Proc -> States]
         /\ \A q \in Proc :
              /\ Woken(pcs, S)[q] = "wsleep" => pcs[q] = "wsleep" /\ q \notin S
              /\ Woken(pcs, S)[q] = "user" <=> pcs[q] = "user"
  BY DEF Woken, States

LEMMA QueuerunMoves ==
  ASSUME NEW pcs \in [Proc -> States], NEW n, NEW b, queuerun(pcs, n, b)
  PROVE  /\ pc' \in [Proc -> States]
         /\ \A q \in Proc : /\ pc'[q] = "wsleep" => pcs[q] = "wsleep"
                            /\ pc'[q] = "user" <=> pcs[q] = "user"
<1>1. CASE pc' = pcs
  BY <1>1
<1>2. CASE \E S : pc' = Woken(pcs, S)
  BY <1>2, WokenMoves
<1> QED BY <1>1, <1>2 DEF queuerun

(* One process moves, others are woken, and queuerun wakes more. *)
LEMMA Moves ==
  ASSUME Types, NEW p \in Proc, NEW to \in States, NEW S, NEW n, NEW b,
         queuerun(Woken(Moved(p, to), S), n, b)
  PROVE  /\ pc' \in [Proc -> States]
         /\ \A q \in Proc \ {p} :
              /\ pc'[q] = "wsleep" => pc[q] = "wsleep" /\ q \notin S
              /\ pc'[q] # "user" => pc[q] # "user"
         /\ pc'[p] = "wsleep" => to = "wsleep"
         /\ pc'[p] = "user" <=> to = "user"
<1>1. Moved(p, to) \in [Proc -> States]
  BY DEF Types, Moved
<1>2. Woken(Moved(p, to), S) \in [Proc -> States]
  BY <1>1, WokenMoves
<1>3. \A q \in Proc \ {p} : Moved(p, to)[q] = pc[q]
  BY DEF Types, Moved
<1>4. Moved(p, to)[p] = to
  BY DEF Types, Moved
<1>5. \A q \in Proc :
        /\ Woken(Moved(p, to), S)[q] = "wsleep" => Moved(p, to)[q] = "wsleep" /\ q \notin S
        /\ Woken(Moved(p, to), S)[q] = "user" <=> Moved(p, to)[q] = "user"
  BY <1>1, WokenMoves
<1>6. /\ pc' \in [Proc -> States]
      /\ \A q \in Proc :
           /\ pc'[q] = "wsleep" => Woken(Moved(p, to), S)[q] = "wsleep"
           /\ pc'[q] = "user" <=> Woken(Moved(p, to), S)[q] = "user"
  BY <1>2, QueuerunMoves
<1> QED BY <1>3, <1>4, <1>5, <1>6

(* u_count keeps its type. *)
LEMMA CountTypes ==
  ASSUME Types, NEW p \in Proc, NEW n \in 0 .. MaxLen, count' = Counts(p, n)
  PROVE  count' \in [Proc -> 0 .. MaxLen]
  BY Marks DEF Types, Counts

LEMMA KeepsTypes ==
  ASSUME Types, NEW p \in Proc, Keeps(p)
  PROVE  count' \in [Proc -> 0 .. MaxLen]
  BY CountTypes DEF Types, Keeps

-----------------------------------------------------------------------------
(* Parts of actions. *)

(* A step that leaves queues and flags alone and puts nobody to sleep.     *)
LEMMA NobodySleeps ==
  ASSUME IInv, UNCHANGED <<qwantw, wsleep, rdq, state>>,
         \A q \in Proc : pc'[q] = "wsleep" => pc[q] = "wsleep"
  PROVE  WritersAreCalled'
  BY DEF IInv, WritersAreCalled

LEMMA CanputKeeps ==
  ASSUME IInv, NEW p \in Proc, p \in fds[Home(p)], state[Home(p)] = "ok",
         NEW list, canput(p, pc, list),
         UNCHANGED <<rdq, qfull, state, fds>>
  PROVE  /\ pc' \in [Proc -> States] /\ FullIsFull' /\ InUse'
         /\ WritersAreCalled'
<1> DEFINE e == Home(p)
<1>1. e \in End
  BY Homes
<1>2. FullIsFull'
  BY DEF IInv, FullIsFull
<1>3. \A to \in States : /\ [pc EXCEPT ![p] = to] \in [Proc -> States]
                         /\ [pc EXCEPT ![p] = to][p] = to
                         /\ \A q \in Proc \ {p} : [pc EXCEPT ![p] = to][q] = pc[q]
  BY DEF IInv, Types
<1>4. CASE Other(e) \in qfull
  <2>1. /\ qwantw' = qwantw \cup {Other(e)}
        /\ wsleep' = wsleep \cup {e}
        /\ pc' = [pc EXCEPT ![p] = "wsleep"]
    BY <1>4 DEF canput
  <2>2. Len(rdq[Other(e)]) > lowat
    <3>1. Len(rdq[Other(e)]) >= hiwat
      BY <1>4 DEF IInv, FullIsFull
    <3>2. Len(rdq[Other(e)]) \in Nat
      BY <1>1, Ends DEF IInv, Types
    <3> QED BY <3>1, <3>2, Marks
  <2>3. "wsleep" \in States
    BY DEF States
  <2>4. pc' \in [Proc -> States] /\ pc'[p] = "wsleep"
        /\ \A q \in Proc \ {p} : pc'[q] = pc[q]
    BY <1>3, <2>1, <2>3
  <2>5. InUse'
    BY <2>4 DEF IInv, InUse
  <2>6. WritersAreCalled'
    <3> SUFFICES ASSUME NEW w \in Proc, pc'[w] = "wsleep"
                 PROVE  /\ Home(w) \in wsleep' /\ state'[Home(w)] = "ok"
                        /\ Other(Home(w)) \in qwantw'
                        /\ Len(rdq'[Other(Home(w))]) > lowat
      BY DEF WritersAreCalled
    <3>1. CASE w = p
      BY <2>1, <2>2, <3>1
    <3>2. CASE w # p
      <4>1. pc[w] = "wsleep"
        BY <2>4, <3>2
      <4> QED BY <2>1, <4>1 DEF IInv, WritersAreCalled
    <3> QED BY <3>1, <3>2
  <2> QED BY <1>2, <2>4, <2>5, <2>6
<1>5. CASE Other(e) \notin qfull
  <2>1. allocb(pc, p, list) /\ UNCHANGED <<qwantw, wsleep>>
    BY <1>5 DEF canput
  <2>2. PICK to \in {"copyin", "bsleep", "user"} : pc' = [pc EXCEPT ![p] = to]
    BY <2>1 DEF allocb
  <2>3. to \in States /\ to # "wsleep"
    BY DEF States
  <2>4. pc' \in [Proc -> States] /\ pc'[p] = to
        /\ \A q \in Proc \ {p} : pc'[q] = pc[q]
    BY <1>3, <2>2, <2>3
  <2>5. InUse'
    BY <2>4 DEF IInv, InUse
  <2>6. WritersAreCalled'
    BY <2>1, <2>3, <2>4, NobodySleeps
  <2> QED BY <1>2, <2>4, <2>5, <2>6
<1> QED BY <1>4, <1>5

(* getq at an end: who sleeps at the other end is called, or the queue is  *)
(* still above its low water mark.                                         *)
LEMMA GetqKeeps ==
  ASSUME IInv, NEW p \in Proc, NEW to \in States \ {"wsleep"},
         NEW q \in Seq(Message), NEW left \in Seq(Message), Len(left) >= Len(q),
         rdq' = [rdq EXCEPT ![Home(p)] = left],
         getqFlags(Home(p), q), NEW n, NEW b,
         queuerun(Woken(Moved(p, to), strwsrv(Home(p), q)), n, b),
         p \in fds[Home(p)],
         UNCHANGED <<state, fds>>
  PROVE  pc' \in [Proc -> States] /\ InUse' /\ WritersAreCalled'
<1> DEFINE e == Home(p)
           d == Other(e)
<1>1. e \in End /\ d \in End /\ d # e /\ Other(d) = e
  BY Homes, Ends
<1>2. /\ pc' \in [Proc -> States]
      /\ \A w \in Proc \ {p} :
              /\ pc'[w] = "wsleep" => pc[w] = "wsleep" /\ w \notin strwsrv(e, q)
              /\ pc'[w] # "user" => pc[w] # "user"
      /\ pc'[p] # "wsleep"
  BY Moves DEF IInv
<1>3. InUse'
  BY <1>2 DEF IInv, InUse
<1>4. ASSUME NEW w \in Proc, pc'[w] = "wsleep"
      PROVE  /\ Home(w) \in wsleep' /\ state'[Home(w)] = "ok"
             /\ Other(Home(w)) \in qwantw'
             /\ Len(rdq'[Other(Home(w))]) > lowat
  <2>1. pc[w] = "wsleep" /\ w \notin strwsrv(e, q)
    BY <1>2, <1>4
  <2>2. /\ Home(w) \in wsleep /\ state[Home(w)] = "ok"
        /\ Other(Home(w)) \in qwantw
        /\ Len(rdq[Other(Home(w))]) > lowat
    BY <2>1 DEF IInv, WritersAreCalled
  <2>3. Home(w) = e \/ Home(w) = d
    BY <1>1, Homes, Ends
  <2>4. CASE Home(w) = d
    <3>1. w \in Writers(d)
      BY <2>1, <2>4 DEF Writers, At
    <3>2. ~getqDrains(q)
      BY <1>1, <2>1, <2>2, <2>4, <3>1 DEF strwsrv
    <3>3. UNCHANGED <<qwantw, wsleep>>
      BY <3>2 DEF getqFlags
    <3>4. rdq'[e] = left
      BY <1>1 DEF IInv, Types
    <3>5. Len(left) > lowat
      <4>1. Len(q) \in Nat /\ Len(left) \in Nat
        OBVIOUS
      <4> QED BY <3>2, <4>1, Marks DEF getqDrains
    <3> QED BY <1>1, <2>2, <2>4, <3>3, <3>4, <3>5
  <2>5. CASE Home(w) = e
    <3>1. rdq'[d] = rdq[d]
      BY <1>1 DEF IInv, Types
    <3>2. d \in qwantw' /\ e \in wsleep'
      BY <1>1, <2>2, <2>5 DEF getqFlags
    <3> QED BY <2>2, <2>5, <3>1, <3>2
  <2> QED BY <2>3, <2>4, <2>5
<1> QED BY <1>2, <1>3, <1>4 DEF WritersAreCalled

(* The turns of the loop of strread. *)
ReadKept == /\ rdq' \in [End -> Seq(Message)] /\ mp' \in [Proc -> Message]
            /\ pc' \in [Proc -> States]
            /\ FullIsFull' /\ InUse' /\ WritersAreCalled'

LEMMA Queues ==
  ASSUME Types, NEW e \in End, rdq[e] # <<>>
  PROVE  /\ Tail(rdq[e]) \in Seq(Message) /\ Head(rdq[e]) \in Message
         /\ Len(Tail(rdq[e])) \in Nat
         /\ putbq(Head(rdq[e]), Tail(rdq[e])) \in Seq(Message)
         /\ Len(putbq(Head(rdq[e]), Tail(rdq[e]))) >= Len(Tail(rdq[e]))
<1>1. rdq[e] \in Seq(Message)
  BY DEF Types
<1>2. Tail(rdq[e]) \in Seq(Message) /\ Head(rdq[e]) \in Message
  BY <1>1
<1>3. Len(Tail(rdq[e])) \in Nat
  BY <1>2
<1>4. \A m \in Message, q \in Seq(Message) :
        <<m>> \o q \in Seq(Message) /\ Len(<<m>> \o q) = Len(q) + 1
  OBVIOUS
<1> QED BY <1>2, <1>3, <1>4 DEF putbq

LEMMA TakeKeeps ==
  ASSUME IInv, NEW p \in Proc, p \in fds[Home(p)], NEW n, NEW b,
         ReadTake(p, n, b), UNCHANGED <<state, fds>>
  PROVE  ReadKept
<1> DEFINE e == Home(p)
           q == Tail(rdq[e])
<1>1. e \in End /\ Types
  BY Homes DEF IInv
<1>2. /\ rdq[e] # <<>>
      /\ mp' = [mp EXCEPT ![p] = Head(rdq[e])]
      /\ rdq' = [rdq EXCEPT ![e] = q]
      /\ qfull' = IF Len(q) < hiwat THEN qfull \ {e} ELSE qfull
      /\ getqFlags(e, q)
      /\ queuerun(Woken(Moved(p, "copyout"), strwsrv(e, q)), n, b)
  BY DEF ReadTake
<1>3. q \in Seq(Message) /\ Head(rdq[e]) \in Message /\ Len(q) \in Nat
  BY <1>1, <1>2, Queues
<1>4. "copyout" \in States \ {"wsleep"}
  BY DEF States
<1>5. Len(q) >= Len(q)
  BY <1>3
<1>6. pc' \in [Proc -> States] /\ InUse' /\ WritersAreCalled'
  BY <1>2, <1>3, <1>4, <1>5, GetqKeeps
<1>7. rdq' \in [End -> Seq(Message)] /\ mp' \in [Proc -> Message]
  BY <1>1, <1>2, <1>3 DEF Types
<1>8. FullIsFull'
  <2> SUFFICES ASSUME NEW x \in qfull'
               PROVE  x \in End /\ Len(rdq'[x]) >= hiwat
    BY DEF FullIsFull
  <2>1. x \in qfull /\ x \in End /\ Len(rdq[x]) >= hiwat
    BY <1>2 DEF IInv, FullIsFull
  <2>2. CASE x = e
    <3>1. ~(Len(q) < hiwat)
      BY <1>2, <2>2
    <3>2. rdq'[x] = q
      BY <1>1, <1>2, <2>2 DEF Types
    <3> QED BY <1>3, <2>1, <3>1, <3>2, Marks
  <2>3. CASE x # e
    BY <1>1, <1>2, <2>1, <2>3 DEF Types
  <2> QED BY <2>2, <2>3
<1> QED BY <1>6, <1>7, <1>8 DEF ReadKept

LEMMA EndKeeps ==
  ASSUME IInv, NEW p \in Proc, p \in fds[Home(p)], NEW rflg, NEW n, NEW b,
         ReadEnd(p, rflg, n, b), UNCHANGED <<state, fds>>
  PROVE  ReadKept
<1> DEFINE e == Home(p)
           q == Tail(rdq[e])
           left == IF rflg THEN putbq(Head(rdq[e]), q) ELSE q
<1>1. e \in End /\ Types
  BY Homes DEF IInv
<1>2. /\ rdq[e] # <<>>
      /\ rdq' = [rdq EXCEPT ![e] = left]
      /\ qfull' = IF putqFills(left) THEN qfull \cup {e} ELSE qfull \ {e}
      /\ getqFlags(e, q)
      /\ queuerun(Woken(Moved(p, "user"), strwsrv(e, q)), n, b)
      /\ mp' = [mp EXCEPT ![p] = NoMsg]
  BY DEF ReadEnd
<1>3. /\ q \in Seq(Message) /\ left \in Seq(Message)
      /\ Len(q) \in Nat /\ Len(left) >= Len(q)
  BY <1>1, <1>2, Queues
<1>4. "user" \in States \ {"wsleep"}
  BY DEF States
<1> HIDE DEF q, left
<1>5. pc' \in [Proc -> States] /\ InUse' /\ WritersAreCalled'
  BY <1>2, <1>3, <1>4, GetqKeeps
<1>6. rdq' \in [End -> Seq(Message)] /\ mp' \in [Proc -> Message]
  BY <1>1, <1>2, <1>3, MessageParts DEF Types
<1>7. FullIsFull'
  <2> SUFFICES ASSUME NEW x \in qfull'
               PROVE  x \in End /\ Len(rdq'[x]) >= hiwat
    BY DEF FullIsFull
  <2>1. CASE x = e
    <3>1. rdq'[x] = left
      BY <1>1, <1>2, <2>1 DEF Types
    <3> QED BY <1>1, <1>2, <2>1, <3>1 DEF putqFills
  <2>2. CASE x # e
    <3>1. x \in qfull /\ x \in End /\ Len(rdq[x]) >= hiwat
      BY <1>2, <2>2 DEF IInv, FullIsFull
    <3> QED BY <1>1, <1>2, <2>2, <3>1 DEF Types
  <2> QED BY <2>1, <2>2
<1> QED BY <1>5, <1>6, <1>7 DEF ReadKept

LEMMA FirstKeeps ==
  ASSUME IInv, NEW p \in Proc, p \in fds[Home(p)], ReadFirst(p),
         UNCHANGED <<state, fds>>
  PROVE  ReadKept
<1>1. CASE ReadEmpty(p) /\ UNCHANGED <<pool, mp>>
  <2>1. PICK to \in {"user", "rsleep"} : pc' = [pc EXCEPT ![p] = to]
    BY <1>1 DEF ReadEmpty, Moved
  <2>2. UNCHANGED <<rdq, qfull, qwantw, wsleep, mp>>
    BY <1>1 DEF ReadEmpty, queues
  <2>3. to \in States /\ to # "wsleep"
    BY DEF States
  <2>4. pc' \in [Proc -> States] /\ pc'[p] # "wsleep"
        /\ \A q \in Proc \ {p} : pc'[q] = pc[q]
    BY <2>1, <2>3 DEF IInv, Types
  <2>5. WritersAreCalled'
    BY <2>2, <2>4, NobodySleeps
  <2>6. FullIsFull' /\ InUse'
    BY <2>2, <2>4 DEF IInv, FullIsFull, InUse
  <2> QED BY <2>2, <2>4, <2>5, <2>6 DEF ReadKept, IInv, Types
<1>2. CASE ReadTake(p, nfree, strbcflag)
  BY <1>2, TakeKeeps
<1>3. CASE ReadEnd(p, FALSE, nfree, strbcflag)
  BY <1>3, EndKeeps
<1> QED BY <1>1, <1>2, <1>3 DEF ReadFirst

-----------------------------------------------------------------------------
(* The actions. *)

LEMMA InitKeeps == Init => IInv
<1> SUFFICES ASSUME Init PROVE IInv
  OBVIOUS
<1>1. "user" \in States
  BY DEF States
<1>2. \A x \in 0 .. MaxLen : x \in Nat
  BY Marks
<1>3. 0 \in 0 .. MaxLen /\ 0 \in 0 .. M - 1 /\ NoMsg \in Message
  BY Marks, Modulus, MessageParts
<1>4. rdq \in [End -> Seq(Message)] /\ fds \in [End -> SUBSET Proc]
  BY DEF Init, At
<1>5. Types
  BY <1>1, <1>3, <1>4 DEF Init, Types
<1>6. FullIsFull /\ InUse /\ WritersAreCalled
  BY DEF Init, FullIsFull, InUse, WritersAreCalled
<1> QED BY <1>5, <1>6 DEF IInv

LEMMA WriteKeeps ==
  ASSUME IInv, NEW p \in Proc, NEW n \in 0 .. MaxLen, strwrite(p, n)
  PROVE  IInv'
<1>1. pc' \in [Proc -> States] /\ FullIsFull' /\ InUse' /\ WritersAreCalled'
  BY CanputKeeps DEF strwrite
<1>2. count' \in [Proc -> 0 .. MaxLen]
  BY CountTypes DEF strwrite, IInv
<1> QED BY <1>1, <1>2 DEF strwrite, IInv, Types

LEMMA ReadKeeps ==
  ASSUME IInv, NEW p \in Proc, NEW n \in 0 .. MaxLen, strread(p, n)
  PROVE  IInv'
<1>1. ReadKept
  BY FirstKeeps DEF strread
<1>2. count' \in [Proc -> 0 .. MaxLen]
  BY CountTypes DEF strread, IInv
<1> QED BY <1>1, <1>2 DEF strread, ReadKept, IInv, Types

(* A process that returns, or goes on, and leaves the queues alone. *)
LEMMA ReturnKeeps ==
  ASSUME IInv, NEW p \in Proc, pc' = Moved(p, "user"),
         UNCHANGED <<rdq, qfull, qwantw, wsleep, state, fds>>
  PROVE  /\ pc' \in [Proc -> States]
         /\ FullIsFull' /\ InUse' /\ WritersAreCalled'
<1>1. "user" \in States
  BY DEF States
<1>2. pc' \in [Proc -> States] /\ pc'[p] = "user"
      /\ \A q \in Proc \ {p} : pc'[q] = pc[q]
  BY <1>1 DEF IInv, Types, Moved
<1>3. WritersAreCalled'
  BY <1>2, NobodySleeps
<1> QED BY <1>2, <1>3 DEF IInv, FullIsFull, InUse

LEMMA WriterRunsKeeps ==
  ASSUME IInv, NEW p \in Proc, WriterRuns(p)
  PROVE  IInv'
<1>1. count' \in [Proc -> 0 .. MaxLen]
  BY KeepsTypes DEF WriterRuns, IInv
<1>2. CASE state[Home(p)] = "ok"
  <2>1. p \in fds[Home(p)]
    BY DEF WriterRuns, IInv, InUse
  <2>2. pc' \in [Proc -> States] /\ FullIsFull' /\ InUse' /\ WritersAreCalled'
    BY <1>2, <2>1, CanputKeeps DEF WriterRuns
  <2> QED BY <1>1, <2>2 DEF WriterRuns, IInv, Types
<1>3. CASE state[Home(p)] # "ok"
  <2>1. pc' \in [Proc -> States] /\ FullIsFull' /\ InUse' /\ WritersAreCalled'
    BY <1>3, ReturnKeeps DEF WriterRuns
  <2> QED BY <1>1, <2>1 DEF WriterRuns, IInv, Types
<1> QED BY <1>2, <1>3

LEMMA ReaderRunsKeeps ==
  ASSUME IInv, NEW p \in Proc, ReaderRuns(p)
  PROVE  IInv'
<1>1. count' \in [Proc -> 0 .. MaxLen]
  BY KeepsTypes DEF ReaderRuns, IInv
<1>2. CASE state[Home(p)] = "STRERR"
  <2>1. pc' = Moved(p, "user") /\ UNCHANGED <<rdq, qfull, qwantw, wsleep, mp>>
    BY <1>2 DEF ReaderRuns, queues
  <2>2. pc' \in [Proc -> States] /\ FullIsFull' /\ InUse' /\ WritersAreCalled'
    BY <2>1, ReturnKeeps DEF ReaderRuns
  <2> QED BY <1>1, <2>1, <2>2 DEF ReaderRuns, IInv, Types
<1>3. CASE state[Home(p)] # "STRERR"
  <2>1. p \in fds[Home(p)]
    BY DEF ReaderRuns, IInv, InUse
  <2>2. ReadKept
    BY <1>3, <2>1, FirstKeeps DEF ReaderRuns
  <2> QED BY <1>1, <2>2 DEF ReaderRuns, ReadKept, IInv, Types
<1> QED BY <1>2, <1>3

LEMMA BufferWaiterRunsKeeps ==
  ASSUME IInv, NEW p \in Proc, BufferWaiterRuns(p)
  PROVE  IInv'
<1>1. count' \in [Proc -> 0 .. MaxLen]
  BY KeepsTypes DEF BufferWaiterRuns, IInv
<1>2. PICK to \in {"copyin", "bsleep", "user"} : pc' = [pc EXCEPT ![p] = to]
  BY DEF BufferWaiterRuns, allocb
<1>3. to \in States /\ to # "wsleep"
  BY DEF States
<1>4. pc' \in [Proc -> States] /\ pc'[p] = to
      /\ \A q \in Proc \ {p} : pc'[q] = pc[q]
  BY <1>2, <1>3 DEF IInv, Types
<1>5. UNCHANGED <<rdq, qfull, qwantw, wsleep, state, fds, mp, sent>>
  BY DEF BufferWaiterRuns, queues, heads
<1>6. WritersAreCalled'
  BY <1>3, <1>4, <1>5, NobodySleeps
<1>7. FullIsFull' /\ InUse'
  BY <1>4, <1>5 DEF BufferWaiterRuns, IInv, FullIsFull, InUse
<1> QED BY <1>1, <1>4, <1>5, <1>6, <1>7 DEF IInv, Types

LEMMA FailsKeeps ==
  ASSUME IInv, NEW p \in Proc, CopyInFails(p) \/ CopyOutFails(p)
  PROVE  IInv'
<1>1. count' \in [Proc -> 0 .. MaxLen]
  BY KeepsTypes DEF CopyInFails, CopyOutFails, IInv
<1>2. pc' = Moved(p, "user") /\ UNCHANGED <<rdq, qfull, qwantw, wsleep, state, fds, sent>>
  BY DEF CopyInFails, CopyOutFails, queues, heads
<1>3. pc' \in [Proc -> States] /\ FullIsFull' /\ InUse' /\ WritersAreCalled'
  BY <1>2, ReturnKeeps
<1>4. mp' \in [Proc -> Message]
  BY MessageParts DEF CopyInFails, CopyOutFails, IInv, Types
<1> QED BY <1>1, <1>2, <1>3, <1>4 DEF IInv, Types

LEMMA PutKeeps ==
  ASSUME IInv, NEW p \in Proc, Put(p)
  PROVE  IInv'
<1> DEFINE d == Other(Home(p))
           m == [at |-> sent[d], len |-> count[p]]
           S == IF d \in rsleep THEN Readers(d) ELSE {}
<1>1. d \in End /\ Types
  BY Homes, Ends DEF IInv
<1>2. m \in Message
  BY <1>1, MessageParts DEF Types
<1>3. /\ rdq' = [rdq EXCEPT ![d] = Append(@, m)]
      /\ qfull' = IF putqFills(rdq'[d]) THEN qfull \cup {d} ELSE qfull
      /\ sent' = [sent EXCEPT ![d] = (@ + count[p]) % M]
      /\ queuerun(Woken(Moved(p, "user"), S), nfree, strbcflag)
      /\ Keeps(p)
      /\ UNCHANGED <<qwantw, wsleep, state, fds, mp>>
  BY DEF Put, strrput
<1>4. "user" \in States
  BY DEF States
<1> HIDE DEF m, S
<1>5. /\ pc' \in [Proc -> States]
      /\ \A q \in Proc \ {p} : /\ pc'[q] = "wsleep" => pc[q] = "wsleep"
                               /\ pc'[q] # "user" => pc[q] # "user"
      /\ pc'[p] = "user"
  BY <1>1, <1>3, <1>4, Moves
<1>6. /\ rdq' \in [End -> Seq(Message)]
      /\ \A x \in End : /\ Len(rdq[x]) \in Nat /\ Len(rdq'[x]) \in Nat
                        /\ Len(rdq'[x]) >= Len(rdq[x])
                        /\ x # d => rdq'[x] = rdq[x]
  <2>1. \A x \in End : rdq[x] \in Seq(Message)
    BY <1>1 DEF Types
  <2>2. /\ Append(rdq[d], m) \in Seq(Message)
        /\ Len(Append(rdq[d], m)) = Len(rdq[d]) + 1
    BY <1>1, <1>2, <2>1
  <2>3. rdq'[d] = Append(rdq[d], m) /\ \A x \in End \ {d} : rdq'[x] = rdq[x]
    BY <1>1, <1>3 DEF Types
  <2>4. rdq' \in [End -> Seq(Message)]
    BY <1>1, <1>3, <2>2 DEF Types
  <2>5. \A x \in End : Len(rdq[x]) \in Nat
    BY <2>1
  <2> QED BY <1>1, <2>2, <2>3, <2>4, <2>5
<1>7. sent' \in [End -> 0 .. M - 1]
  <2>1. sent[d] \in Nat /\ count[p] \in Nat
    BY <1>1, Marks, Modulus DEF Types
  <2>2. (sent[d] + count[p]) % M \in 0 .. M - 1
    BY <2>1, Modulus
  <2> QED BY <1>1, <1>3, <2>2 DEF Types
<1>8. count' \in [Proc -> 0 .. MaxLen]
  BY <1>1, <1>3, KeepsTypes
<1>9. Types'
  BY <1>1, <1>3, <1>5, <1>6, <1>7, <1>8 DEF Types
<1>10. FullIsFull'
  <2> SUFFICES ASSUME NEW x \in qfull'
               PROVE  x \in End /\ Len(rdq'[x]) >= hiwat
    BY DEF FullIsFull
  <2>1. CASE x \in qfull
    <3>1. x \in End /\ Len(rdq[x]) >= hiwat
      BY <2>1 DEF IInv, FullIsFull
    <3> QED BY <1>6, <3>1, Marks
  <2>2. CASE x \notin qfull
    <3>1. x = d /\ putqFills(rdq'[d])
      BY <1>3, <2>2
    <3> QED BY <1>1, <3>1 DEF putqFills
  <2> QED BY <2>1, <2>2
<1>11. InUse'
  BY <1>3, <1>5 DEF IInv, InUse
<1>12. ASSUME NEW w \in Proc, pc'[w] = "wsleep"
       PROVE  /\ Home(w) \in wsleep' /\ state'[Home(w)] = "ok"
              /\ Other(Home(w)) \in qwantw'
              /\ Len(rdq'[Other(Home(w))]) > lowat
  <2>1. pc[w] = "wsleep"
    BY <1>5, <1>12
  <2>2. /\ Home(w) \in wsleep /\ state[Home(w)] = "ok"
        /\ Other(Home(w)) \in qwantw
        /\ Len(rdq[Other(Home(w))]) > lowat
    BY <2>1 DEF IInv, WritersAreCalled
  <2>3. Other(Home(w)) \in End
    BY Homes, Ends
  <2>4. Len(rdq'[Other(Home(w))]) > lowat
    BY <1>6, <2>2, <2>3, Marks
  <2> QED BY <1>3, <2>2, <2>4
<1> QED BY <1>9, <1>10, <1>11, <1>12 DEF IInv, WritersAreCalled

LEMMA PutRefusedKeeps ==
  ASSUME IInv, NEW p \in Proc, PutRefused(p)
  PROVE  IInv'
<1> DEFINE e == Home(p)
           k == Len(rdq[e]) + 1
<1>1. e \in End /\ Types
  BY Homes DEF IInv
<1>2. /\ fds[Other(e)] = {}
      /\ state' = [state EXCEPT ![e] = "STRERR"]
      /\ rdq' = [rdq EXCEPT ![e] = <<>>]
      /\ qfull' = qfull \ {e}
      /\ queuerun(Woken(Moved(p, "user"), Readers(e) \cup Writers(e)),
                  nfree + k, strbcflag \/ freeb(k, bufcalls))
      /\ Keeps(p)
      /\ UNCHANGED <<fds, mp, sent>>
  BY DEF PutRefused
<1>3. "user" \in States
  BY DEF States
<1>4. /\ pc' \in [Proc -> States]
      /\ \A q \in Proc \ {p} :
           /\ pc'[q] = "wsleep" => pc[q] = "wsleep" /\ q \notin Readers(e) \cup Writers(e)
           /\ pc'[q] # "user" => pc[q] # "user"
      /\ pc'[p] = "user"
  BY <1>1, <1>2, <1>3, Moves
<1>5. Types'
  <2>1. count' \in [Proc -> 0 .. MaxLen]
    BY <1>1, <1>2, KeepsTypes
  <2>2. <<>> \in Seq(Message)
    OBVIOUS
  <2> QED BY <1>1, <1>2, <1>4, <2>1, <2>2 DEF Types
<1>6. FullIsFull'
  BY <1>1, <1>2 DEF IInv, FullIsFull, Types
<1>7. InUse'
  BY <1>2, <1>4 DEF IInv, InUse
<1>8. \A w \in Proc : pc'[w] # "wsleep"
  <2> SUFFICES ASSUME NEW w \in Proc, pc'[w] = "wsleep" PROVE FALSE
    OBVIOUS
  <2>1. pc[w] = "wsleep" /\ w \notin Writers(e)
    BY <1>4
  <2>2. w \in fds[Home(w)]
    BY <2>1 DEF IInv, InUse
  <2>3. Home(w) = e
    BY <1>1, <1>2, <2>2, Homes, Ends
  <2> QED BY <2>1, <2>3 DEF Writers, At
<1> QED BY <1>5, <1>6, <1>7, <1>8 DEF IInv, WritersAreCalled

LEMMA CopyOutKeeps ==
  ASSUME IInv, NEW p \in Proc, CopyOut(p)
  PROVE  IInv'
<1> DEFINE e == Home(p)
           m == mp[p]
           n == count[p]
           r == [at |-> (m.at + n) % M, len |-> m.len - n]
           back == <<r>> \o rdq[e]
<1>1. e \in End /\ Types /\ p \in fds[e]
  BY Homes DEF IInv, InUse, CopyOut
<1>2. m \in Message /\ n \in 0 .. MaxLen /\ m.len \in 0 .. MaxLen
  BY <1>1, MessageParts DEF Types
<1>3. count' = Counts(p, n - m.len) /\ UNCHANGED <<state, fds, sent>>
  BY DEF CopyOut
<1>4. CASE n < m.len
  <2>1. /\ rdq' = [rdq EXCEPT ![e] = back]
        /\ qfull' = IF putqFills(rdq'[e]) THEN qfull \cup {e} ELSE qfull
        /\ pc' = Moved(p, "user")
        /\ mp' = [mp EXCEPT ![p] = NoMsg]
        /\ UNCHANGED <<qwantw, wsleep>>
    BY <1>1, <1>4 DEF CopyOut, putbq, Types
  <2>2. r \in Message
    BY <1>2, <1>4, MessageParts
  <2> HIDE DEF r
  <2>3. /\ rdq[e] \in Seq(Message) /\ back \in Seq(Message)
        /\ Len(rdq[e]) \in Nat /\ Len(back) = Len(rdq[e]) + 1
    <3>1. rdq[e] \in Seq(Message)
      BY <1>1 DEF Types
    <3>2. \A x \in Message, q \in Seq(Message) :
            /\ <<x>> \o q \in Seq(Message) /\ Len(q) \in Nat
            /\ Len(<<x>> \o q) = Len(q) + 1
      OBVIOUS
    <3> QED BY <2>2, <3>1, <3>2
  <2> HIDE DEF back
  <2>4. /\ rdq' \in [End -> Seq(Message)]
        /\ rdq'[e] = back /\ \A x \in End \ {e} : rdq'[x] = rdq[x]
    BY <1>1, <2>1, <2>3 DEF Types
  <2>5. "user" \in States
    BY DEF States
  <2>6. /\ pc' \in [Proc -> States] /\ pc'[p] = "user"
        /\ \A q \in Proc \ {p} : pc'[q] = pc[q]
    BY <1>1, <2>1, <2>5 DEF Types, Moved
  <2>7. count' \in [Proc -> 0 .. MaxLen]
    <3>1. count' = [count EXCEPT ![p] = 0]
      BY <1>3, <2>6 DEF Counts
    <3> QED BY <1>1, <3>1, Marks DEF Types
  <2>8. Types'
    BY <1>1, <1>3, <2>1, <2>4, <2>6, <2>7, MessageParts DEF Types
  <2>9. FullIsFull'
    <3> SUFFICES ASSUME NEW x \in qfull'
                 PROVE  x \in End /\ Len(rdq'[x]) >= hiwat
      BY DEF FullIsFull
    <3>1. CASE x \in qfull
      <4>1. x \in End /\ Len(rdq[x]) >= hiwat
        BY <3>1 DEF IInv, FullIsFull
      <4> QED BY <2>3, <2>4, <4>1, Marks
    <3>2. CASE x \notin qfull
      BY <1>1, <2>1, <3>2 DEF putqFills
    <3> QED BY <3>1, <3>2
  <2>10. InUse'
    BY <1>3, <2>6 DEF IInv, InUse
  <2>11. ASSUME NEW w \in Proc, pc'[w] = "wsleep"
         PROVE  /\ Home(w) \in wsleep' /\ state'[Home(w)] = "ok"
                /\ Other(Home(w)) \in qwantw'
                /\ Len(rdq'[Other(Home(w))]) > lowat
    <3>1. pc[w] = "wsleep"
      BY <2>6, <2>11
    <3>2. /\ Home(w) \in wsleep /\ state[Home(w)] = "ok"
          /\ Other(Home(w)) \in qwantw
          /\ Len(rdq[Other(Home(w))]) > lowat
      BY <3>1 DEF IInv, WritersAreCalled
    <3>3. Other(Home(w)) \in End
      BY Homes, Ends
    <3>4. Len(rdq'[Other(Home(w))]) > lowat
      BY <2>3, <2>4, <3>2, <3>3, Marks
    <3> QED BY <1>3, <2>1, <3>2, <3>4
  <2> QED BY <2>8, <2>9, <2>10, <2>11 DEF IInv, WritersAreCalled
<1>5. CASE ~(n < m.len)
  <2>1. n - m.len \in 0 .. MaxLen
    BY <1>2, <1>5, Marks
  <2>2. count' \in [Proc -> 0 .. MaxLen]
    BY <1>1, <1>3, <2>1, CountTypes
  <2>3. CASE /\ pc' = Moved(p, "user")
             /\ mp' = [mp EXCEPT ![p] = NoMsg]
             /\ UNCHANGED <<queues, rsleep, wsleep>>
    <3>1. UNCHANGED <<rdq, qfull, qwantw, wsleep>>
      BY <2>3 DEF queues
    <3>2. pc' \in [Proc -> States] /\ FullIsFull' /\ InUse' /\ WritersAreCalled'
      BY <1>3, <2>3, <3>1, ReturnKeeps
    <3> QED BY <1>1, <1>3, <2>2, <2>3, <3>1, <3>2, MessageParts DEF IInv, Types
  <2>4. CASE \E k, b : ReadTake(p, k, b)
    <3>1. ReadKept
      BY <1>1, <1>3, <2>4, TakeKeeps
    <3> QED BY <1>1, <1>3, <2>2, <3>1 DEF ReadKept, IInv, Types
  <2>5. CASE \E k, b : ReadEnd(p, TRUE, k, b)
    <3>1. ReadKept
      BY <1>1, <1>3, <2>5, EndKeeps
    <3> QED BY <1>1, <1>3, <2>2, <3>1 DEF ReadKept, IInv, Types
  <2> QED BY <1>5, <2>3, <2>4, <2>5 DEF CopyOut
<1> QED BY <1>4, <1>5

LEMMA InterruptedKeeps ==
  ASSUME IInv, NEW p \in Proc, Interrupted(p)
  PROVE  IInv'
<1> DEFINE e == Home(p)
<1>1. Types /\ UNCHANGED <<rdq, qfull, qwantw, state, fds, mp, sent>> /\ Keeps(p)
  BY DEF Interrupted, IInv, queues
<1>2. Moved(p, "user") \in [Proc -> States] /\ Moved(p, "user")[p] = "user"
      /\ \A q \in Proc \ {p} : Moved(p, "user")[q] = pc[q]
  BY <1>1 DEF Types, Moved, States
<1>3. PICK from \in {"wsleep", "rsleep"} :
        /\ pc' = Woken(Moved(p, "user"), InterruptedCalls(p, from))
        /\ wsleep' = IF from = "wsleep" THEN wsleep \ {e} ELSE wsleep
        /\ pc[p] # "user"
  BY DEF Interrupted
<1>4. /\ pc' \in [Proc -> States]
      /\ \A q \in Proc : /\ pc'[q] = "wsleep" =>
                              /\ Moved(p, "user")[q] = "wsleep"
                              /\ q \notin InterruptedCalls(p, from)
                         /\ pc'[q] = "user" <=> Moved(p, "user")[q] = "user"
  BY <1>2, <1>3, WokenMoves
<1>5. Types'
  <2>1. count' \in [Proc -> 0 .. MaxLen]
    BY <1>1, KeepsTypes
  <2> QED BY <1>1, <1>4, <2>1 DEF Types
<1>6. FullIsFull' /\ InUse'
  BY <1>1, <1>2, <1>4 DEF IInv, FullIsFull, InUse
<1>7. ASSUME NEW w \in Proc, pc'[w] = "wsleep"
      PROVE  pc[w] = "wsleep" /\ Home(w) \in wsleep'
  <2>1. w # p /\ pc[w] = "wsleep" /\ w \notin InterruptedCalls(p, from)
    BY <1>2, <1>4, <1>7
  <2>2. Home(w) \in wsleep
    BY <2>1 DEF IInv, WritersAreCalled
  <2>3. from = "wsleep" => Home(w) # e
    BY <2>1 DEF InterruptedCalls, At
  <2> QED BY <1>3, <2>1, <2>2, <2>3
<1>8. WritersAreCalled'
  BY <1>1, <1>7 DEF IInv, WritersAreCalled
<1> QED BY <1>5, <1>6, <1>8 DEF IInv

LEMMA CloseKeeps ==
  ASSUME IInv, NEW p \in Proc, close(p)
  PROVE  IInv'
<1> DEFINE e == Home(p)
           d == Other(e)
<1>1. e \in End /\ d \in End /\ d # e /\ Types
  BY Homes, Ends DEF IInv
<1>2. /\ pc[p] = "user" /\ UNCHANGED <<count, mp, sent>>
      /\ fds' = [fds EXCEPT ![e] = @ \ {p}]
  BY DEF close
<1>3. fds' \in [End -> SUBSET Proc]
      /\ \A q \in Proc \ {p}, x \in End : q \in fds[x] => q \in fds'[x]
  BY <1>1, <1>2 DEF Types
<1>4. CASE fds[e] = {p}
  <2>1. /\ rdq' = [rdq EXCEPT ![e] = <<>>]
        /\ qfull' = qfull \ {e}
        /\ state' = IF fds[d] # {} /\ state[d] = "ok"
                    THEN [state EXCEPT ![d] = "STRHUP"] ELSE state
        /\ pc' = IF fds[d] # {} THEN Woken(pc, M_HANGUP(d)) ELSE pc
    BY <1>4 DEF close
  <2>2. /\ pc' \in [Proc -> States]
        /\ \A q \in Proc :
              /\ pc'[q] = "wsleep" => /\ pc[q] = "wsleep"
                                      /\ fds[d] # {} => q \notin M_HANGUP(d)
              /\ pc'[q] = "user" <=> pc[q] = "user"
    <3>1. pc \in [Proc -> States]
      BY <1>1 DEF Types
    <3>2. CASE fds[d] # {}
      BY <2>1, <3>1, <3>2, WokenMoves
    <3>3. CASE fds[d] = {}
      BY <2>1, <3>1, <3>3
    <3> QED BY <3>2, <3>3
  <2>3. Types'
    <3>1. <<>> \in Seq(Message)
      OBVIOUS
    <3> QED BY <1>1, <1>2, <1>3, <2>1, <2>2, <3>1 DEF Types
  <2>4. FullIsFull'
    BY <1>1, <2>1 DEF IInv, FullIsFull, Types
  <2>5. InUse'
    BY <1>2, <1>3, <2>2, Homes DEF IInv, InUse
  <2>6. \A w \in Proc : pc'[w] # "wsleep"
    <3> SUFFICES ASSUME NEW w \in Proc, pc'[w] = "wsleep" PROVE FALSE
      OBVIOUS
    <3>1. pc[w] = "wsleep" /\ w # p /\ w \in fds[Home(w)]
      BY <1>2, <2>2 DEF IInv, InUse
    <3>2. Home(w) = d
      BY <1>1, <1>4, <3>1, Homes, Ends
    <3>3. w \in M_HANGUP(d)
      BY <3>1, <3>2 DEF M_HANGUP, Writers, At
    <3> QED BY <2>2, <3>1, <3>2, <3>3
  <2> QED BY <2>3, <2>4, <2>5, <2>6 DEF IInv, WritersAreCalled
<1>5. CASE fds[e] # {p}
  <2>1. UNCHANGED <<rdq, qfull, qwantw, wsleep, state, pc>>
    BY <1>5 DEF close, queues
  <2>2. Types' /\ FullIsFull'
    BY <1>1, <1>2, <1>3, <2>1 DEF IInv, Types, FullIsFull
  <2>3. InUse'
    BY <1>2, <1>3, <2>1, Homes DEF IInv, InUse
  <2>4. WritersAreCalled'
    BY <2>1, NobodySleeps
  <2> QED BY <2>2, <2>3, <2>4 DEF IInv
<1> QED BY <1>4, <1>5

LEMMA OpenKeeps ==
  ASSUME IInv, spopen
  PROVE  IInv'
<1>1. /\ \A e \in End : fds[e] = {}
      /\ state' = [e \in End |-> "ok"] /\ fds' = [e \in End |-> At(e)]
      /\ UNCHANGED <<rdq, qfull, pc, count, mp, sent>>
  BY DEF spopen, queues, procVars
<1>2. \A p \in Proc : pc[p] = "user"
  BY <1>1, Homes DEF IInv, InUse
<1>3. Types'
  BY <1>1 DEF IInv, Types, At
<1>4. FullIsFull'
  BY <1>1 DEF IInv, FullIsFull
<1> QED BY <1>1, <1>2, <1>3, <1>4 DEF IInv, InUse, WritersAreCalled

LEMMA RunqueuesKeep ==
  ASSUME IInv, runqueues
  PROVE  IInv'
<1>1. queuerun(pc, nfree, TRUE)
      /\ UNCHANGED <<rdq, qfull, qwantw, wsleep, state, fds, count, mp, sent>>
  BY DEF runqueues, queues, heads
<1>2. /\ pc' \in [Proc -> States]
      /\ \A q \in Proc : /\ pc'[q] = "wsleep" => pc[q] = "wsleep"
                         /\ pc'[q] = "user" <=> pc[q] = "user"
  BY <1>1, QueuerunMoves DEF IInv, Types
<1>3. Types' /\ FullIsFull' /\ InUse'
  BY <1>1, <1>2 DEF IInv, Types, FullIsFull, InUse
<1>4. WritersAreCalled'
  BY <1>1, <1>2, NobodySleeps
<1> QED BY <1>3, <1>4 DEF IInv

LEMMA NextKeeps ==
  ASSUME IInv, [Next]_vars
  PROVE  IInv'
<1>1. CASE UNCHANGED vars
  BY <1>1 DEF vars, queues, heads, procVars, IInv, Types, FullIsFull, InUse,
              WritersAreCalled
<1>2. ASSUME NEW c \in Calls, \/ c[2] = "write" /\ strwrite(c[1], c[3])
                              \/ c[2] = "read" /\ strread(c[1], c[3])
      PROVE  IInv'
  BY <1>2, CallTypes, WriteKeeps, ReadKeeps
<1>3. ASSUME NEW p \in Proc, Runs(p) PROVE IInv'
  BY <1>3, WriterRunsKeeps, ReaderRunsKeeps, BufferWaiterRunsKeeps, PutKeeps,
     PutRefusedKeeps, FailsKeeps, CopyOutKeeps DEF Runs
<1>4. ASSUME NEW p \in Proc, Interrupted(p) PROVE IInv'
  BY <1>4, InterruptedKeeps
<1>5. ASSUME NEW p \in Proc, close(p) PROVE IInv'
  BY <1>5, CloseKeeps
<1>6. CASE spopen
  BY <1>6, OpenKeeps
<1>7. CASE runqueues
  BY <1>7, RunqueuesKeep
<1> QED BY <1>1, <1>2, <1>3, <1>4, <1>5, <1>6, <1>7 DEF Next

-----------------------------------------------------------------------------
(* A writer that sleeps for room at its stream head always has its flags   *)
(* set and a queue before it that is above the low water mark, so the getq *)
(* that brings it there calls the writer, and no hang-up or error passes   *)
(* it by (canput, getq, strwsrv, strrput, strwaitq).                       *)
THEOREM WritersNeverForgotten == Spec => []WritersAreCalled
<1>1. Init => IInv
  BY InitKeeps
<1>2. IInv /\ [Next]_vars => IInv'
  BY NextKeeps
<1>3. IInv => WritersAreCalled
  BY DEF IInv
<1> QED BY <1>1, <1>2, <1>3, PTL DEF Spec
=============================================================================
