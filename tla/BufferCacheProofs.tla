------------------------- MODULE BufferCacheProofs -------------------------
(***************************************************************************)
(* Proofs about BufferCache for every number of processes, buffers and     *)
(* blocks.                                                                 *)
(***************************************************************************)
EXTENDS BufferCache, FiniteSetTheorems, SequenceTheorems, TLAPS

-----------------------------------------------------------------------------
(* The list operations of the free list. *)

Holds(l, b) == \E i \in DOMAIN l : l[i] = b
Once(l) == \A i, j \in DOMAIN l : l[i] = l[j] => i = j

(* notavail takes exactly the buffer it is given off the list. *)
LEMMA NotavailLemma ==
  ASSUME NEW l \in Seq(Buf), NEW b \in Buf, Holds(l, b)
  PROVE  /\ notavail(l, b) \in Seq(Buf)
         /\ Len(notavail(l, b)) = Len(l) - 1
         /\ Once(l) => /\ Once(notavail(l, b))
                       /\ \A c \in Buf : Holds(notavail(l, b), c)
                                           <=> Holds(l, c) /\ c # b
<1> DEFINE at == CHOOSE i \in DOMAIN l : l[i] = b
           n == [j \in 1 .. Len(l) - 1 |-> IF j < at THEN l[j] ELSE l[j + 1]]
<1>1. at \in DOMAIN l /\ l[at] = b
  BY DEF Holds
<1>2. notavail(l, b) = n
  BY DEF notavail
<1>3. Len(l) \in Nat /\ DOMAIN l = 1 .. Len(l) /\ Len(l) - 1 \in Nat /\ at \in Nat
  BY <1>1
<1> HIDE DEF at
<1>4. \A j \in 1 .. Len(l) - 1 : n[j] \in Buf
  BY <1>3
<1>5. n \in Seq(Buf) /\ Len(n) = Len(l) - 1 /\ DOMAIN n = 1 .. Len(l) - 1
  BY <1>3, <1>4
<1>6. ASSUME Once(l)
      PROVE  Once(n)
  BY <1>3, <1>5, <1>6 DEF Once
<1>7. ASSUME Once(l), NEW c \in Buf
      PROVE  Holds(n, c) <=> Holds(l, c) /\ c # b
  <2>1. ASSUME Holds(n, c)
        PROVE  Holds(l, c) /\ c # b
    BY <1>1, <1>3, <1>5, <1>7, <2>1 DEF Once, Holds
  <2>2. ASSUME Holds(l, c), c # b
        PROVE  Holds(n, c)
    <3>1. PICK i \in DOMAIN l : l[i] = c
      BY <2>2 DEF Holds
    <3>2. CASE i < at
      BY <1>1, <1>3, <1>5, <3>1, <3>2 DEF Holds
    <3>3. CASE i > at
      <4>1. i - 1 \in DOMAIN n /\ n[i - 1] = c
        BY <1>1, <1>3, <1>5, <3>1, <3>3
      <4>2. QED BY <4>1 DEF Holds
    <3>4. QED BY <1>1, <1>3, <2>2, <3>1, <3>2, <3>3
  <2>3. QED BY <2>1, <2>2
<1>8. QED BY <1>2, <1>5, <1>6, <1>7

(* brelse puts the buffer on the list, at one end or the other. *)
LEMMA BrelseListLemma ==
  ASSUME NEW l \in Seq(Buf), NEW b \in Buf, NEW f
  PROVE  /\ brelseList(l, b, f) \in Seq(Buf)
         /\ \A c \in Buf : Holds(brelseList(l, b, f), c)
                             <=> Holds(l, c) \/ c = b
         /\ Once(l) /\ ~Holds(l, b) => Once(brelseList(l, b, f))
<1> DEFINE h == <<b>> \o l
           t == Append(l, b)
<1>1. /\ h \in Seq(Buf) /\ Len(h) = Len(l) + 1 /\ h[1] = b
      /\ \A i \in 1 .. Len(l) : h[i + 1] = l[i]
  OBVIOUS
<1>2. /\ t \in Seq(Buf) /\ Len(t) = Len(l) + 1 /\ t[Len(l) + 1] = b
      /\ \A i \in 1 .. Len(l) : t[i] = l[i]
  OBVIOUS
<1>3. Len(l) \in Nat /\ DOMAIN l = 1 .. Len(l)
  OBVIOUS
<1>4. DOMAIN h = 1 .. Len(l) + 1 /\ DOMAIN t = 1 .. Len(l) + 1
  BY <1>1, <1>2
<1> HIDE DEF h, t
<1>5. \A i \in DOMAIN h : i = 1 \/ (i - 1 \in 1 .. Len(l) /\ h[i] = l[i - 1])
  <2>1. TAKE i \in DOMAIN h
  <2>2. i = 1 \/ i - 1 \in 1 .. Len(l)
    BY <1>3, <1>4
  <2>3. i - 1 \in 1 .. Len(l) => h[(i - 1) + 1] = l[i - 1]
    BY <1>1
  <2>4. QED BY <1>4, <2>2, <2>3
<1>6. \A i \in DOMAIN t : i = Len(l) + 1 \/ (i \in 1 .. Len(l) /\ t[i] = l[i])
  BY <1>2, <1>3, <1>4
<1>7. ASSUME NEW c \in Buf
      PROVE  /\ Holds(h, c) <=> Holds(l, c) \/ c = b
             /\ Holds(t, c) <=> Holds(l, c) \/ c = b
  <2>1. Holds(h, c) => Holds(l, c) \/ c = b
    BY <1>1, <1>3, <1>5 DEF Holds
  <2>2. Holds(l, c) => Holds(h, c)
    <3>1. ASSUME NEW i \in DOMAIN l, l[i] = c
          PROVE  i + 1 \in DOMAIN h /\ h[i + 1] = c
      BY <1>1, <1>3, <1>4, <3>1
    <3>2. QED BY <3>1 DEF Holds
  <2>3. c = b => Holds(h, c)
    BY <1>1, <1>3, <1>4 DEF Holds
  <2>4. Holds(t, c) => Holds(l, c) \/ c = b
    BY <1>2, <1>3, <1>6 DEF Holds
  <2>5. Holds(l, c) => Holds(t, c)
    BY <1>2, <1>3, <1>4 DEF Holds
  <2>6. c = b => Holds(t, c)
    BY <1>2, <1>3, <1>4 DEF Holds
  <2>7. QED BY <2>1, <2>2, <2>3, <2>4, <2>5, <2>6
<1>8. ASSUME Once(l), ~Holds(l, b)
      PROVE  Once(h) /\ Once(t)
  <2>1. Once(h)
    BY <1>1, <1>3, <1>4, <1>5, <1>8 DEF Once, Holds
  <2>2. Once(t)
    BY <1>2, <1>3, <1>4, <1>6, <1>8 DEF Once, Holds
  <2>3. QED BY <2>1, <2>2
<1>9. brelseList(l, b, f) \in {h, t}
  BY DEF brelseList, h, t
<1>10. QED BY <1>1, <1>2, <1>7, <1>8, <1>9

(* Taking the head of the list. *)
LEMMA TailLemma ==
  ASSUME NEW l \in Seq(Buf), l # <<>>
  PROVE  /\ Head(l) \in Buf
         /\ Tail(l) \in Seq(Buf)
         /\ Holds(l, Head(l))
         /\ Once(l) => /\ Once(Tail(l))
                       /\ \A c \in Buf : Holds(Tail(l), c)
                                           <=> Holds(l, c) /\ c # Head(l)
<1>1. /\ Len(l) \in Nat \ {0} /\ DOMAIN l = 1 .. Len(l)
      /\ Head(l) = l[1] /\ l[1] \in Buf
  OBVIOUS
<1>2. /\ Tail(l) \in Seq(Buf) /\ Len(Tail(l)) = Len(l) - 1
      /\ DOMAIN Tail(l) = 1 .. Len(l) - 1
      /\ \A i \in 1 .. Len(l) - 1 : Tail(l)[i] = l[i + 1]
  BY <1>1
<1>3. Holds(l, Head(l))
  BY <1>1 DEF Holds
<1>4. ASSUME Once(l)
      PROVE  Once(Tail(l))
  BY <1>1, <1>2, <1>4 DEF Once
<1>5. ASSUME Once(l), NEW c \in Buf
      PROVE  Holds(Tail(l), c) <=> Holds(l, c) /\ c # Head(l)
  <2>1. ASSUME Holds(Tail(l), c)
        PROVE  Holds(l, c) /\ c # Head(l)
    BY <1>1, <1>2, <1>5, <2>1 DEF Once, Holds
  <2>2. ASSUME Holds(l, c), c # Head(l)
        PROVE  Holds(Tail(l), c)
    <3>1. PICK i \in DOMAIN l : l[i] = c
      BY <2>2 DEF Holds
    <3>2. i - 1 \in 1 .. Len(l) - 1 /\ Tail(l)[i - 1] = c
      <4>1. i # 1
        BY <1>1, <2>2, <3>1
      <4>2. i - 1 \in 1 .. Len(l) - 1 /\ (i - 1) + 1 = i
        BY <1>1, <4>1
      <4>3. QED BY <1>2, <3>1, <4>2
    <3>3. QED BY <1>2, <3>2 DEF Holds
  <2>3. QED BY <2>1, <2>2
<1>6. QED BY <1>1, <1>2, <1>3, <1>4, <1>5

-----------------------------------------------------------------------------
(* Type correctness. *)

LEMMA FrameLemma ==
  ASSUME NEW p \in Proc, arg \in [Proc -> Frame]
  PROVE  /\ \A s \in {"own", "read", "main", "ra", "write", "user", "close"} :
              [arg EXCEPT ![p].k = s] \in [Proc -> Frame]
         /\ \A s \in {"user", "getblk", "bflush", "bdflush"} :
              [arg EXCEPT ![p].ret = s] \in [Proc -> Frame]
         /\ [arg EXCEPT ![p].k = "read", ![p].ra = NoBlock]
               \in [Proc -> Frame]
         /\ [arg EXCEPT ![p] = NoFrame] \in [Proc -> Frame]
         /\ NoFrame \in Frame
<1>1. arg[p] \in Frame
  OBVIOUS
<1>2. NoFrame \in Frame
  BY DEF NoFrame, Frame
<1>3. \A s \in {"own", "read", "main", "ra", "write", "user", "close"} :
        [arg[p] EXCEPT !.k = s] \in Frame
  BY <1>1 DEF Frame
<1>4. \A s \in {"user", "getblk", "bflush", "bdflush"} :
        [arg[p] EXCEPT !.ret = s] \in Frame
  BY <1>1 DEF Frame
<1>5. [arg[p] EXCEPT !.k = "read", !.ra = NoBlock] \in Frame
  BY <1>1 DEF Frame
<1>6. QED BY <1>2, <1>3, <1>4, <1>5

LEMMA BrelseFlagsLemma ==
  ASSUME NEW f \in SUBSET Flag
  PROVE  brelseFlags(f) \in SUBSET Flag
BY DEF brelseFlags, Flag

LEMMA AwakenLemma ==
  ASSUME NEW S, wchan \in [Proc -> Chan], Awaken(S)
  PROVE  wchan' \in [Proc -> Chan]
BY DEF Awaken, Chan, NoChan

LEMMA BrelseType ==
  ASSUME TypeOK, NEW p \in Proc, mine[p] \in Buf, NEW f \in SUBSET Flag,
         Brelse(p, f)
  PROVE  /\ flags' \in [Buf -> SUBSET Flag]
         /\ freelist' \in Seq(Buf)
         /\ flwanted' \in BOOLEAN
         /\ wchan' \in [Proc -> Chan]
         /\ mine' \in [Proc -> Buf \cup {NoBuf}]
         /\ cpu' \in Proc \cup {NoProc}
         /\ pc' \in [Proc -> PC]
         /\ arg' \in [Proc -> Frame]
<1>1. flags' \in [Buf -> SUBSET Flag]
  BY BrelseFlagsLemma DEF TypeOK, Brelse
<1>2. freelist' \in Seq(Buf)
  BY BrelseListLemma DEF TypeOK, Brelse
<1>3. wchan' \in [Proc -> Chan]
  BY AwakenLemma DEF TypeOK, Brelse
<1>4. arg' \in [Proc -> Frame]
  BY FrameLemma DEF TypeOK, Brelse, Return
<1>5. QED BY <1>1, <1>2, <1>3, <1>4 DEF TypeOK, Brelse, Return, PC

LEMMA AsyncWriteType ==
  ASSUME TypeOK, NEW p \in Proc, NEW b \in Buf, OnList(b),
         NEW r \in {"user", "getblk", "bflush", "bdflush"},
         AsyncWrite(p, b, r)
  PROVE  TypeOK'
<1>1. flags' \in [Buf -> SUBSET Flag]
  BY DEF TypeOK, AsyncWrite, Flag
<1>2. freelist' \in Seq(Buf)
  BY NotavailLemma DEF TypeOK, AsyncWrite, OnList, Holds
<1>3. arg' \in [Proc -> Frame]
  BY FrameLemma DEF TypeOK, AsyncWrite
<1>4. QED BY <1>1, <1>2, <1>3 DEF TypeOK, AsyncWrite, Go, PC, histVars, asyVars

LEMMA GotType ==
  ASSUME TypeOK, NEW p \in Proc, NEW b \in Buf, NEW f \in SUBSET Flag,
         NEW list \in Seq(Buf), Got(p, b, f, list)
  PROVE  /\ flags' \in [Buf -> SUBSET Flag]
         /\ freelist' \in Seq(Buf)
         /\ flwanted' \in BOOLEAN
         /\ io' \in SUBSET Buf
         /\ wchan' \in [Proc -> Chan]
         /\ mine' \in [Proc -> Buf \cup {NoBuf}]
         /\ cpu' \in Proc \cup {NoProc}
         /\ pc' \in [Proc -> PC]
         /\ arg' \in [Proc -> Frame]
<1>1. flags' \in [Buf -> SUBSET Flag]
  <2>1. /\ f \cup {"READ"} \in SUBSET Flag
        /\ f \cup {"READ", "ASYNC"} \in SUBSET Flag
        /\ brelseFlags(f) \in SUBSET Flag
    BY BrelseFlagsLemma DEF Flag
  <2>2. \E g \in SUBSET Flag : flags' = [flags EXCEPT ![b] = g]
    BY <2>1 DEF Got
  <2>3. QED BY <2>2 DEF TypeOK
<1>2. freelist' \in Seq(Buf)
  BY BrelseListLemma DEF Got
<1>3. flwanted' \in BOOLEAN /\ io' \in SUBSET Buf
  BY DEF TypeOK, Got
<1>4. wchan' \in [Proc -> Chan]
  BY AwakenLemma DEF TypeOK, Got
<1>5. mine' \in [Proc -> Buf \cup {NoBuf}]
  BY DEF TypeOK, Got
<1>6. cpu' \in Proc \cup {NoProc} /\ pc' \in [Proc -> PC]
  BY DEF TypeOK, Got, Go, Return, BreadaEnd, PC
<1>7. arg' \in [Proc -> Frame]
  <2>1. \/ arg' = arg
        \/ arg' = [arg EXCEPT ![p] = NoFrame]
        \/ arg' = [arg EXCEPT ![p].k = "read", ![p].ra = NoBlock]
    BY DEF Got, Return, BreadaEnd
  <2>2. arg \in [Proc -> Frame]
    BY DEF TypeOK
  <2>3. /\ [arg EXCEPT ![p] = NoFrame] \in [Proc -> Frame]
        /\ [arg EXCEPT ![p].k = "read", ![p].ra = NoBlock] \in [Proc -> Frame]
    BY <2>2, FrameLemma
  <2>4. QED BY <2>1, <2>2, <2>3
<1>8. QED BY <1>1, <1>2, <1>3, <1>4, <1>5, <1>6, <1>7

-----------------------------------------------------------------------------
(* The structural invariant.  Type correctness is not inductive by itself: *)
(* brelse and notavail keep the free list a list of buffers only because a *)
(* process that releases a buffer has one, and a buffer that is not busy   *)
(* is on the list.                                                         *)

Available ==
  /\ Once(freelist)
  /\ \A b \in Buf : Holds(freelist, b) <=> "BUSY" \notin flags[b]

Kept ==
  /\ \A p, q \in Proc : mine[p] # NoBuf /\ mine[p] = mine[q] => p = q
  /\ \A p \in Proc : mine[p] # NoBuf => "BUSY" \in flags[mine[p]]
  /\ \A b \in Buf : "BUSY" \in flags[b] =>
                       b \in io \/ \E p \in Proc : mine[p] = b
  /\ \A b \in io : "BUSY" \in flags[b] /\ "DONE" \notin flags[b]
  /\ \A b \in io : "ASYNC" \in flags[b] <=> \A p \in Proc : mine[p] # b
  /\ \A b \in Buf : "ASYNC" \in flags[b] => b \in io

Frames ==
  \A p \in Proc :
    /\ pc[p] \in {"hold", "iowait"} => mine[p] # NoBuf
    /\ pc[p] = "hold" => mine[p] \notin io
    /\ pc[p] \in {"user", "bflush", "bdflush", "bdwait"} => mine[p] = NoBuf
    /\ pc[p] \in {"getblk", "bwtail"} /\ arg[p].k # "ra" => mine[p] = NoBuf
    /\ pc[p] = "bwtail" /\ arg[p].k = "ra" => arg[p].ret = "getblk"
    /\ pc[p] \in {"hold", "bflush", "bdflush"} => arg[p].k # "ra"
    /\ pc[p] = "reada" => arg[p].k = "main"

Inv == TypeOK /\ Available /\ Kept /\ Frames

LEMMA InitInv == Init => Inv
<1> SUFFICES ASSUME Init
             PROVE  Inv
  OBVIOUS
<1>1. Cardinality(Buf) \in Nat
  BY FS_CardinalityType, ConstAssumption
<1>2. freelist \in Seq(Buf) /\ Once(freelist) /\ \A b \in Buf : Holds(freelist, b)
  <2>1. freelist \in [1 .. Cardinality(Buf) -> Buf]
    BY DEF Init
  <2>2. freelist \in Seq(Buf)
    BY <1>1, <2>1, SeqDef
  <2>3. QED BY <2>2 DEF Init, Once, Holds
<1>3. \A p \in Proc : arg[p] = NoFrame
  BY DEF Init
<1>4. arg \in [Proc -> Frame]
  BY DEF Init, NoFrame, Frame
<1>5. TypeOK
  <2>1. /\ flags \in [Buf -> SUBSET Flag]
        /\ ident \in [Buf -> Block \cup {NoBlock}]
        /\ data \in [Buf -> Value]
        /\ disk \in [Block -> Value] /\ cur \in [Block -> Value]
    BY ConstAssumption DEF Init
  <2>2. /\ wchan \in [Proc -> Chan]
        /\ pc \in [Proc -> PC]
        /\ mine \in [Proc -> Buf \cup {NoBuf}]
    BY DEF Init, Chan, PC
  <2>3. flwanted \in BOOLEAN /\ basynwait \in BOOLEAN
    BY Zenon DEF Init
  <2>4. /\ basyncnt \in Int /\ io \in SUBSET Buf /\ failed \in SUBSET Block
        /\ cpu \in Proc \cup {NoProc}
    BY DEF Init
  <2>5. QED BY <1>2, <1>4, <2>1, <2>2, <2>3, <2>4 DEF TypeOK
<1>6. Available /\ Kept
  BY <1>2 DEF Init, Available, Kept
<1>7. Frames
  BY <1>3 DEF Init, Frames, NoFrame
<1>8. QED BY <1>5, <1>6, <1>7 DEF Inv

(* The release of the buffer a process holds. *)
LEMMA BrelseStep ==
  ASSUME Inv, NEW p \in Proc, mine[p] # NoBuf, mine[p] \notin io,
         NEW f \in SUBSET Flag, Brelse(p, f),
         UNCHANGED io
  PROVE  Available' /\ Kept' /\ Frames'
<1> DEFINE b == mine[p]
<1>1. /\ b \in Buf /\ flags \in [Buf -> SUBSET Flag]
      /\ mine \in [Proc -> Buf \cup {NoBuf}] /\ pc \in [Proc -> PC]
      /\ arg \in [Proc -> Frame] /\ freelist \in Seq(Buf) /\ io \subseteq Buf
  BY DEF Inv, TypeOK
<1>2. /\ flags' = [flags EXCEPT ![b] = brelseFlags(f)]
      /\ mine' = [mine EXCEPT ![p] = NoBuf]
      /\ pc' = [pc EXCEPT ![p] = "user"]
      /\ arg' = [arg EXCEPT ![p] = NoFrame]
      /\ freelist' = brelseList(freelist, b, f)
  BY DEF Brelse, Return
<1>3. {"BUSY", "ASYNC"} \cap brelseFlags(f) = {}
  BY DEF brelseFlags
<1>4. "BUSY" \in flags[b] /\ ~Holds(freelist, b) /\ Once(freelist)
  BY <1>1 DEF Inv, Kept, Available
<1>5. Available'
  <2>1. /\ Once(freelist')
        /\ \A c \in Buf : Holds(freelist', c) <=> Holds(freelist, c) \/ c = b
    BY <1>1, <1>2, <1>4, BrelseListLemma
  <2>2. QED BY <1>1, <1>2, <1>3, <2>1 DEF Inv, Available
<1>6. Kept'
  <2>1. \A q \in Proc : q # p => mine[q] # b
    BY <1>1 DEF Inv, Kept
  <2>2. \A q \in Proc : mine'[q] = IF q = p THEN NoBuf ELSE mine[q]
    BY <1>1, <1>2
  <2>3. /\ flags'[b] = brelseFlags(f)
        /\ \A c \in Buf : c # b => flags'[c] = flags[c]
    BY <1>1, <1>2
  <2>4. \A q \in Proc : mine'[q] # NoBuf => mine'[q] \in Buf /\ mine'[q] # b
    BY <1>1, <2>1, <2>2
  <2>5. \A c \in io : c \in Buf /\ c # b
    BY <1>1
  <2>6. Kept
    BY DEF Inv
  <2>7. /\ \A q, r \in Proc : mine'[q] # NoBuf /\ mine'[q] = mine'[r] => q = r
        /\ \A q \in Proc : mine'[q] # NoBuf => "BUSY" \in flags'[mine'[q]]
    BY <2>2, <2>3, <2>4, <2>6 DEF Kept
  <2>8. \A c \in Buf : "BUSY" \in flags'[c] =>
                         c \in io' \/ \E q \in Proc : mine'[q] = c
    BY <1>3, <2>2, <2>3, <2>6 DEF Kept
  <2>9. /\ \A c \in io' : "BUSY" \in flags'[c] /\ "DONE" \notin flags'[c]
        /\ \A c \in io' : "ASYNC" \in flags'[c] <=> \A q \in Proc : mine'[q] # c
        /\ \A c \in Buf : "ASYNC" \in flags'[c] => c \in io'
    BY <1>3, <2>1, <2>2, <2>3, <2>5, <2>6, ConstAssumption DEF Kept
  <2>10. QED BY <2>7, <2>8, <2>9 DEF Kept
<1>7. Frames'
  BY <1>1, <1>2 DEF Inv, Frames, NoFrame
<1>8. QED BY <1>5, <1>6, <1>7

(* A free delayed write is handed to its device. *)
LEMMA AsyncWriteStep ==
  ASSUME Inv, NEW p \in Proc, NEW b \in Buf, OnList(b),
         NEW r \in {"getblk", "bflush", "bdflush"}, pc[p] = r,
         AsyncWrite(p, b, r)
  PROVE  Inv'
<1>1. /\ flags \in [Buf -> SUBSET Flag] /\ arg \in [Proc -> Frame]
      /\ mine \in [Proc -> Buf \cup {NoBuf}] /\ pc \in [Proc -> PC]
      /\ freelist \in Seq(Buf) /\ io \subseteq Buf
  BY DEF Inv, TypeOK
<1>2. /\ flags' = [flags EXCEPT ![b] =
                     (@ \ {"READ", "DONE", "ERROR", "DELWRI"})
                        \cup {"BUSY", "ASYNC"}]
      /\ freelist' = notavail(freelist, b)
      /\ io' = io \cup {b}
      /\ arg' = [arg EXCEPT ![p].ret = r]
      /\ pc' = [pc EXCEPT ![p] = "bwtail"]
      /\ mine' = mine
  BY DEF AsyncWrite, Go
<1>3. Holds(freelist, b) /\ "BUSY" \notin flags[b] /\ b \notin io
      /\ \A q \in Proc : mine[q] # b
  <2>1. Holds(freelist, b)
    BY DEF OnList, Holds
  <2>2. "BUSY" \notin flags[b]
    BY <2>1 DEF Inv, Available
  <2>3. b \notin io
    BY <2>2 DEF Inv, Kept
  <2>4. \A q \in Proc : mine[q] # b
    BY <2>2, ConstAssumption DEF Inv, Kept
  <2>5. QED BY <2>1, <2>2, <2>3, <2>4
<1>4. TypeOK'
  BY AsyncWriteType DEF Inv
<1>5. Available'
  <2>1. /\ Once(freelist')
        /\ \A c \in Buf : Holds(freelist', c) <=> Holds(freelist, c) /\ c # b
    BY <1>1, <1>2, <1>3, NotavailLemma DEF Inv, Available
  <2>2. QED BY <1>1, <1>2, <2>1 DEF Inv, Available
<1>6. Kept'
  BY <1>1, <1>2, <1>3 DEF Inv, Kept
<1>7. Frames'
  <2>1. \A q \in Proc : /\ q # p => arg'[q] = arg[q] /\ pc'[q] = pc[q]
                        /\ arg'[q].k = arg[q].k
    BY <1>1, <1>2 DEF Frame
  <2>2. arg'[p].ret = r /\ pc'[p] = "bwtail"
    BY <1>1, <1>2 DEF Frame
  <2>3. QED BY <1>2, <1>3, <2>1, <2>2 DEF Inv, Frames
<1>8. QED BY <1>4, <1>5, <1>6, <1>7 DEF Inv

(* getblk returns a buffer that was not busy to its caller. *)
LEMMA GotStep ==
  ASSUME Inv, NEW p \in Proc, NEW b \in Buf, NEW f \in SUBSET Flag,
         NEW list \in Seq(Buf), pc[p] = "getblk",
         "BUSY" \notin flags[b], "BUSY" \in f, "ASYNC" \notin f,
         Once(list),
         \A c \in Buf : Holds(list, c) <=> Holds(freelist, c) /\ c # b,
         Got(p, b, f, list)
  PROVE  Available' /\ Kept' /\ Frames'
<1>1. /\ flags \in [Buf -> SUBSET Flag] /\ arg \in [Proc -> Frame]
      /\ mine \in [Proc -> Buf \cup {NoBuf}] /\ pc \in [Proc -> PC]
      /\ freelist \in Seq(Buf) /\ io \subseteq Buf
  BY DEF Inv, TypeOK
<1>2. b \notin io /\ \A q \in Proc : mine[q] # b
  BY ConstAssumption DEF Inv, Kept
<1>3. /\ Available /\ Kept /\ Frames
      /\ \A c \in Buf : Holds(list, c) <=> "BUSY" \notin flags[c] /\ c # b
  BY DEF Inv, Available
<1>4. CASE arg[p].k # "ra"
  <2>1. mine[p] = NoBuf
    BY <1>3, <1>4 DEF Frames
  <2>2. PICK g \in SUBSET Flag :
          /\ flags' = [flags EXCEPT ![b] = g]
          /\ "BUSY" \in g /\ "ASYNC" \notin g
          /\ \/ io' = io
             \/ io' = io \cup {b} /\ "DONE" \notin g /\ pc'[p] # "hold"
    <3>1. f \cup {"READ"} \in SUBSET Flag
      BY DEF Flag
    <3>2. QED BY <1>1, <1>4, <3>1 DEF Got, Go
  <2>3. mine' = [mine EXCEPT ![p] = b] /\ freelist' = list
    BY <1>4 DEF Got
  <2>4. Available'
    BY <1>1, <1>3, <2>2, <2>3 DEF Available
  <2>5. Kept'
    BY <1>1, <1>2, <1>3, <2>1, <2>2, <2>3, ConstAssumption DEF Kept
  <2>6. \/ pc'[p] = "iowait"
        \/ pc'[p] = "reada" /\ arg'[p].k = "main"
        \/ pc'[p] = "hold" /\ arg'[p].k = "own"
    BY <1>1, <1>4 DEF Got, Go, Return, NoFrame
  <2>7. \A q \in Proc : q # p => pc'[q] = pc[q] /\ arg'[q] = arg[q]
    BY <1>1, <1>4 DEF Got, Go, Return
  <2>8. Frames'
    BY <1>1, <1>2, <1>3, <2>2, <2>3, <2>6, <2>7, ConstAssumption DEF Frames
  <2>9. QED BY <2>4, <2>5, <2>8
<1>5. CASE arg[p].k = "ra"
  <2>1. /\ arg' = [arg EXCEPT ![p].k = "read", ![p].ra = NoBlock]
        /\ pc' = [pc EXCEPT ![p] = IF mine[p] = NoBuf THEN "getblk" ELSE "iowait"]
        /\ mine' = mine
    BY <1>5 DEF Got, BreadaEnd, Go
  <2>2. arg'[p].k = "read" /\ \A q \in Proc : q # p => arg'[q] = arg[q]
    BY <1>1, <2>1 DEF Frame
  <2>3. io' \subseteq io \cup {b}
    BY <1>5 DEF Got
  <2>4. Frames'
    BY <1>1, <1>2, <1>3, <2>1, <2>2, <2>3 DEF Frames
  <2>5. CASE "DONE" \in f
    <3>1. /\ flags' = [flags EXCEPT ![b] = brelseFlags(f)] /\ io' = io
          /\ freelist' = brelseList(list, b, f)
      BY <1>5, <2>5 DEF Got
    <3>2. {"BUSY", "ASYNC"} \cap brelseFlags(f) = {}
      BY DEF brelseFlags
    <3>3. /\ Once(freelist')
          /\ \A c \in Buf : Holds(freelist', c) <=> Holds(list, c) \/ c = b
      BY <3>1, BrelseListLemma
    <3>4. Available'
      BY <1>1, <1>3, <3>1, <3>2, <3>3 DEF Available
    <3>5. Kept'
      BY <1>1, <1>2, <1>3, <2>1, <3>1, <3>2, ConstAssumption DEF Kept
    <3>6. QED BY <2>4, <3>4, <3>5
  <2>6. CASE "DONE" \notin f
    <3>1. /\ flags' = [flags EXCEPT ![b] = f \cup {"READ", "ASYNC"}]
          /\ io' = io \cup {b} /\ freelist' = list
      BY <1>5, <2>6 DEF Got
    <3>2. Available'
      BY <1>1, <1>3, <3>1 DEF Available
    <3>3. Kept'
      BY <1>1, <1>2, <1>3, <2>1, <2>6, <3>1, ConstAssumption DEF Kept
    <3>4. QED BY <2>4, <3>2, <3>3
  <2>7. QED BY <2>5, <2>6
<1>6. QED BY <1>4, <1>5

(* A process enters the cache. *)
LEMMA StartStep ==
  ASSUME Inv, NEW p \in Proc, NEW frame \in Frame, frame.k # "ra",
         NEW l \in {"getblk", "reada", "bflush", "bdflush", "bdwait"},
         l = "reada" => frame.k = "main",
         Start(p, frame, l)
  PROVE  Inv'
<1>1. /\ arg \in [Proc -> Frame] /\ pc \in [Proc -> PC]
      /\ mine \in [Proc -> Buf \cup {NoBuf}]
  BY DEF Inv, TypeOK
<1>2. /\ pc' = [pc EXCEPT ![p] = l] /\ arg' = [arg EXCEPT ![p] = frame]
      /\ mine[p] = NoBuf /\ mine' = mine /\ io' = io
      /\ cpu' = p /\ UNCHANGED <<flags, freelist, flwanted>>
  BY DEF Inv, Frames, Start, At, Go, bufVars
<1>3. TypeOK'
  BY <1>1, <1>2 DEF Inv, TypeOK, Start, bufVars, asyVars, histVars, PC
<1>4. Available' /\ Kept'
  BY <1>2 DEF Inv, Available, Kept
<1>5. Frames'
  BY <1>1, <1>2 DEF Inv, Frames
<1>6. QED BY <1>3, <1>4, <1>5 DEF Inv

LEMMA EnterInv ==
  ASSUME Inv, NEW p \in Proc, Enter(p)
  PROVE  Inv'
<1>1. NoFrame \in Frame /\ NoFrame.k = "own"
  BY DEF NoFrame, Frame
<1>2. CASE StartBread(p)
  BY <1>2, StartStep DEF StartBread, NoFrame, Frame
<1>3. CASE StartGetblk(p)
  BY <1>3, StartStep DEF StartGetblk, NoFrame, Frame
<1>4. CASE StartGeteblk(p)
  BY <1>1, <1>4, StartStep DEF StartGeteblk
<1>5. CASE StartBreada(p)
  <2>1. PICK k \in Block, r \in Block :
          Start(p, [NoFrame EXCEPT !.blk = k, !.k = "main", !.ra = r],
                IF incore(k) THEN "reada" ELSE "getblk")
    BY <1>5 DEF StartBreada
  <2>2. /\ [NoFrame EXCEPT !.blk = k, !.k = "main", !.ra = r] \in Frame
        /\ [NoFrame EXCEPT !.blk = k, !.k = "main", !.ra = r].k = "main"
    BY DEF NoFrame, Frame
  <2>3. QED BY <2>1, <2>2, StartStep
<1>6. CASE StartBflush(p)
  BY <1>6, StartStep DEF StartBflush, NoFrame, Frame
<1>7. CASE StartBdwait(p)
  BY <1>1, <1>7, StartStep DEF StartBdwait
<1>8. CASE StartBdflush(p)
  BY <1>1, <1>8, StartStep DEF StartBdflush
<1>9. CASE StartClose(p)
  BY <1>9, StartStep DEF StartClose, NoFrame, Frame
<1>10. QED
  BY <1>2, <1>3, <1>4, <1>5, <1>6, <1>7, <1>8, <1>9 DEF Enter

(* An action that changes neither the buffers, the device nor who holds    *)
(* what, and leaves p at a place its frame allows.                         *)
LEMMA QuietStep ==
  ASSUME Inv, TypeOK', NEW p \in Proc,
         UNCHANGED <<flags, freelist, io, mine>>,
         \A q \in Proc : q # p => pc'[q] = pc[q] /\ arg'[q] = arg[q],
         \/ pc'[p] = pc[p] /\ arg'[p] = arg[p]
         \/ /\ pc'[p] = "hold" /\ arg'[p].k # "ra"
            /\ mine[p] # NoBuf /\ mine[p] \notin io
         \/ pc'[p] = "iowait" /\ mine[p] # NoBuf
         \/ pc'[p] = "getblk" /\ (arg'[p].k = "ra" \/ mine[p] = NoBuf)
         \/ /\ pc'[p] \in {"user", "bflush", "bdflush"}
            /\ mine[p] = NoBuf
            /\ arg'[p].k # "ra"
  PROVE  Inv'
<1>1. Available' /\ Kept'
  BY DEF Inv, Available, Kept
<1>2. Frames'
  BY DEF Inv, Frames
<1>3. QED BY <1>1, <1>2 DEF Inv

LEMMA StepInv ==
  ASSUME Inv, NEW p \in Proc, Step(p)
  PROVE  Inv'
<1> USE DEF bufVars, asyVars, histVars
<1>1. /\ flags \in [Buf -> SUBSET Flag] /\ arg \in [Proc -> Frame]
      /\ mine \in [Proc -> Buf \cup {NoBuf}] /\ pc \in [Proc -> PC]
      /\ freelist \in Seq(Buf) /\ io \subseteq Buf
      /\ wchan \in [Proc -> Chan] /\ cpu \in Proc \cup {NoProc}
      /\ TypeOK
  BY DEF Inv, TypeOK
<1>2. /\ [arg EXCEPT ![p] = NoFrame] \in [Proc -> Frame]
      /\ [arg EXCEPT ![p] = NoFrame][p].k = "own"
  BY <1>1, FrameLemma DEF NoFrame
<1>3. CASE GetblkBusy(p)
  <2>1. PICK b \in Buf : /\ flags' = [flags EXCEPT ![b] = @ \cup {"WANTED"}]
                         /\ Sleep(p, b)
    BY <1>3 DEF GetblkBusy, Match
  <2>2. flags' \in [Buf -> SUBSET Flag]
    BY <1>1, <2>1 DEF Flag
  <2>3. TypeOK'
    BY <1>1, <1>3, <2>1, <2>2 DEF TypeOK, GetblkBusy, Sleep, Chan
  <2>4. \A c \in Buf, g \in {"BUSY", "DONE", "ASYNC"} :
          g \in flags'[c] <=> g \in flags[c]
    BY <1>1, <2>1
  <2>5. UNCHANGED <<freelist, io, mine, pc, arg>>
    BY <1>3 DEF GetblkBusy
  <2>6. Available' /\ Kept'
    BY <1>1, <2>4, <2>5 DEF Inv, Available, Kept
  <2>7. Frames'
    BY <2>5 DEF Inv, Frames
  <2>8. QED BY <2>3, <2>6, <2>7 DEF Inv
<1>4. CASE GetblkEmpty(p)
  <2>1. TypeOK'
    BY <1>1, <1>4 DEF TypeOK, GetblkEmpty, Sleep, Chan
  <2>2. QED BY <1>4, <2>1, QuietStep DEF GetblkEmpty
<1>5. CASE GetblkDelwri(p)
  <2>1. Head(freelist) \in Buf /\ OnList(Head(freelist))
    BY <1>1, <1>5, TailLemma DEF GetblkDelwri, OnList, Holds
  <2>2. QED BY <1>5, <2>1, AsyncWriteStep DEF GetblkDelwri, At
<1>6. CASE GetblkHit(p)
  <2>1. PICK b \in Buf :
          /\ "BUSY" \notin flags[b]
          /\ Got(p, b, flags[b] \cup {"BUSY"}, notavail(freelist, b))
    BY <1>6 DEF GetblkHit, Match
  <2>2. flags[b] \cup {"BUSY"} \in SUBSET Flag
    BY <1>1 DEF Flag
  <2>3. "ASYNC" \notin flags[b]
    BY <2>1 DEF Inv, Kept
  <2>4. Holds(freelist, b) /\ Once(freelist)
    BY <2>1 DEF Inv, Available
  <2>5. /\ notavail(freelist, b) \in Seq(Buf)
        /\ Once(notavail(freelist, b))
        /\ \A c \in Buf : Holds(notavail(freelist, b), c)
                             <=> Holds(freelist, c) /\ c # b
    BY <1>1, <2>4, NotavailLemma
  <2>6. Available' /\ Kept' /\ Frames'
    BY <1>6, <2>1, <2>2, <2>3, <2>5, GotStep DEF GetblkHit, At
  <2>7. TypeOK'
    BY <1>1, <1>6, <2>1, <2>2, <2>5, GotType DEF GetblkHit, TypeOK
  <2>8. QED BY <2>6, <2>7 DEF Inv
<1>7. CASE GetblkTake(p)
  <2> DEFINE b == Head(freelist)
             f == IF Wanted(p) = NoBlock THEN {"BUSY", "AGE"} ELSE {"BUSY"}
  <2>1. Got(p, b, f, Tail(freelist)) /\ freelist # <<>> /\ pc[p] = "getblk"
    BY <1>7 DEF GetblkTake, TakeHead, At
  <2>2. f \in SUBSET Flag /\ "BUSY" \in f /\ "ASYNC" \notin f
    BY DEF Flag
  <2>3. Once(freelist)
    BY DEF Inv, Available
  <2>4. /\ b \in Buf /\ Tail(freelist) \in Seq(Buf) /\ Once(Tail(freelist))
        /\ Holds(freelist, b)
        /\ \A c \in Buf : Holds(Tail(freelist), c) <=> Holds(freelist, c) /\ c # b
    BY <1>1, <2>1, <2>3, TailLemma
  <2>5. "BUSY" \notin flags[b]
    BY <2>4 DEF Inv, Available
  <2> HIDE DEF b, f
  <2>6. Available' /\ Kept' /\ Frames'
    BY <2>1, <2>2, <2>4, <2>5, GotStep
  <2>7. Wanted(p) \in Block \cup {NoBlock}
    BY <1>1 DEF Wanted, Frame
  <2>8. TypeOK'
    BY <1>1, <1>7, <2>1, <2>2, <2>4, <2>7, GotType
       DEF GetblkTake, TakeHead, TypeOK, b
  <2>9. QED BY <2>6, <2>8 DEF Inv
<1>8. CASE Reada(p)
  <2>1. /\ [arg EXCEPT ![p].k = "ra"] \in [Proc -> Frame]
        /\ [arg EXCEPT ![p].k = "read", ![p].ra = NoBlock] \in [Proc -> Frame]
    BY <1>1, FrameLemma
  <2>2. [arg EXCEPT ![p].k = "ra"][p].k = "ra"
    BY <1>1 DEF Frame
  <2>3. TypeOK'
    BY <1>1, <1>8, <2>1 DEF Reada, BreadaEnd, Go, TypeOK, PC
  <2>4. QED
    BY <1>1, <1>8, <2>2, <2>3, QuietStep DEF Reada, BreadaEnd, Go
<1>9. CASE IowaitSleep(p)
  <2>1. mine[p] \in Buf
    BY <1>1, <1>9 DEF IowaitSleep, At, Inv, Frames
  <2>2. TypeOK'
    BY <1>1, <1>9, <2>1 DEF TypeOK, IowaitSleep, Sleep, Chan
  <2>3. QED BY <1>9, <2>2, QuietStep DEF IowaitSleep
<1>10. CASE IowaitDone(p)
  <2>1. mine[p] \in Buf /\ mine[p] # NoBuf /\ mine[p] \notin io
    BY <1>1, <1>10 DEF IowaitDone, At, Inv, Frames, Kept
  <2>2. CASE arg[p].k = "write"
    <3>1. Brelse(p, flags[mine[p]]) /\ flags[mine[p]] \in SUBSET Flag
      BY <1>1, <1>10, <2>1, <2>2 DEF IowaitDone
    <3>2. TypeOK'
      BY <1>1, <1>10, <2>1, <3>1, BrelseType DEF IowaitDone, TypeOK
    <3>3. QED BY <1>10, <2>1, <3>1, <3>2, BrelseStep DEF IowaitDone, Inv
  <2>3. CASE arg[p].k # "write"
    <3>1. TypeOK'
      BY <1>1, <1>2, <1>10, <2>3 DEF IowaitDone, Return, TypeOK, PC
    <3>2. QED
      BY <1>1, <1>2, <1>10, <2>1, <2>3, <3>1, QuietStep DEF IowaitDone, Return
  <2>4. QED BY <2>2, <2>3
<1>11. ASSUME pc[p] = "hold"
       PROVE  /\ mine[p] \in Buf /\ mine[p] # NoBuf /\ mine[p] \notin io
              /\ flags[mine[p]] \in SUBSET Flag
              /\ "BUSY" \in flags[mine[p]] /\ "ASYNC" \notin flags[mine[p]]
  BY <1>1, <1>11 DEF Inv, Frames, Kept
<1>12. CASE Release(p)
  <2>1. Brelse(p, flags[mine[p]]) /\ pc[p] = "hold"
    BY <1>12 DEF Release, At
  <2>2. TypeOK'
    BY <1>1, <1>11, <1>12, <2>1, BrelseType DEF Release, TypeOK
  <2>3. QED BY <1>11, <1>12, <2>1, <2>2, BrelseStep DEF Release, Inv
<1>13. ASSUME Store(p)
       PROVE  /\ pc[p] = "hold"
              /\ data' \in [Buf -> Value] /\ cur' \in [Block -> Value]
              /\ failed' \in SUBSET Block /\ UNCHANGED <<ident, disk>>
  <2>1. PICK v \in Value : /\ data' = [data EXCEPT ![mine[p]] = v]
                           /\ cur' = [cur EXCEPT ![ident[mine[p]]] = v]
    BY <1>13 DEF Store
  <2>2. data' \in [Buf -> Value] /\ cur' \in [Block -> Value]
    BY <1>1, <2>1 DEF TypeOK
  <2>3. /\ pc[p] = "hold" /\ failed' = failed \ {ident[mine[p]]}
        /\ UNCHANGED <<ident, disk>>
    BY <1>13 DEF Store, At
  <2>4. QED BY <1>1, <2>2, <2>3 DEF TypeOK
<1>14. CASE bdwrite(p)
  <2> DEFINE f == flags[mine[p]] \cup {"DELWRI", "DONE"}
  <2>1. Brelse(p, f) /\ Store(p) /\ UNCHANGED <<asyVars, io>>
    BY <1>14 DEF bdwrite
  <2>2. f \in SUBSET Flag
    BY <1>11, <1>13, <2>1 DEF Flag
  <2> HIDE DEF f
  <2>3. TypeOK'
    BY <1>1, <1>11, <1>13, <2>1, <2>2, BrelseType DEF TypeOK
  <2>4. QED BY <1>11, <1>13, <2>1, <2>2, <2>3, BrelseStep DEF Inv
<1>15. ASSUME Store(p), NEW f \in {flags[mine[p]], flags[mine[p]] \cup {"AGE"}},
              SyncWrite(p, f)
       PROVE  Inv'
  <2> DEFINE b == mine[p]
             g == f \ {"READ", "DONE", "ERROR", "DELWRI"}
  <2>1. /\ flags' = [flags EXCEPT ![b] = g] /\ io' = io \cup {b}
        /\ arg' = [arg EXCEPT ![p].k = "write"]
        /\ pc' = [pc EXCEPT ![p] = "iowait"] /\ cpu' = p
        /\ UNCHANGED <<freelist, flwanted, asyVars, wchan, mine>>
    BY <1>15 DEF SyncWrite, Go
  <2>2. /\ b \in Buf /\ b # NoBuf /\ g \in SUBSET Flag /\ "BUSY" \in g
        /\ "ASYNC" \notin g /\ "DONE" \notin g /\ "BUSY" \in flags[b]
    BY <1>11, <1>13, <1>15 DEF Flag
  <2>3. arg' \in [Proc -> Frame]
    BY <1>1, <2>1, FrameLemma
  <2> HIDE DEF g
  <2>4. TypeOK'
    BY <1>1, <1>13, <1>15, <2>1, <2>2, <2>3 DEF TypeOK, PC
  <2>5. Available'
    BY <1>1, <2>1, <2>2 DEF Inv, Available
  <2>6. Kept'
    BY <1>1, <2>1, <2>2 DEF Inv, Kept
  <2>7. Frames'
    BY <1>1, <2>1, <2>2 DEF Inv, Frames, Kept
  <2>8. QED BY <2>4, <2>5, <2>6, <2>7 DEF Inv
<1>16. CASE bwrite(p)
  BY <1>15, <1>16 DEF bwrite
<1>17. CASE bawrite(p)
  <2>1. CASE Len(freelist) > BawFree
    <3> DEFINE b == mine[p]
               g == (flags[b] \ {"READ", "DONE", "ERROR", "DELWRI"})
                       \cup {"AGE", "ASYNC"}
    <3>1. /\ flags' = [flags EXCEPT ![b] = g] /\ io' = io \cup {b}
          /\ arg' = [arg EXCEPT ![p].ret = "user"]
          /\ mine' = [mine EXCEPT ![p] = NoBuf]
          /\ pc' = [pc EXCEPT ![p] = "bwtail"] /\ cpu' = p
          /\ UNCHANGED <<freelist, flwanted, asyVars, wchan>>
          /\ Store(p)
      BY <1>17, <2>1 DEF bawrite, Go
    <3>2. /\ b \in Buf /\ b # NoBuf /\ g \in SUBSET Flag /\ "BUSY" \in g
          /\ "ASYNC" \in g /\ "DONE" \notin g /\ "BUSY" \in flags[b]
      BY <1>11, <1>13, <3>1 DEF Flag
    <3>3. arg' \in [Proc -> Frame]
      BY <1>1, <3>1, FrameLemma
    <3>4. \A q \in Proc : arg'[q].k = arg[q].k /\ (q # p => arg'[q] = arg[q])
      BY <1>1, <3>1 DEF Frame
    <3> HIDE DEF g
    <3>5. TypeOK'
      BY <1>1, <1>13, <3>1, <3>2, <3>3 DEF TypeOK, PC
    <3>6. Available'
      BY <1>1, <3>1, <3>2 DEF Inv, Available
    <3>7. Kept'
      BY <1>1, <3>1, <3>2, ConstAssumption DEF Inv, Kept
    <3>8. Frames'
      BY <1>1, <1>13, <3>1, <3>2, <3>4 DEF Inv, Frames, Kept
    <3>9. QED BY <3>5, <3>6, <3>7, <3>8 DEF Inv
  <2>2. CASE ~(Len(freelist) > BawFree)
    BY <1>15, <1>17, <2>2 DEF bawrite
  <2>3. QED BY <2>1, <2>2
<1>18. CASE Bwtail(p)
  <2>1. pc[p] = "bwtail" /\ (arg[p].k # "ra" => mine[p] = NoBuf)
        /\ (arg[p].k = "ra" => arg[p].ret = "getblk")
        /\ arg[p].ret \in {"user", "getblk", "bflush", "bdflush"}
    BY <1>1, <1>18 DEF Bwtail, At, Inv, Frames, Frame
  <2>2. /\ [arg EXCEPT ![p].ret = "user"] \in [Proc -> Frame]
        /\ [arg EXCEPT ![p].ret = "user"][p].k = arg[p].k
    <3>1. [arg EXCEPT ![p].ret = "user"] \in [Proc -> Frame]
      BY <1>1, FrameLemma
    <3>2. QED BY <1>1, <3>1 DEF Frame
  <2>3. basyncnt' \in Int
    BY <1>1, <1>18 DEF Bwtail, TypeOK
  <2>4. TypeOK'
    BY <1>1, <1>2, <1>18, <2>1, <2>2, <2>3 DEF Bwtail, Return, Go, TypeOK, PC
  <2>5. QED
    BY <1>1, <1>2, <1>18, <2>1, <2>2, <2>4, QuietStep DEF Bwtail, Return, Go
<1>19. CASE BflushWrite(p)
  <2>1. PICK i \in DOMAIN freelist : AsyncWrite(p, freelist[i], "bflush")
    BY <1>19 DEF BflushWrite, Delayed
  <2>2. freelist[i] \in Buf /\ OnList(freelist[i])
    BY <1>1 DEF OnList
  <2>3. QED BY <1>19, <2>1, <2>2, AsyncWriteStep DEF BflushWrite, At
<1>20. CASE BdflushWrite(p)
  <2>1. PICK i \in DOMAIN freelist : AsyncWrite(p, freelist[i], "bdflush")
    BY <1>20 DEF BdflushWrite, Delayed
  <2>2. freelist[i] \in Buf /\ OnList(freelist[i])
    BY <1>1 DEF OnList
  <2>3. QED BY <1>20, <2>1, <2>2, AsyncWriteStep DEF BdflushWrite, At
<1>21. ASSUME pc[p] \in {"bflush", "bdflush", "bdwait"}, Return(p, "user"),
              UNCHANGED <<bufVars, asyVars, disk, io, wchan, mine, histVars>>
       PROVE  Inv'
  <2>1. TypeOK'
    BY <1>1, <1>2, <1>21 DEF Return, TypeOK, PC
  <2>2. mine[p] = NoBuf
    BY <1>21 DEF Inv, Frames
  <2>3. QED BY <1>1, <1>2, <1>21, <2>1, <2>2, QuietStep DEF Return
<1>22. CASE BflushDone(p)
  BY <1>21, <1>22 DEF BflushDone, At
<1>23. CASE BdflushDone(p)
  BY <1>21, <1>23 DEF BdflushDone, At
<1>24. CASE BdwaitDone(p)
  BY <1>21, <1>24 DEF BdwaitDone, At
<1>25. CASE BdwaitSleep(p)
  <2>1. TypeOK'
    BY <1>1, <1>25 DEF TypeOK, BdwaitSleep, Sleep, Chan
  <2>2. QED BY <1>25, <2>1, QuietStep DEF BdwaitSleep
<1>26. CASE binval(p)
  <2>1. flags' \in [Buf -> SUBSET Flag]
    BY <1>1, <1>26 DEF binval, Flag
  <2>2. TypeOK'
    BY <1>1, <1>2, <1>26, <2>1 DEF binval, Return, TypeOK, PC
  <2>3. \A c \in Buf, g \in {"BUSY", "DONE", "ASYNC"} :
          g \in flags'[c] <=> g \in flags[c]
    BY <1>1, <1>26 DEF binval
  <2>4. /\ UNCHANGED <<freelist, io, mine>>
        /\ pc' = [pc EXCEPT ![p] = "user"] /\ arg' = [arg EXCEPT ![p] = NoFrame]
        /\ mine[p] = NoBuf
    BY <1>26 DEF binval, Return, At, Inv, Frames
  <2>5. Available' /\ Kept'
    BY <1>1, <2>3, <2>4 DEF Inv, Available, Kept
  <2>6. Frames'
    BY <1>1, <2>4 DEF Inv, Frames
  <2>7. QED BY <2>2, <2>5, <2>6 DEF Inv
<1>27. QED
  BY <1>3, <1>4, <1>5, <1>6, <1>7, <1>8, <1>9, <1>10, <1>12, <1>14, <1>16,
     <1>17, <1>18, <1>19, <1>20, <1>22, <1>23, <1>24, <1>25, <1>26 DEF Step

(* Only a buffer assigned to a block is a delayed write or is given to a   *)
(* device, and the readers name the blocks they want.                      *)
Assigned ==
  /\ \A b \in io : ident[b] \in Block
  /\ \A b \in Buf : "DELWRI" \in flags[b] => ident[b] \in Block
  /\ \A p \in Proc : /\ arg[p].k \in {"read", "main", "ra"} => arg[p].blk \in Block
                     /\ arg[p].k \in {"main", "ra"} => arg[p].ra \in Block

LEMMA InterruptInv ==
  ASSUME Inv, Assigned, NEW b \in Buf, Interrupt(b)
  PROVE  Inv' /\ Assigned'
<1>1. /\ flags \in [Buf -> SUBSET Flag] /\ freelist \in Seq(Buf)
      /\ mine \in [Proc -> Buf \cup {NoBuf}] /\ io \subseteq Buf /\ TypeOK
  BY DEF Inv, TypeOK
<1>2. PICK err \in BOOLEAN : IodoneAsync(b, err) \/ IodoneSync(b, err)
  BY DEF Interrupt
<1>3. doneFlags(b, err) \in SUBSET Flag
  BY <1>1 DEF doneFlags, Flag
<1>4. b \in io /\ Transfer(b, err) /\ UNCHANGED <<ident, cpu, pc, mine, arg, cur>>
      /\ io' = io \ {b}
  BY <1>2 DEF IodoneAsync, IodoneSync
<1>5. "BUSY" \in flags[b] /\ ~Holds(freelist, b) /\ Once(freelist)
  BY <1>4 DEF Inv, Kept, Available
<1>6. /\ data' \in [Buf -> Value] /\ disk' \in [Block -> Value]
      /\ failed' \in SUBSET Block
  <2>1. ident[b] \in Block
    BY <1>4 DEF Assigned
  <2>2. disk[ident[b]] \in Value /\ data[b] \in Value
    BY <1>1, <2>1 DEF TypeOK
  <2>3. data \in [Buf -> Value] /\ disk \in [Block -> Value] /\ failed \subseteq Block
    BY <1>1 DEF TypeOK
  <2>4. QED BY <1>4, <2>1, <2>2, <2>3 DEF Transfer
<1>7. Frames'
  BY <1>4 DEF Inv, Frames
<1>8. CASE IodoneAsync(b, err)
  <2> DEFINE f == doneFlags(b, err)
  <2>1. /\ flags' = [flags EXCEPT ![b] = brelseFlags(f)]
        /\ freelist' = brelseList(freelist, b, f)
        /\ "ASYNC" \in flags[b]
    BY <1>8 DEF IodoneAsync
  <2>2. brelseFlags(f) \in SUBSET Flag
    BY <1>3, BrelseFlagsLemma
  <2>3. {"BUSY", "ASYNC"} \cap brelseFlags(f) = {}
    BY DEF brelseFlags
  <2>4. /\ freelist' \in Seq(Buf) /\ Once(freelist')
        /\ \A c \in Buf : Holds(freelist', c) <=> Holds(freelist, c) \/ c = b
    BY <1>1, <1>5, <2>1, BrelseListLemma
  <2>5. "DELWRI" \in brelseFlags(f) => "DELWRI" \in flags[b]
    BY DEF brelseFlags, doneFlags
  <2> HIDE DEF f
  <2>6. wchan' \in [Proc -> Chan]
    BY <1>1, <1>8, AwakenLemma DEF IodoneAsync, TypeOK
  <2>7. basyncnt' \in Int
    BY <1>1, <1>8 DEF IodoneAsync, asyncDone, TypeOK
  <2>8. flwanted' \in BOOLEAN /\ basynwait' \in BOOLEAN
    BY <1>8 DEF IodoneAsync
  <2>9. TypeOK'
    BY <1>1, <1>4, <1>6, <2>1, <2>2, <2>4, <2>6, <2>7, <2>8 DEF TypeOK
  <2>10. Available'
    BY <1>1, <2>1, <2>3, <2>4 DEF Inv, Available
  <2>11. \A p \in Proc : mine[p] # b
    BY <1>4, <2>1 DEF Inv, Kept
  <2>12. Kept'
    BY <1>1, <1>4, <2>1, <2>3, <2>11 DEF Inv, Kept
  <2>13. Assigned'
    BY <1>1, <1>4, <2>1, <2>5 DEF Assigned
  <2>14. QED BY <1>7, <2>9, <2>10, <2>12, <2>13 DEF Inv
<1>9. CASE IodoneSync(b, err)
  <2> DEFINE f == doneFlags(b, err) \ {"WANTED"}
  <2>1. /\ flags' = [flags EXCEPT ![b] = f]
        /\ "ASYNC" \notin flags[b]
        /\ UNCHANGED <<freelist, flwanted, asyVars>>
    BY <1>9 DEF IodoneSync
  <2>2. /\ f \in SUBSET Flag /\ "BUSY" \in f /\ "ASYNC" \notin f
        /\ "DELWRI" \in f => "DELWRI" \in flags[b]
    BY <1>3, <1>5, <2>1 DEF doneFlags
  <2> HIDE DEF f
  <2>3. wchan' \in [Proc -> Chan]
    BY <1>1, <1>9, AwakenLemma DEF IodoneSync, TypeOK
  <2>4. TypeOK'
    BY <1>1, <1>4, <1>6, <2>1, <2>2, <2>3 DEF TypeOK, asyVars
  <2>5. Available'
    BY <1>1, <1>5, <2>1, <2>2 DEF Inv, Available
  <2>6. \E p \in Proc : mine[p] = b
    BY <1>4, <2>1 DEF Inv, Kept
  <2>7. Kept'
    BY <1>1, <1>4, <1>5, <2>1, <2>2, <2>6 DEF Inv, Kept
  <2>8. Assigned'
    BY <1>1, <1>4, <2>1, <2>2 DEF Assigned
  <2>9. QED BY <1>7, <2>4, <2>5, <2>7, <2>8 DEF Inv
<1>10. QED BY <1>2, <1>8, <1>9

LEMMA EnterAssigned ==
  ASSUME Inv, Assigned, NEW p \in Proc, Enter(p)
  PROVE  Assigned'
<1> DEFINE Good(a) == /\ a.k \in {"read", "main", "ra"} => a.blk \in Block
                      /\ a.k \in {"main", "ra"} => a.ra \in Block
<1>1. \E a : Good(a) /\ arg' = [arg EXCEPT ![p] = a]
  BY DEF Enter, StartBread, StartGetblk, StartGeteblk, StartBreada, StartBflush,
         StartBdwait, StartBdflush, StartClose, Start, NoFrame
<1>2. UNCHANGED <<io, flags, ident>>
  BY DEF Enter, StartBread, StartGetblk, StartGeteblk, StartBreada, StartBflush,
         StartBdwait, StartBdflush, StartClose, Start, bufVars
<1>3. arg \in [Proc -> Frame]
  BY DEF Inv, TypeOK
<1>4. QED BY <1>1, <1>2, <1>3 DEF Assigned

LEMMA StepAssigned ==
  ASSUME Inv, Assigned, NEW p \in Proc, Step(p)
  PROVE  Assigned'
<1> USE DEF bufVars, asyVars, histVars
<1>1. /\ flags \in [Buf -> SUBSET Flag] /\ arg \in [Proc -> Frame]
      /\ ident \in [Buf -> Block \cup {NoBlock}] /\ freelist \in Seq(Buf)
      /\ mine \in [Proc -> Buf \cup {NoBuf}] /\ io \subseteq Buf
  BY DEF Inv, TypeOK
<1>2. ASSUME NEW b \in Buf, "DELWRI" \in flags[b], NEW r, AsyncWrite(p, b, r)
      PROVE  Assigned'
  <2>1. /\ io' = io \cup {b} /\ ident' = ident
        /\ \A c \in Buf : "DELWRI" \in flags'[c] => "DELWRI" \in flags[c]
    BY <1>1, <1>2 DEF AsyncWrite
  <2>2. \A q \in Proc : /\ arg'[q].k = arg[q].k /\ arg'[q].blk = arg[q].blk
                        /\ arg'[q].ra = arg[q].ra
    BY <1>1, <1>2 DEF AsyncWrite, Frame
  <2>3. QED BY <1>1, <1>2, <2>1, <2>2 DEF Assigned
<1>3. ASSUME NEW b \in Buf, NEW f, NEW list, Got(p, b, f, list),
             \A c \in Buf : c # b => ident'[c] = ident[c],
             "DELWRI" \in f => ident'[b] \in Block,
             arg[p].k \in {"read", "main", "ra"} => ident'[b] \in Block,
             b \notin io
      PROVE  Assigned'
  <2>1. \A c \in io' : c \in io \/ (c = b /\ arg[p].k \in {"read", "main", "ra"})
    BY <1>3 DEF Got
  <2>2. \A c \in Buf : "DELWRI" \in flags'[c] =>
                         \/ c # b /\ "DELWRI" \in flags[c]
                         \/ c = b /\ "DELWRI" \in f
    BY <1>1, <1>3 DEF Got, brelseFlags
  <2>3. \/ arg' = arg
        \/ arg' = [arg EXCEPT ![p] = NoFrame]
        \/ /\ arg' = [arg EXCEPT ![p].k = "read", ![p].ra = NoBlock]
           /\ arg[p].k = "ra"
    BY <1>3 DEF Got, Return, BreadaEnd
  <2>4. \A q \in Proc :
          \/ arg'[q] = arg[q]
          \/ arg'[q].k = "own"
          \/ arg'[q].k = "read" /\ arg[q].k = "ra" /\ arg'[q].blk = arg[q].blk
    BY <1>1, <2>3 DEF NoFrame, Frame
  <2>5. QED BY <1>1, <1>3, <2>1, <2>2, <2>4 DEF Assigned
<1>4. CASE GetblkHit(p)
  <2>1. PICK b \in Match(Wanted(p)) :
          /\ "BUSY" \notin flags[b]
          /\ Got(p, b, flags[b] \cup {"BUSY"}, notavail(freelist, b))
          /\ ident' = ident
    BY <1>4 DEF GetblkHit
  <2>2. b \in Buf /\ ident[b] \in Block /\ b \notin io
    BY <1>1, <2>1 DEF Match, Inv, Kept
  <2>3. QED BY <1>3, <2>1, <2>2
<1>5. CASE GetblkTake(p)
  <2> DEFINE b == Head(freelist)
             f == IF Wanted(p) = NoBlock THEN {"BUSY", "AGE"} ELSE {"BUSY"}
  <2>1. /\ Got(p, b, f, Tail(freelist)) /\ freelist # <<>>
        /\ ident' = [ident EXCEPT ![b] = Wanted(p)]
    BY <1>5 DEF GetblkTake, TakeHead
  <2>2. b \in Buf /\ Holds(freelist, b)
    BY <1>1, <2>1, TailLemma
  <2>3. b \notin io
    BY <2>2 DEF Inv, Available, Kept
  <2>4. "DELWRI" \notin f
    OBVIOUS
  <2>5. arg[p].k \in {"read", "main", "ra"} => Wanted(p) \in Block
    BY DEF Assigned, Wanted
  <2> HIDE DEF b, f
  <2>6. ident'[b] = Wanted(p) /\ \A c \in Buf : c # b => ident'[c] = ident[c]
    BY <1>1, <2>1, <2>2
  <2>7. QED BY <1>3, <2>1, <2>2, <2>3, <2>4, <2>5, <2>6
<1>6. CASE GetblkDelwri(p)
  <2>1. Head(freelist) \in Buf
    BY <1>1, <1>6, TailLemma DEF GetblkDelwri
  <2>2. QED BY <1>2, <1>6, <2>1 DEF GetblkDelwri
<1>7. CASE BflushWrite(p)
  BY <1>1, <1>2, <1>7 DEF BflushWrite, Delayed
<1>8. CASE BdflushWrite(p)
  BY <1>1, <1>2, <1>8 DEF BdflushWrite, Delayed
<1>9. ASSUME UNCHANGED <<io, ident>>,
             \A c \in Buf : "DELWRI" \in flags'[c] => "DELWRI" \in flags[c],
             arg' \in {arg, [arg EXCEPT ![p] = NoFrame]}
      PROVE  Assigned'
  BY <1>1, <1>9 DEF Assigned, NoFrame
<1>10. CASE GetblkBusy(p)
  BY <1>1, <1>9, <1>10 DEF GetblkBusy
<1>11. CASE GetblkEmpty(p) \/ IowaitSleep(p) \/ BflushDone(p) \/ binval(p)
            \/ BdflushDone(p) \/ BdwaitSleep(p) \/ BdwaitDone(p)
  BY <1>1, <1>9, <1>11 DEF GetblkEmpty, IowaitSleep, BflushDone, binval,
     BdflushDone, BdwaitSleep, BdwaitDone, Return
<1>12. CASE Reada(p)
  <2>1. \/ arg' = [arg EXCEPT ![p].k = "ra"]
        \/ arg' = [arg EXCEPT ![p].k = "read", ![p].ra = NoBlock]
    BY <1>12 DEF Reada, BreadaEnd
  <2>2. arg[p].blk \in Block /\ arg[p].ra \in Block
    BY <1>12 DEF Reada, At, Inv, Frames, Assigned
  <2>3. \A q \in Proc :
          \/ arg'[q] = arg[q]
          \/ arg'[q].k = "ra" /\ arg'[q].blk \in Block /\ arg'[q].ra \in Block
          \/ arg'[q].k = "read" /\ arg'[q].blk \in Block
    <3>1. \A q \in Proc : q # p => arg'[q] = arg[q]
      BY <1>1, <2>1
    <3>2. \/ arg'[p] = [arg[p] EXCEPT !.k = "ra"]
          \/ arg'[p] = [arg[p] EXCEPT !.k = "read", !.ra = NoBlock]
      BY <1>1, <2>1
    <3>3. arg[p] \in Frame
      BY <1>1
    <3>4. CASE arg'[p] = [arg[p] EXCEPT !.k = "ra"]
      <4>1. arg'[p].k = "ra" /\ arg'[p].blk \in Block /\ arg'[p].ra \in Block
        BY <2>2, <3>3, <3>4 DEF Frame
      <4>2. QED BY <3>1, <4>1
    <3>5. CASE arg'[p] = [arg[p] EXCEPT !.k = "read", !.ra = NoBlock]
      <4>1. arg'[p].k = "read" /\ arg'[p].blk \in Block
        BY <2>2, <3>3, <3>5 DEF Frame
      <4>2. QED BY <3>1, <4>1
    <3>6. QED BY <3>2, <3>4, <3>5
  <2>4. QED BY <1>12, <2>3 DEF Reada, Assigned
<1>13. CASE IowaitDone(p) \/ Release(p)
  BY <1>1, <1>9, <1>13 DEF IowaitDone, Release, Brelse, Return, brelseFlags
<1>14. ASSUME Store(p)
       PROVE  ident[mine[p]] \in Block /\ ident' = ident /\ mine[p] \in Buf
  BY <1>1, <1>14 DEF Store, At, Inv, Frames
<1>15. CASE bdwrite(p)
  BY <1>1, <1>14, <1>15 DEF bdwrite, Brelse, Return, brelseFlags, Assigned, NoFrame
<1>16. ASSUME Store(p), io' = io \cup {mine[p]},
              \A c \in Buf : "DELWRI" \in flags'[c] => "DELWRI" \in flags[c],
              \/ arg' = [arg EXCEPT ![p].k = "write"]
              \/ arg' = [arg EXCEPT ![p].ret = "user"]
       PROVE  Assigned'
  <2>1. \A q \in Proc : /\ arg'[q].k = arg[q].k \/ arg'[q].k = "write"
                        /\ arg'[q].blk = arg[q].blk /\ arg'[q].ra = arg[q].ra
    <3>1. \A q \in Proc : q # p => arg'[q] = arg[q]
      BY <1>1, <1>16
    <3>2. \/ arg'[p] = [arg[p] EXCEPT !.k = "write"]
          \/ arg'[p] = [arg[p] EXCEPT !.ret = "user"]
      BY <1>1, <1>16
    <3>3. arg[p] \in Frame
      BY <1>1
    <3>4. QED BY <3>1, <3>2, <3>3 DEF Frame
  <2>2. QED BY <1>1, <1>14, <1>16, <2>1 DEF Assigned
<1>17. CASE bwrite(p) \/ bawrite(p)
  <2>1. Store(p) /\ io' = io \cup {mine[p]}
    BY <1>17 DEF bwrite, bawrite, SyncWrite
  <2>2. \A c \in Buf : "DELWRI" \in flags'[c] => "DELWRI" \in flags[c]
    BY <1>1, <1>17 DEF bwrite, bawrite, SyncWrite
  <2>3. \/ arg' = [arg EXCEPT ![p].k = "write"]
        \/ arg' = [arg EXCEPT ![p].ret = "user"]
    BY <1>17 DEF bwrite, bawrite, SyncWrite
  <2>4. QED BY <1>16, <2>1, <2>2, <2>3
<1>18. CASE Bwtail(p)
  <2>1. \A q \in Proc :
          \/ arg'[q].k = "own"
          \/ /\ arg'[q].k = arg[q].k /\ arg'[q].blk = arg[q].blk
             /\ arg'[q].ra = arg[q].ra
    BY <1>1, <1>18 DEF Bwtail, Return, NoFrame, Frame
  <2>2. QED BY <1>18, <2>1 DEF Bwtail, Assigned
<1>19. QED
  BY <1>4, <1>5, <1>6, <1>7, <1>8, <1>10, <1>11, <1>12, <1>13, <1>15, <1>17,
     <1>18 DEF Step

LEMMA InvHolds == Spec => [](Inv /\ Assigned)
<1>1. Init => Inv /\ Assigned
  BY InitInv DEF Init, Assigned, NoFrame
<1>2. Inv /\ Assigned /\ [Next]_vars => (Inv /\ Assigned)'
  <2> SUFFICES ASSUME Inv, Assigned, [Next]_vars
               PROVE  Inv' /\ Assigned'
    OBVIOUS
  <2>1. ASSUME NEW p \in Proc, Enter(p)
        PROVE  Inv' /\ Assigned'
    BY <2>1, EnterInv, EnterAssigned
  <2>2. ASSUME NEW p \in Proc, Step(p)
        PROVE  Inv' /\ Assigned'
    BY <2>2, StepInv, StepAssigned
  <2>3. ASSUME NEW b \in Buf, Interrupt(b)
        PROVE  Inv' /\ Assigned'
    BY <2>3, InterruptInv
  <2>4. CASE UNCHANGED vars
    <3>1. UNCHANGED <<flags, ident, data, freelist, flwanted, basyncnt,
                      basynwait, disk, io, cpu, wchan, pc, mine, arg, cur, failed>>
      BY <2>4 DEF vars, bufVars, asyVars, procVars, histVars
    <3>2. TypeOK'
      BY <3>1 DEF Inv, TypeOK
    <3>3. Available' /\ Kept' /\ Frames' /\ Assigned'
      BY <3>1 DEF Inv, Available, Kept, Frames, Assigned
    <3>4. QED BY <3>2, <3>3 DEF Inv
  <2>5. QED BY <2>1, <2>2, <2>3, <2>4 DEF Next
<1>3. QED BY <1>1, <1>2, PTL DEF Spec

(* The state of the cache keeps its type: the free list stays a list of    *)
(* buffers through every getblk, brelse and iodone.                        *)
THEOREM TypeCorrect == Spec => []TypeOK
<1>1. Inv => TypeOK
  BY DEF Inv
<1>2. QED BY InvHolds, <1>1, PTL

(* A buffer is on the available list, once, if and only if it is not busy. *)
THEOREM AvailabilityCorrect == Spec => []AvailableIffNotBusy
<1>1. Inv => AvailableIffNotBusy
  BY DEF Inv, Available, AvailableIffNotBusy, Once, Holds, OnList
<1>2. QED BY InvHolds, <1>1, PTL

(* A busy buffer has one keeper, a process or an asynchronous request. *)
THEOREM KeeperCorrect == Spec => []OneKeeper
<1>1. Inv => OneKeeper
  <2> SUFFICES ASSUME Inv, NEW b \in Buf
               PROVE  LET holders == {p \in Proc : mine[p] = b}
                      IN  /\ \A p, q \in holders : p = q
                          /\ "BUSY" \in flags[b] <=> holders # {} \/ b \in io
                          /\ b \in io => ("ASYNC" \in flags[b] <=> holders = {})
    BY DEF OneKeeper
  <2>1. b # NoBuf
    BY ConstAssumption
  <2>2. QED BY <2>1 DEF Inv, Kept
<1>2. QED BY InvHolds, <1>1, PTL

-----------------------------------------------------------------------------
(* A block is cached once.  Only the reassignment of the oldest free       *)
(* buffer changes an identity or revives a stale buffer, and it happens    *)
(* only when the search of the hash chain, made without giving up the      *)
(* processor, has just failed.                                             *)

LEMMA StaleStays ==
  ASSUME Inv, Next
  PROVE  \/ \E p \in Proc : GetblkTake(p)
         \/ /\ ident' = ident
            /\ \A b \in Buf : "STALE" \in flags[b] => "STALE" \in flags'[b]
<1> USE DEF bufVars
<1>1. flags \in [Buf -> SUBSET Flag]
  BY DEF Inv, TypeOK
<1>2. \A f \in SUBSET Flag : "STALE" \in f => "STALE" \in brelseFlags(f)
  BY DEF brelseFlags
<1>3. ASSUME NEW p \in Proc, Enter(p)
      PROVE  UNCHANGED <<flags, ident>>
  BY <1>3 DEF Enter, StartBread, StartGetblk, StartGeteblk, StartBreada,
     StartBflush, StartBdwait, StartBdflush, StartClose, Start
<1>4. ASSUME NEW b \in Buf, Interrupt(b)
      PROVE  /\ ident' = ident
             /\ \A c \in Buf : "STALE" \in flags[c] => "STALE" \in flags'[c]
  BY <1>1, <1>4 DEF Interrupt, IodoneAsync, IodoneSync, doneFlags, brelseFlags
<1>5. ASSUME NEW p \in Proc, Step(p), ~GetblkTake(p)
      PROVE  /\ ident' = ident
             /\ \A c \in Buf : "STALE" \in flags[c] => "STALE" \in flags'[c]
  <2>1. CASE GetblkBusy(p) \/ GetblkEmpty(p) \/ Reada(p) \/ IowaitSleep(p)
             \/ Bwtail(p) \/ BflushDone(p) \/ BdflushDone(p) \/ BdwaitSleep(p)
             \/ BdwaitDone(p) \/ binval(p)
    BY <1>1, <2>1 DEF GetblkBusy, GetblkEmpty, Reada, IowaitSleep, Bwtail,
       BflushDone, BdflushDone, BdwaitSleep, BdwaitDone, binval
  <2>2. CASE GetblkDelwri(p) \/ BflushWrite(p) \/ BdflushWrite(p)
    BY <1>1, <2>2 DEF GetblkDelwri, BflushWrite, BdflushWrite, AsyncWrite
  <2>3. CASE GetblkHit(p)
    <3>1. PICK b \in Buf :
            Got(p, b, flags[b] \cup {"BUSY"}, notavail(freelist, b))
      BY <2>3 DEF GetblkHit, Match
    <3>2. \E g : /\ flags' = [flags EXCEPT ![b] = g]
                 /\ "STALE" \in flags[b] => "STALE" \in g
      BY <3>1 DEF Got, brelseFlags
    <3>3. QED BY <1>1, <2>3, <3>2 DEF GetblkHit
  <2>4. CASE IowaitDone(p) \/ Release(p) \/ bdwrite(p)
    BY <1>1, <2>4 DEF IowaitDone, Release, bdwrite, Store, Brelse, brelseFlags
  <2>5. CASE bwrite(p) \/ bawrite(p)
    BY <1>1, <2>5 DEF bwrite, bawrite, SyncWrite, Store
  <2>6. QED BY <1>5, <2>1, <2>2, <2>3, <2>4, <2>5 DEF Step
<1>6. QED BY <1>3, <1>4, <1>5 DEF Next

(* Two processes that miss on the same block, sleep for a free buffer or   *)
(* for a delayed write to be started, and come back never assign two       *)
(* buffers to it.                                                          *)
THEOREM CacheUnique == Spec => []OneBufferPerBlock
<1>1. Init => OneBufferPerBlock
  BY DEF Init, OneBufferPerBlock
<1>2. Inv /\ OneBufferPerBlock /\ [Next]_vars => OneBufferPerBlock'
  <2> SUFFICES ASSUME Inv, OneBufferPerBlock, [Next]_vars
               PROVE  OneBufferPerBlock'
    OBVIOUS
  <2>1. ASSUME ident' = ident,
               \A b \in Buf : "STALE" \in flags[b] => "STALE" \in flags'[b]
        PROVE  OneBufferPerBlock'
    BY <2>1 DEF OneBufferPerBlock
  <2>2. ASSUME NEW p \in Proc, GetblkTake(p)
        PROVE  OneBufferPerBlock'
    <3> DEFINE h == Head(freelist)
    <3>1. /\ flags \in [Buf -> SUBSET Flag] /\ freelist \in Seq(Buf)
          /\ ident \in [Buf -> Block \cup {NoBlock}]
      BY DEF Inv, TypeOK
    <3>2. h \in Buf /\ ident' = [ident EXCEPT ![h] = Wanted(p)]
      BY <2>2, <3>1, TailLemma DEF GetblkTake, TakeHead
    <3>3. \E g : flags' = [flags EXCEPT ![h] = g]
      BY <2>2 DEF GetblkTake, TakeHead, Got
    <3>4. ~incore(Wanted(p))
      BY <2>2 DEF GetblkTake
    <3> HIDE DEF h
    <3>5. \A c \in Buf : c # h => flags'[c] = flags[c] /\ ident'[c] = ident[c]
      BY <3>1, <3>2, <3>3
    <3>6. ident'[h] = Wanted(p)
      BY <3>1, <3>2
    <3>7. \A c \in Buf : /\ Wanted(p) # NoBlock /\ ident[c] = Wanted(p)
                         => "STALE" \in flags[c]
      BY <3>4 DEF incore, Match
    <3>8. QED BY <3>2, <3>5, <3>6, <3>7 DEF OneBufferPerBlock
  <2>3. CASE UNCHANGED vars
    BY <2>1, <2>3 DEF vars, bufVars
  <2>4. QED BY <2>1, <2>2, <2>3, StaleStays
<1>3. QED BY <1>1, <1>2, InvHolds, PTL DEF Spec

-----------------------------------------------------------------------------
(* No lost wakeup. *)

(* SleepersAreWanted for one process. *)
IsWanted(p) ==
  /\ wchan[p] \in Buf /\ pc[p] = "getblk" =>
       {"BUSY", "WANTED"} \subseteq flags[wchan[p]]
  /\ pc[p] = "iowait" /\ wchan[p] # NoChan =>
       wchan[p] = mine[p] /\ mine[p] \in io
  /\ wchan[p] = "bfreelist" => flwanted
  /\ wchan[p] = "basyncnt" => basynwait

Woken(c) == \A q \in Proc : wchan[q] = c => wchan'[q] = NoChan

(* A step that takes away what somebody sleeps for wakes the sleepers. *)
WakesSleepers ==
  /\ \A b \in Buf : {"BUSY", "WANTED"} \subseteq flags[b] =>
       {"BUSY", "WANTED"} \subseteq flags'[b] \/ Woken(b)
  /\ \A q \in Proc : wchan[q] = mine[q] /\ mine[q] \in io =>
       mine[q] \in io' \/ wchan'[q] = NoChan
  /\ flwanted => flwanted' \/ Woken("bfreelist")
  /\ basynwait => basynwait' \/ Woken("basyncnt")

LEMMA ChanDistinct ==
  /\ NoChan \notin Buf /\ "bfreelist" \notin Buf /\ "basyncnt" \notin Buf
  /\ NoChan # "bfreelist" /\ NoChan # "basyncnt" /\ "bfreelist" # "basyncnt"
BY ConstAssumption DEF NoChan

LEMMA OtherSleeper ==
  ASSUME NEW q \in Proc, IsWanted(q), WakesSleepers,
         pc'[q] = pc[q], mine'[q] = mine[q], wchan'[q] \in {wchan[q], NoChan}
  PROVE  IsWanted(q)'
<1>1. CASE wchan'[q] = NoChan
  BY <1>1, ChanDistinct DEF IsWanted
<1>2. CASE wchan'[q] = wchan[q] /\ wchan[q] # NoChan
  <2>1. \A c : wchan[q] = c => ~Woken(c)
    BY <1>2 DEF Woken
  <2>2. wchan'[q] \in Buf /\ pc'[q] = "getblk" =>
          {"BUSY", "WANTED"} \subseteq flags'[wchan'[q]]
    BY <1>2, <2>1 DEF IsWanted, WakesSleepers
  <2>3. pc'[q] = "iowait" /\ wchan'[q] # NoChan =>
          wchan'[q] = mine'[q] /\ mine'[q] \in io'
    BY <1>2, <2>1 DEF IsWanted, WakesSleepers
  <2>4. /\ wchan'[q] = "bfreelist" => flwanted'
        /\ wchan'[q] = "basyncnt" => basynwait'
    BY <1>2, <2>1 DEF IsWanted, WakesSleepers
  <2>5. QED BY <2>2, <2>3, <2>4 DEF IsWanted
<1>3. QED BY <1>1, <1>2

(* A process that is awake after a step satisfies IsWanted. *)
LEMMA AwakeWanted ==
  ASSUME NEW q \in Proc, wchan'[q] = NoChan
  PROVE  IsWanted(q)'
BY ChanDistinct DEF IsWanted

(* brelse wakes whoever waits for the buffer or for any buffer. *)
LEMMA BrelseWakes ==
  ASSUME Inv, NEW b \in Buf, NEW f, "WANTED" \in flags[b] => "WANTED" \in f,
         NEW g, flags' = [flags EXCEPT ![b] = g],
         NEW S, Awaken(brelseWake(b, f) \cup S)
  PROVE  /\ \A c \in Buf : {"BUSY", "WANTED"} \subseteq flags[c] =>
               {"BUSY", "WANTED"} \subseteq flags'[c] \/ Woken(c)
         /\ flwanted => Woken("bfreelist")
<1>1. flags \in [Buf -> SUBSET Flag]
  BY DEF Inv, TypeOK
<1>2. "WANTED" \in flags[b] => b \in brelseWake(b, f)
  BY DEF brelseWake
<1>3. flwanted => "bfreelist" \in brelseWake(b, f)
  BY DEF brelseWake
<1>4. \A c \in brelseWake(b, f) : Woken(c)
  BY DEF Awaken, Woken
<1>5. \A c \in Buf : c # b => flags'[c] = flags[c]
  BY <1>1
<1>6. QED BY <1>2, <1>3, <1>4, <1>5

(* p, awake, takes a step; the others only get woken. *)
LEMMA ActorStep ==
  ASSUME Inv, SleepersAreWanted, NEW p \in Proc, WakesSleepers, IsWanted(p)',
         \A q \in Proc : q # p => /\ pc'[q] = pc[q] /\ mine'[q] = mine[q]
                                 /\ wchan'[q] \in {wchan[q], NoChan}
  PROVE  SleepersAreWanted'
<1>1. \A q \in Proc : IsWanted(q)
  BY DEF SleepersAreWanted, IsWanted
<1>2. \A q \in Proc : IsWanted(q)'
  BY <1>1, OtherSleeper
<1>3. QED BY <1>2 DEF SleepersAreWanted, IsWanted

(* Steps that only add to what is wanted, and leave p awake. *)
LEMMA GrowStep ==
  ASSUME Inv, SleepersAreWanted, NEW p \in Proc, wchan[p] = NoChan,
         \A b \in Buf : {"BUSY", "WANTED"} \subseteq flags[b] =>
           {"BUSY", "WANTED"} \subseteq flags'[b],
         io \subseteq io', flwanted => flwanted', UNCHANGED <<basynwait, wchan>>,
         \A q \in Proc : q # p => pc'[q] = pc[q] /\ mine'[q] = mine[q]
  PROVE  SleepersAreWanted'
<1>1. WakesSleepers
  BY DEF WakesSleepers
<1>2. IsWanted(p)'
  BY AwakeWanted
<1>3. QED BY <1>1, <1>2, ActorStep

LEMMA EnterWanted ==
  ASSUME Inv, SleepersAreWanted, NEW p \in Proc, Enter(p)
  PROVE  SleepersAreWanted'
<1>1. PICK frame, l : Start(p, frame, l)
  BY DEF Enter, StartBread, StartGetblk, StartGeteblk, StartBreada, StartBflush,
         StartBdwait, StartBdflush, StartClose
<1>2. pc \in [Proc -> PC]
  BY DEF Inv, TypeOK
<1>3. QED BY <1>1, <1>2, GrowStep DEF Start, At, Runs, Go, bufVars, asyVars

(* The buffer a process has asked for and not yet been given is with the   *)
(* device or done.                                                         *)
Pending ==
  \A p \in Proc : mine[p] # NoBuf /\ pc[p] # "hold" =>
    mine[p] \in io \/ "DONE" \in flags[mine[p]]

LEMMA NextPending ==
  ASSUME Inv, Pending, Next
  PROVE  Pending'
<1> USE DEF bufVars, asyVars, histVars
<1>1. /\ flags \in [Buf -> SUBSET Flag] /\ pc \in [Proc -> PC]
      /\ mine \in [Proc -> Buf \cup {NoBuf}] /\ freelist \in Seq(Buf)
      /\ io \subseteq Buf
  BY DEF Inv, TypeOK
<1>2. CASE \E b \in Buf : Interrupt(b)
  <2>1. PICK b \in Buf, err \in BOOLEAN : IodoneAsync(b, err) \/ IodoneSync(b, err)
    BY <1>2 DEF Interrupt
  <2>2. /\ UNCHANGED <<mine, pc>> /\ io' = io \ {b}
        /\ \A c \in Buf : c # b => flags'[c] = flags[c]
        /\ "DONE" \in flags'[b]
    BY <1>1, <2>1 DEF IodoneAsync, IodoneSync, doneFlags, brelseFlags
  <2>3. QED BY <1>1, <2>2 DEF Pending
<1>3. ASSUME NEW p \in Proc, Enter(p)
      PROVE  Pending'
  <2>1. PICK frame, l : Start(p, frame, l)
    BY <1>3 DEF Enter, StartBread, StartGetblk, StartGeteblk, StartBreada,
       StartBflush, StartBdwait, StartBdflush, StartClose
  <2>2. QED BY <1>1, <2>1 DEF Pending, Start, Go, At
<1>4. ASSUME NEW p \in Proc, Step(p)
      PROVE  Pending'
  (* p changes only its own buffer or one that is not busy. *)
  <2>1. ASSUME \A q \in Proc : q # p => pc'[q] = pc[q] /\ mine'[q] = mine[q],
               io \subseteq io',
               \A b \in Buf : \/ flags'[b] = flags[b] \/ b = mine[p]
                              \/ "BUSY" \notin flags[b],
               \/ mine'[p] = NoBuf
               \/ pc'[p] = "hold"
               \/ mine'[p] \in io'
               \/ "DONE" \in flags'[mine'[p]]
        PROVE  Pending'
    <3>1. ASSUME NEW q \in Proc, q # p, mine'[q] # NoBuf, pc'[q] # "hold"
          PROVE  mine'[q] \in io' \/ "DONE" \in flags'[mine'[q]]
      <4>1. mine[q] \in Buf /\ mine[q] # NoBuf /\ "BUSY" \in flags[mine[q]]
            /\ mine[q] # mine[p]
        BY <1>1, <2>1, <3>1 DEF Inv, Kept
      <4>2. QED BY <2>1, <3>1, <4>1 DEF Pending
    <3>2. QED BY <2>1, <3>1 DEF Pending
  <2>2. ASSUME UNCHANGED <<io, mine>>,
               \A q \in Proc : q # p => pc'[q] = pc[q],
               \A b \in Buf : "DONE" \in flags[b] => "DONE" \in flags'[b],
               pc[p] # "hold"
        PROVE  Pending'
    BY <1>1, <2>2 DEF Pending
  <2>3. CASE GetblkBusy(p) \/ GetblkEmpty(p) \/ Reada(p) \/ IowaitSleep(p)
             \/ Bwtail(p) \/ BflushDone(p) \/ BdflushDone(p) \/ BdwaitSleep(p)
             \/ BdwaitDone(p) \/ binval(p)
    BY <1>1, <2>2, <2>3 DEF GetblkBusy, GetblkEmpty, Reada, BreadaEnd, IowaitSleep,
       Bwtail, BflushDone, BdflushDone, BdwaitSleep, BdwaitDone, binval, Go, Return,
       At
  <2>4. ASSUME NEW b \in Buf, OnList(b), NEW r, AsyncWrite(p, b, r), pc[p] # "hold"
        PROVE  Pending'
    <3>1. "BUSY" \notin flags[b]
      BY <2>4 DEF Inv, Available, OnList, Holds
    <3>2. mine[p] = NoBuf \/ mine[p] \in io \/ "DONE" \in flags[mine[p]]
      BY <2>4 DEF Pending
    <3>3. mine[p] # NoBuf => mine[p] \in Buf /\ mine[p] # b
      BY <1>1, <3>1 DEF Inv, Kept
    <3>4. /\ UNCHANGED mine /\ io' = io \cup {b}
          /\ \A c \in Buf : c # b => flags'[c] = flags[c]
          /\ \A q \in Proc : q # p => pc'[q] = pc[q]
      BY <1>1, <2>4 DEF AsyncWrite, Go
    <3>5. mine'[p] = NoBuf \/ mine'[p] \in io' \/ "DONE" \in flags'[mine'[p]]
      BY <3>2, <3>3, <3>4
    <3>6. \A c \in Buf : flags'[c] = flags[c] \/ "BUSY" \notin flags[c]
      BY <3>1, <3>4
    <3>7. QED BY <2>1, <3>4, <3>5, <3>6
  <2>5. CASE GetblkDelwri(p)
    BY <1>1, <2>4, <2>5, TailLemma DEF GetblkDelwri, At, OnList, Holds
  <2>6. CASE BflushWrite(p)
    BY <1>1, <2>4, <2>6 DEF BflushWrite, Delayed, OnList, At
  <2>7. CASE BdflushWrite(p)
    BY <1>1, <2>4, <2>7 DEF BdflushWrite, Delayed, OnList, At
  <2>8. ASSUME NEW b \in Buf, NEW f, NEW list, "BUSY" \notin flags[b],
               Got(p, b, f, list), pc[p] = "getblk"
        PROVE  Pending'
    <3>1. /\ \A c \in Buf : c # b => flags'[c] = flags[c]
          /\ io \subseteq io'
          /\ \A q \in Proc : q # p => pc'[q] = pc[q] /\ mine'[q] = mine[q]
      BY <1>1, <2>8 DEF Got, Go, Return, BreadaEnd
    <3>2. CASE arg[p].k # "ra"
      <4>1. mine'[p] = b
        BY <1>1, <2>8, <3>2 DEF Got
      <4>2. pc'[p] = "hold" \/ b \in io' \/ "DONE" \in flags'[b]
        BY <1>1, <2>8, <3>2 DEF Got, Return
      <4>3. \A c \in Buf : flags'[c] = flags[c] \/ "BUSY" \notin flags[c]
        BY <2>8, <3>1
      <4>4. QED BY <2>1, <3>1, <4>1, <4>2, <4>3
    <3>3. CASE arg[p].k = "ra"
      <4>1. mine' = mine
        BY <2>8, <3>3 DEF Got
      <4>2. mine[p] = NoBuf \/ mine[p] \in io \/ "DONE" \in flags[mine[p]]
        BY <2>8 DEF Pending
      <4>3. mine[p] # NoBuf => mine[p] \in Buf /\ mine[p] # b
        BY <1>1, <2>8 DEF Inv, Kept
      <4>4. mine'[p] = NoBuf \/ mine'[p] \in io' \/ "DONE" \in flags'[mine'[p]]
        BY <3>1, <4>1, <4>2, <4>3
      <4>5. \A c \in Buf : flags'[c] = flags[c] \/ "BUSY" \notin flags[c]
        BY <2>8, <3>1
      <4>6. QED BY <2>1, <3>1, <4>4, <4>5
    <3>4. QED BY <3>2, <3>3
  <2>9. CASE GetblkHit(p)
    BY <2>8, <2>9 DEF GetblkHit, Match, At
  <2>10. CASE GetblkTake(p)
    <3>1. /\ freelist # <<>> /\ pc[p] = "getblk"
          /\ \E f : Got(p, Head(freelist), f, Tail(freelist))
      BY <2>10 DEF GetblkTake, TakeHead, At
    <3>2. Head(freelist) \in Buf /\ "BUSY" \notin flags[Head(freelist)]
      BY <1>1, <3>1, TailLemma DEF Inv, Available
    <3>3. QED BY <2>8, <3>1, <3>2
  <2>11. ASSUME NEW f, Brelse(p, f), io' = io
         PROVE  Pending'
    <3>1. /\ mine'[p] = NoBuf
          /\ \A q \in Proc : q # p => pc'[q] = pc[q] /\ mine'[q] = mine[q]
          /\ \A b \in Buf : b # mine[p] => flags'[b] = flags[b]
      BY <1>1, <2>11 DEF Brelse, Return
    <3>2. \A b \in Buf : flags'[b] = flags[b] \/ b = mine[p]
      BY <3>1
    <3>3. QED BY <2>1, <2>11, <3>1, <3>2
  <2>12. CASE IowaitDone(p)
    <3>1. CASE arg[p].k = "write"
      BY <2>11, <2>12, <3>1 DEF IowaitDone
    <3>2. CASE arg[p].k # "write"
      BY <1>1, <2>2, <2>12, <3>2 DEF IowaitDone, Return, At
    <3>3. QED BY <3>1, <3>2
  <2>13. CASE Release(p) \/ bdwrite(p)
    BY <2>11, <2>13 DEF Release, bdwrite
  <2>14. CASE bwrite(p) \/ bawrite(p)
    <3>1. /\ mine'[p] = NoBuf \/ mine'[p] \in io'
          /\ io \subseteq io'
          /\ \A q \in Proc : q # p => pc'[q] = pc[q] /\ mine'[q] = mine[q]
          /\ \A b \in Buf : b # mine[p] => flags'[b] = flags[b]
      BY <1>1, <2>14 DEF bwrite, bawrite, SyncWrite, Go
    <3>2. \A b \in Buf : flags'[b] = flags[b] \/ b = mine[p]
      BY <3>1
    <3>3. QED BY <2>1, <3>1, <3>2
  <2>15. QED
    BY <1>4, <2>3, <2>5, <2>6, <2>7, <2>9, <2>10, <2>12, <2>13, <2>14 DEF Step
<1>5. QED BY <1>2, <1>3, <1>4 DEF Next

LEMMA StepWanted ==
  ASSUME Inv, Pending, SleepersAreWanted, NEW p \in Proc, Step(p)
  PROVE  SleepersAreWanted'
<1> USE DEF bufVars, asyVars, histVars
<1>1. /\ flags \in [Buf -> SUBSET Flag] /\ pc \in [Proc -> PC]
      /\ mine \in [Proc -> Buf \cup {NoBuf}] /\ freelist \in Seq(Buf)
      /\ wchan \in [Proc -> Chan] /\ io \subseteq Buf
  BY DEF Inv, TypeOK
<1>2. wchan[p] = NoChan
  BY DEF Step, GetblkBusy, GetblkEmpty, GetblkDelwri, GetblkHit, GetblkTake, Reada,
     IowaitSleep, IowaitDone, Release, bdwrite, bwrite, bawrite, Store, Bwtail,
     BflushWrite, BflushDone, binval, BdflushWrite, BdflushDone, BdwaitSleep,
     BdwaitDone, At, Runs
<1>3. CASE GetblkBusy(p)
  <2>1. PICK b \in Buf : /\ "BUSY" \in flags[b]
                         /\ flags' = [flags EXCEPT ![b] = @ \cup {"WANTED"}]
                         /\ wchan' = [wchan EXCEPT ![p] = b]
    BY <1>3 DEF GetblkBusy, Match, Sleep
  <2>2. UNCHANGED <<io, pc, mine, flwanted, basynwait>> /\ pc[p] = "getblk"
    BY <1>3 DEF GetblkBusy, At
  <2>3. WakesSleepers
    BY <1>1, <2>1, <2>2 DEF WakesSleepers
  <2>4. IsWanted(p)'
    BY <1>1, <2>1, <2>2, ChanDistinct DEF IsWanted
  <2>5. QED BY <1>1, <2>1, <2>2, <2>3, <2>4, ActorStep
<1>4. CASE GetblkEmpty(p)
  <2>1. /\ UNCHANGED <<flags, io, pc, mine, basynwait>> /\ flwanted'
        /\ wchan' = [wchan EXCEPT ![p] = "bfreelist"] /\ pc[p] = "getblk"
    BY <1>4 DEF GetblkEmpty, At, Sleep
  <2>2. WakesSleepers
    BY <2>1 DEF WakesSleepers
  <2>3. IsWanted(p)'
    BY <1>1, <2>1, ChanDistinct DEF IsWanted
  <2>4. QED BY <1>1, <2>1, <2>2, <2>3, ActorStep
<1>5. ASSUME NEW b \in Buf, NEW r, AsyncWrite(p, b, r)
      PROVE  SleepersAreWanted'
  <2>1. \A c \in Buf : {"BUSY", "WANTED"} \subseteq flags[c] =>
          {"BUSY", "WANTED"} \subseteq flags'[c]
    BY <1>1, <1>5 DEF AsyncWrite
  <2>2. QED BY <1>1, <1>2, <1>5, <2>1, GrowStep DEF AsyncWrite, Go
<1>6. CASE GetblkDelwri(p)
  BY <1>1, <1>5, <1>6, TailLemma DEF GetblkDelwri
<1>7. CASE BflushWrite(p)
  BY <1>1, <1>5, <1>7 DEF BflushWrite, Delayed
<1>8. CASE BdflushWrite(p)
  BY <1>1, <1>5, <1>8 DEF BdflushWrite, Delayed
(* The flags f given to Got agree with what sleepers see: b is not busy,   *)
(* so nobody sleeps for it.                                                *)
<1>9. ASSUME NEW b \in Buf, NEW f, NEW list, "BUSY" \notin flags[b],
             Got(p, b, f, list), basynwait' = basynwait
      PROVE  SleepersAreWanted'
  <2>1. \E g : flags' = [flags EXCEPT ![b] = g]
    BY <1>9 DEF Got
  <2>2. \A c \in Buf : {"BUSY", "WANTED"} \subseteq flags[c] =>
          {"BUSY", "WANTED"} \subseteq flags'[c]
    BY <1>1, <1>9, <2>1
  <2>3. io \subseteq io' /\ \A q \in Proc : q # p => pc'[q] = pc[q] /\ mine'[q] = mine[q]
    BY <1>1, <1>9 DEF Got, Go, Return, BreadaEnd
  <2>4. CASE flwanted' = flwanted /\ wchan' = wchan
    BY <1>2, <1>9, <2>2, <2>3, <2>4, GrowStep
  <2>5. CASE Awaken(brelseWake(b, f))
    <3>1. flwanted => Woken("bfreelist")
      BY <2>5 DEF Awaken, brelseWake, Woken
    <3>2. WakesSleepers
      BY <1>9, <2>2, <2>3, <3>1 DEF WakesSleepers
    <3>3. wchan'[p] = NoChan /\ \A q \in Proc : wchan'[q] \in {wchan[q], NoChan}
      BY <1>2, <2>5 DEF Awaken
    <3>4. QED BY <2>3, <3>2, <3>3, AwakeWanted, ActorStep
  <2>6. QED BY <1>9, <2>4, <2>5 DEF Got
<1>10. CASE GetblkHit(p)
  <2>1. PICK b \in Buf :
          /\ "BUSY" \notin flags[b]
          /\ Got(p, b, flags[b] \cup {"BUSY"}, notavail(freelist, b))
          /\ basynwait' = basynwait
    BY <1>10 DEF GetblkHit, Match
  <2>2. QED BY <1>9, <2>1
<1>11. CASE GetblkTake(p)
  <2>1. /\ freelist # <<>> /\ basynwait' = basynwait
        /\ \E f : Got(p, Head(freelist), f, Tail(freelist))
    BY <1>11 DEF GetblkTake, TakeHead
  <2>2. Head(freelist) \in Buf /\ "BUSY" \notin flags[Head(freelist)]
    BY <1>1, <2>1, TailLemma DEF Inv, Available
  <2>3. QED BY <1>9, <2>1, <2>2
<1>12. CASE Reada(p) \/ Bwtail(p) \/ BflushDone(p) \/ BdflushDone(p) \/ BdwaitDone(p)
  BY <1>1, <1>2, <1>12, GrowStep
     DEF Reada, BreadaEnd, Bwtail, BflushDone, BdflushDone, BdwaitDone, Go, Return
<1>13. CASE IowaitSleep(p)
  <2>1. /\ UNCHANGED <<flags, io, pc, mine, flwanted, basynwait>>
        /\ wchan' = [wchan EXCEPT ![p] = mine[p]] /\ pc[p] = "iowait"
        /\ "DONE" \notin flags[mine[p]]
    BY <1>13 DEF IowaitSleep, At, Sleep
  <2>2. mine[p] \in io
    BY <2>1 DEF Inv, Frames, Pending
  <2>3. WakesSleepers
    BY <2>1 DEF WakesSleepers
  <2>4. IsWanted(p)'
    BY <1>1, <2>1, <2>2, ChanDistinct DEF IsWanted
  <2>5. QED BY <1>1, <2>1, <2>3, <2>4, ActorStep
<1>14. ASSUME NEW f, Brelse(p, f), mine[p] \in Buf, mine[p] \notin io, io' = io,
              flags[mine[p]] \subseteq f, basynwait' = basynwait
       PROVE  SleepersAreWanted'
  <2>1. /\ \A c \in Buf : {"BUSY", "WANTED"} \subseteq flags[c] =>
              {"BUSY", "WANTED"} \subseteq flags'[c] \/ Woken(c)
        /\ flwanted => Woken("bfreelist")
    <3>1. Awaken(brelseWake(mine[p], f) \cup {})
      BY <1>14 DEF Brelse, Awaken
    <3>2. QED BY <1>14, <3>1, BrelseWakes DEF Brelse
  <2>2. WakesSleepers
    BY <1>14, <2>1 DEF WakesSleepers
  <2>3. /\ wchan'[p] = NoChan
        /\ \A q \in Proc : wchan'[q] \in {wchan[q], NoChan}
        /\ \A q \in Proc : q # p => pc'[q] = pc[q] /\ mine'[q] = mine[q]
    BY <1>1, <1>2, <1>14 DEF Brelse, Awaken, Return
  <2>4. QED BY <2>2, <2>3, AwakeWanted, ActorStep
<1>15. CASE IowaitDone(p)
  <2>1. mine[p] \in Buf /\ mine[p] \notin io
    BY <1>1, <1>15 DEF IowaitDone, At, Inv, Frames, Kept
  <2>2. CASE arg[p].k = "write"
    BY <1>14, <1>15, <2>1, <2>2 DEF IowaitDone
  <2>3. CASE arg[p].k # "write"
    BY <1>1, <1>2, <1>15, <2>3, GrowStep DEF IowaitDone, Return
  <2>4. QED BY <2>2, <2>3
<1>16. CASE Release(p) \/ bdwrite(p)
  <2>1. mine[p] \in Buf /\ mine[p] \notin io
    BY <1>1, <1>16 DEF Release, bdwrite, Store, At, Inv, Frames
  <2>2. QED BY <1>14, <1>16, <2>1 DEF Release, bdwrite
<1>17. CASE bwrite(p) \/ bawrite(p)
  <2>1. \A c \in Buf : {"BUSY", "WANTED"} \subseteq flags[c] =>
          {"BUSY", "WANTED"} \subseteq flags'[c]
    BY <1>1, <1>17 DEF bwrite, bawrite, SyncWrite
  <2>2. QED
    BY <1>1, <1>2, <1>17, <2>1, GrowStep DEF bwrite, bawrite, SyncWrite, Go
<1>18. CASE BdwaitSleep(p)
  <2>1. /\ UNCHANGED <<flags, io, pc, mine, flwanted>> /\ basynwait'
        /\ wchan' = [wchan EXCEPT ![p] = "basyncnt"] /\ pc[p] = "bdwait"
    BY <1>18 DEF BdwaitSleep, At, Sleep
  <2>2. WakesSleepers
    BY <2>1 DEF WakesSleepers
  <2>3. IsWanted(p)'
    BY <1>1, <2>1, ChanDistinct DEF IsWanted
  <2>4. QED BY <1>1, <2>1, <2>2, <2>3, ActorStep
<1>19. CASE binval(p)
  <2>1. \A c \in Buf : {"BUSY", "WANTED"} \subseteq flags[c] =>
          {"BUSY", "WANTED"} \subseteq flags'[c]
    BY <1>1, <1>19 DEF binval
  <2>2. QED BY <1>1, <1>2, <1>19, <2>1, GrowStep DEF binval, Return
<1>20. QED
  BY <1>3, <1>4, <1>6, <1>7, <1>8, <1>10, <1>11, <1>12, <1>13, <1>15, <1>16,
     <1>17, <1>18, <1>19 DEF Step

LEMMA InterruptWanted ==
  ASSUME Inv, SleepersAreWanted, NEW b \in Buf, Interrupt(b)
  PROVE  SleepersAreWanted'
<1>1. PICK err \in BOOLEAN : IodoneAsync(b, err) \/ IodoneSync(b, err)
  BY DEF Interrupt
<1>2. flags \in [Buf -> SUBSET Flag] /\ mine \in [Proc -> Buf \cup {NoBuf}]
  BY DEF Inv, TypeOK
<1>3. /\ UNCHANGED <<pc, mine>> /\ io' = io \ {b} /\ b \in io
      /\ \A q \in Proc : wchan'[q] \in {wchan[q], NoChan}
  BY <1>1 DEF IodoneAsync, IodoneSync, Awaken
<1>4. ASSUME WakesSleepers
      PROVE  SleepersAreWanted'
  <2>1. \A q \in Proc : IsWanted(q)
    BY DEF SleepersAreWanted, IsWanted
  <2>2. \A q \in Proc : IsWanted(q)'
    BY <1>3, <1>4, <2>1, OtherSleeper
  <2>3. QED BY <2>2 DEF SleepersAreWanted, IsWanted
<1>5. CASE IodoneSync(b, err)
  <2>1. Woken(b) /\ UNCHANGED <<flwanted, basynwait>>
    BY <1>5 DEF IodoneSync, Awaken, Woken, asyVars
  <2>2. \A c \in Buf : c # b => flags'[c] = flags[c]
    BY <1>2, <1>5 DEF IodoneSync
  <2>3. WakesSleepers
    BY <1>3, <2>1, <2>2 DEF WakesSleepers, Woken
  <2>4. QED BY <1>4, <2>3
<1>6. CASE IodoneAsync(b, err)
  <2> DEFINE f == doneFlags(b, err)
             waked == asyncDone(f) = 0 /\ basynwait
             S == IF waked THEN {"basyncnt"} ELSE {}
  <2>1. /\ flags' = [flags EXCEPT ![b] = brelseFlags(f)]
        /\ Awaken(brelseWake(b, f) \cup S)
        /\ basynwait' = (basynwait /\ ~waked)
        /\ "ASYNC" \in flags[b]
    BY <1>6 DEF IodoneAsync
  <2>2. "WANTED" \in flags[b] => "WANTED" \in f
    BY DEF doneFlags
  <2>3. waked => Woken("basyncnt")
    BY <2>1 DEF Awaken, Woken
  <2> HIDE DEF f, waked
  <2>4. /\ \A c \in Buf : {"BUSY", "WANTED"} \subseteq flags[c] =>
              {"BUSY", "WANTED"} \subseteq flags'[c] \/ Woken(c)
        /\ flwanted => Woken("bfreelist")
    BY <2>1, <2>2, BrelseWakes
  <2>5. basynwait => basynwait' \/ Woken("basyncnt")
    BY <2>1, <2>3
  (* Nobody waits in iowait for an asynchronous request. *)
  <2>6. \A q \in Proc : mine[q] # b
    BY <1>3, <2>1 DEF Inv, Kept
  <2>7. WakesSleepers
    BY <1>3, <2>4, <2>5, <2>6 DEF WakesSleepers
  <2>8. QED BY <1>4, <2>7
<1>7. QED BY <1>1, <1>5, <1>6

(* A process asleep in getblk, iowait or bdwait is there while the code    *)
(* that ends its wait is bound to call wakeup on its channel.              *)
THEOREM NoLostWakeup == Spec => []SleepersAreWanted
<1>1. Init => Pending /\ SleepersAreWanted
  BY ChanDistinct DEF Init, Pending, SleepersAreWanted
<1>2. Inv /\ Pending /\ SleepersAreWanted /\ [Next]_vars
        => (Pending /\ SleepersAreWanted)'
  <2> SUFFICES ASSUME Inv, Pending, SleepersAreWanted, [Next]_vars
               PROVE  Pending' /\ SleepersAreWanted'
    OBVIOUS
  <2>1. CASE Next
    BY <2>1, NextPending, EnterWanted, StepWanted, InterruptWanted DEF Next
  <2>2. CASE UNCHANGED vars
    BY <2>2 DEF vars, bufVars, asyVars, procVars, Pending, SleepersAreWanted
  <2>3. QED BY <2>1, <2>2
<1>3. QED BY <1>1, <1>2, InvHolds, PTL DEF Spec

-----------------------------------------------------------------------------
(* The count of asynchronous writes. *)

IsWrite(b) == b \in io /\ "ASYNC" \in flags[b] /\ "READ" \notin flags[b]
Writes == {b \in Buf : IsWrite(b)}
AtTail == {p \in Proc : pc[p] = "bwtail"}
Counted == basyncnt + Cardinality(AtTail) = Cardinality(Writes)

LEMMA FiniteCounts ==
  /\ IsFiniteSet(Writes) /\ Cardinality(Writes) \in Nat
  /\ IsFiniteSet(AtTail) /\ Cardinality(AtTail) \in Nat
<1>1. Writes \in SUBSET Buf /\ AtTail \in SUBSET Proc
  BY DEF Writes, AtTail
<1>2. QED BY <1>1, FS_Subset, FS_CardinalityType, ConstAssumption

(* Nothing that is counted changes. *)
LEMMA CountQuiet ==
  ASSUME Counted, basyncnt' = basyncnt,
         \A b \in Buf : IsWrite(b)' <=> IsWrite(b),
         \A p \in Proc : pc'[p] = "bwtail" <=> pc[p] = "bwtail"
  PROVE  Counted'
<1>1. Writes' = Writes /\ AtTail' = AtTail
  BY DEF Writes, AtTail
<1>2. QED BY <1>1 DEF Counted

(* An asynchronous write starts, its count is still to come. *)
LEMMA CountStart ==
  ASSUME Inv, Counted, basyncnt' = basyncnt, NEW b \in Buf, NEW p \in Proc,
         ~IsWrite(b), IsWrite(b)',
         \A c \in Buf : c # b => (IsWrite(c)' <=> IsWrite(c)),
         pc[p] # "bwtail", pc' = [pc EXCEPT ![p] = "bwtail"]
  PROVE  Counted'
<1>1. Writes' = Writes \cup {b} /\ b \notin Writes
  BY DEF Writes
<1>2. AtTail' = AtTail \cup {p} /\ p \notin AtTail
  BY DEF AtTail, Inv, TypeOK
<1>3. /\ Cardinality(Writes') = Cardinality(Writes) + 1
      /\ Cardinality(AtTail') = Cardinality(AtTail) + 1
  BY <1>1, <1>2, FiniteCounts, FS_AddElement
<1>4. QED BY <1>3, FiniteCounts DEF Counted, Inv, TypeOK

(* bwrite counts the write it started. *)
LEMMA CountTail ==
  ASSUME Inv, Counted, basyncnt' = basyncnt + 1, NEW p \in Proc,
         \A c \in Buf : IsWrite(c)' <=> IsWrite(c),
         pc[p] = "bwtail", NEW l, l # "bwtail", pc' = [pc EXCEPT ![p] = l]
  PROVE  Counted'
<1>1. Writes' = Writes
  BY DEF Writes
<1>2. AtTail' = AtTail \ {p} /\ p \in AtTail
  BY DEF AtTail, Inv, TypeOK
<1>3. Cardinality(AtTail') = Cardinality(AtTail) - 1
  BY <1>2, FiniteCounts, FS_RemoveElement
<1>4. QED BY <1>1, <1>3, FiniteCounts DEF Counted, Inv, TypeOK

LEMMA AsyncWriteCount ==
  ASSUME Inv, Counted, NEW p \in Proc, NEW b \in Buf, OnList(b), NEW r,
         pc[p] # "bwtail", AsyncWrite(p, b, r)
  PROVE  Counted'
<1>1. flags \in [Buf -> SUBSET Flag] /\ b \notin io
  BY DEF Inv, TypeOK, OnList, Available, Holds, Kept
<1>2. /\ flags' = [flags EXCEPT ![b] =
                     (@ \ {"READ", "DONE", "ERROR", "DELWRI"})
                        \cup {"BUSY", "ASYNC"}]
      /\ io' = io \cup {b} /\ basyncnt' = basyncnt
      /\ pc' = [pc EXCEPT ![p] = "bwtail"]
  BY DEF AsyncWrite, Go, asyVars
<1>3. /\ flags'[b] = (flags[b] \ {"READ", "DONE", "ERROR", "DELWRI"})
                         \cup {"BUSY", "ASYNC"}
      /\ \A c \in Buf : c # b => flags'[c] = flags[c]
  BY <1>1, <1>2
<1>4. ~IsWrite(b) /\ IsWrite(b)' /\ \A c \in Buf : c # b => (IsWrite(c)' <=> IsWrite(c))
  BY <1>1, <1>2, <1>3 DEF IsWrite
<1>5. QED BY <1>2, <1>4, CountStart

LEMMA StepCount ==
  ASSUME Inv, Counted, NEW p \in Proc, Step(p)
  PROVE  Counted'
<1> USE DEF bufVars, asyVars, histVars
<1>1. /\ flags \in [Buf -> SUBSET Flag] /\ pc \in [Proc -> PC]
      /\ mine \in [Proc -> Buf \cup {NoBuf}] /\ freelist \in Seq(Buf)
      /\ arg \in [Proc -> Frame]
  BY DEF Inv, TypeOK
<1>2. ASSUME UNCHANGED <<flags, io, basyncnt>>, NEW l, l # "bwtail",
             pc[p] # "bwtail", pc' \in {pc, [pc EXCEPT ![p] = l]}
      PROVE  Counted'
  <2>1. \A c \in Buf : IsWrite(c)' <=> IsWrite(c)
    BY <1>2 DEF IsWrite
  <2>2. \A q \in Proc : pc'[q] = "bwtail" <=> pc[q] = "bwtail"
    BY <1>1, <1>2
  <2>3. QED BY <1>2, <2>1, <2>2, CountQuiet
<1>3. ASSUME NEW b, NEW g, flags' = [flags EXCEPT ![b] = g], b \notin io,
             \/ io' = io
             \/ io' = io \cup {b} /\ ("READ" \in g \/ "ASYNC" \notin g),
             basyncnt' = basyncnt, NEW l, l # "bwtail",
             pc[p] # "bwtail", pc' = [pc EXCEPT ![p] = l]
      PROVE  Counted'
  <2>1. \A c \in Buf : IsWrite(c)' <=> IsWrite(c)
    BY <1>1, <1>3 DEF IsWrite
  <2>2. \A q \in Proc : pc'[q] = "bwtail" <=> pc[q] = "bwtail"
    BY <1>1, <1>3
  <2>3. QED BY <1>3, <2>1, <2>2, CountQuiet
<1>4. CASE GetblkBusy(p)
  <2>1. PICK b \in Buf : flags' = [flags EXCEPT ![b] = @ \cup {"WANTED"}]
    BY <1>4 DEF GetblkBusy, Match
  <2>2. \A c \in Buf : IsWrite(c)' <=> IsWrite(c)
    BY <1>1, <1>4, <2>1 DEF GetblkBusy, IsWrite
  <2>3. QED BY <1>4, <2>2, CountQuiet DEF GetblkBusy
<1>5. CASE GetblkEmpty(p) \/ IowaitSleep(p) \/ BdwaitSleep(p)
  BY <1>2, <1>5 DEF GetblkEmpty, IowaitSleep, BdwaitSleep, At
<1>6. CASE Reada(p) \/ BflushDone(p) \/ BdflushDone(p) \/ BdwaitDone(p)
  BY <1>2, <1>6 DEF Reada, BreadaEnd, BflushDone, BdflushDone, BdwaitDone, At, Go,
     Return
<1>7. CASE GetblkDelwri(p)
  <2>1. Head(freelist) \in Buf /\ OnList(Head(freelist))
    BY <1>1, <1>7, TailLemma DEF GetblkDelwri, OnList, Holds
  <2>2. QED BY <1>7, <2>1, AsyncWriteCount DEF GetblkDelwri, At
<1>8. CASE BflushWrite(p) \/ BdflushWrite(p)
  <2>1. PICK i \in DOMAIN freelist, r \in {"bflush", "bdflush"} :
          pc[p] = r /\ AsyncWrite(p, freelist[i], r)
    BY <1>8 DEF BflushWrite, BdflushWrite, Delayed, At
  <2>2. freelist[i] \in Buf /\ OnList(freelist[i])
    BY <1>1 DEF OnList
  <2>3. QED BY <2>1, <2>2, AsyncWriteCount
<1>9. ASSUME NEW b \in Buf, "BUSY" \notin flags[b], NEW f, "ASYNC" \notin f,
             NEW list, pc[p] = "getblk", Got(p, b, f, list), basyncnt' = basyncnt
      PROVE  Counted'
  <2>1. b \notin io
    BY <1>9 DEF Inv, Kept
  <2>2. PICK l : l # "bwtail" /\ pc' = [pc EXCEPT ![p] = l]
    BY <1>9 DEF Got, Return, Go, BreadaEnd
  <2>3. PICK g : /\ flags' = [flags EXCEPT ![b] = g]
                 /\ \/ io' = io
                    \/ io' = io \cup {b} /\ ("READ" \in g \/ "ASYNC" \notin g)
    BY <1>9 DEF Got
  <2>4. QED BY <1>3, <1>9, <2>1, <2>2, <2>3
<1>10. CASE GetblkHit(p)
  <2>1. PICK b \in Match(Wanted(p)) :
          /\ "BUSY" \notin flags[b]
          /\ Got(p, b, flags[b] \cup {"BUSY"}, notavail(freelist, b))
    BY <1>10 DEF GetblkHit
  <2>2. b \in Buf /\ "ASYNC" \notin flags[b] \cup {"BUSY"}
    BY <2>1 DEF Match, Inv, Kept
  <2>3. QED BY <1>9, <1>10, <2>1, <2>2 DEF GetblkHit, At
<1>11. CASE GetblkTake(p)
  <2> DEFINE b == Head(freelist)
             f == IF Wanted(p) = NoBlock THEN {"BUSY", "AGE"} ELSE {"BUSY"}
  <2>1. Got(p, b, f, Tail(freelist)) /\ freelist # <<>> /\ pc[p] = "getblk"
        /\ basyncnt' = basyncnt
    BY <1>11 DEF GetblkTake, TakeHead, At
  <2>2. b \in Buf /\ "BUSY" \notin flags[b]
    BY <1>1, <2>1, TailLemma DEF Inv, Available
  <2>3. "ASYNC" \notin f
    OBVIOUS
  <2> HIDE DEF b, f
  <2>4. QED BY <1>9, <2>1, <2>2, <2>3
<1>12. CASE IowaitDone(p) \/ Release(p) \/ bdwrite(p)
  <2>1. mine[p] \in Buf /\ mine[p] \notin io
    BY <1>1, <1>12 DEF IowaitDone, Release, bdwrite, Store, At, Inv, Frames, Kept
  <2>2. /\ pc[p] # "bwtail" /\ io' = io /\ basyncnt' = basyncnt
        /\ pc' \in {[pc EXCEPT ![p] = "user"], [pc EXCEPT ![p] = "hold"]}
        /\ \/ flags' = flags
           \/ \E g : flags' = [flags EXCEPT ![mine[p]] = g]
    BY <1>12 DEF IowaitDone, Release, bdwrite, Store, At, Brelse, Return
  <2>3. PICK l \in {"user", "hold"} : pc' = [pc EXCEPT ![p] = l]
    BY <2>2
  <2>4. CASE flags' = flags
    BY <1>2, <2>2, <2>3, <2>4
  <2>5. CASE \E g : flags' = [flags EXCEPT ![mine[p]] = g]
    BY <1>3, <2>1, <2>2, <2>3, <2>5
  <2>6. QED BY <2>2, <2>4, <2>5
<1>13. ASSUME NEW f, "ASYNC" \notin f, pc[p] = "hold", SyncWrite(p, f)
       PROVE  Counted'
  <2>1. mine[p] \notin io
    BY <1>13 DEF Inv, Frames
  <2>2. "ASYNC" \notin f \ {"READ", "DONE", "ERROR", "DELWRI"}
    BY <1>13
  <2>3. QED BY <1>3, <1>13, <2>1, <2>2 DEF SyncWrite, Go
<1>14. ASSUME Store(p)
       PROVE  /\ pc[p] = "hold" /\ mine[p] \in Buf /\ mine[p] \notin io
              /\ "ASYNC" \notin flags[mine[p]]
  BY <1>1, <1>14 DEF Store, At, Inv, Frames, Kept
<1>15. CASE bwrite(p)
  BY <1>13, <1>14, <1>15 DEF bwrite
<1>16. CASE bawrite(p)
  <2>1. CASE Len(freelist) > BawFree
    <3> DEFINE b == mine[p]
               g == (flags[b] \ {"READ", "DONE", "ERROR", "DELWRI"})
                       \cup {"AGE", "ASYNC"}
    <3>1. /\ flags' = [flags EXCEPT ![b] = g] /\ io' = io \cup {b}
          /\ pc' = [pc EXCEPT ![p] = "bwtail"] /\ basyncnt' = basyncnt
      BY <1>16, <2>1 DEF bawrite, Go
    <3>2. /\ pc[p] = "hold" /\ b \in Buf /\ b \notin io
      BY <1>14, <1>16 DEF bawrite
    <3>3. PICK c \in Buf : c = mine[p]
      BY <3>2
    <3>4. flags'[c] = g /\ \A d \in Buf : d # c => flags'[d] = flags[d]
      BY <1>1, <3>1, <3>3
    <3>5. ~IsWrite(c) /\ IsWrite(c)' /\ \A d \in Buf : d # c => (IsWrite(d)' <=> IsWrite(d))
      BY <3>1, <3>2, <3>3, <3>4 DEF IsWrite
    <3>6. QED BY <3>1, <3>2, <3>5, CountStart
  <2>2. CASE ~(Len(freelist) > BawFree)
    <3>1. SyncWrite(p, flags[mine[p]] \cup {"AGE"})
      BY <1>16, <2>2 DEF bawrite
    <3>2. QED BY <1>13, <1>14, <1>16, <3>1 DEF bawrite
  <2>3. QED BY <2>1, <2>2
<1>17. CASE Bwtail(p)
  <2>1. /\ pc[p] = "bwtail" /\ UNCHANGED <<flags, io>> /\ basyncnt' = basyncnt + 1
        /\ pc' \in {[pc EXCEPT ![p] = "user"], [pc EXCEPT ![p] = arg[p].ret]}
    BY <1>17 DEF Bwtail, At, Return, Go
  <2>2. arg[p].ret # "bwtail"
    BY <1>1 DEF Frame
  <2>3. \A c \in Buf : IsWrite(c)' <=> IsWrite(c)
    BY <2>1 DEF IsWrite
  <2>4. QED BY <2>1, <2>2, <2>3, CountTail
<1>18. CASE binval(p)
  <2>1. \A c \in Buf : IsWrite(c)' <=> IsWrite(c)
    BY <1>1, <1>18 DEF binval, IsWrite
  <2>2. \A q \in Proc : pc'[q] = "bwtail" <=> pc[q] = "bwtail"
    BY <1>1, <1>18 DEF binval, Return, At
  <2>3. QED BY <1>18, <2>1, <2>2, CountQuiet DEF binval
<1>19. QED
  BY <1>4, <1>5, <1>6, <1>7, <1>8, <1>10, <1>11, <1>12, <1>15, <1>16, <1>17,
     <1>18 DEF Step

LEMMA InterruptCount ==
  ASSUME Inv, Counted, NEW b \in Buf, Interrupt(b)
  PROVE  Counted'
<1>1. flags \in [Buf -> SUBSET Flag]
  BY DEF Inv, TypeOK
<1>2. PICK err \in BOOLEAN : IodoneAsync(b, err) \/ IodoneSync(b, err)
  BY DEF Interrupt
<1>3. b \in io /\ io' = io \ {b} /\ pc' = pc
      /\ \E g : flags' = [flags EXCEPT ![b] = g]
  BY <1>2 DEF IodoneAsync, IodoneSync
<1>4. ~IsWrite(b)' /\ \A c \in Buf : c # b => (IsWrite(c)' <=> IsWrite(c))
  BY <1>1, <1>3 DEF IsWrite
<1>5. CASE IodoneAsync(b, err) /\ "READ" \notin flags[b]
  <2>1. basyncnt' = basyncnt - 1 /\ IsWrite(b)
    BY <1>3, <1>5 DEF IodoneAsync, asyncDone, doneFlags, IsWrite
  <2>2. Writes' = Writes \ {b} /\ b \in Writes /\ AtTail' = AtTail
    BY <1>3, <1>4, <2>1 DEF Writes, AtTail
  <2>3. Cardinality(Writes') = Cardinality(Writes) - 1
    BY <2>2, FiniteCounts, FS_RemoveElement
  <2>4. QED BY <2>1, <2>2, <2>3, FiniteCounts DEF Counted, Inv, TypeOK
<1>6. CASE IodoneSync(b, err) \/ "READ" \in flags[b]
  <2>1. basyncnt' = basyncnt /\ ~IsWrite(b)
    BY <1>2, <1>6 DEF IodoneAsync, IodoneSync, asyncDone, doneFlags, IsWrite, asyVars
  <2>2. QED BY <1>3, <1>4, <2>1, CountQuiet
<1>7. QED BY <1>2, <1>5, <1>6

(* basyncnt is the number of asynchronous writes in progress but for those *)
(* whose bwrite has not yet returned from d_strategy, though a write may   *)
(* complete before it is counted and reads complete in between; so when    *)
(* bdwait finds zero it may rely on it.                                    *)
THEOREM CountCorrect == Spec => []AsyncWritesCounted
<1>1. Init => Counted
  <2> SUFFICES ASSUME Init
               PROVE  Counted
    OBVIOUS
  <2>1. Writes = {} /\ AtTail = {} /\ basyncnt = 0
    BY DEF Init, Writes, AtTail, IsWrite
  <2>2. QED BY <2>1, FS_EmptySet DEF Counted
<1>2. Inv /\ Counted /\ [Next]_vars => Counted'
  <2> SUFFICES ASSUME Inv, Counted, [Next]_vars
               PROVE  Counted'
    OBVIOUS
  <2>1. ASSUME NEW p \in Proc, Enter(p)
        PROVE  Counted'
    <3>1. /\ pc[p] = "user" /\ UNCHANGED <<flags, io, basyncnt>>
          /\ \E l \in {"getblk", "reada", "bflush", "bdwait", "bdflush"} :
               pc' = [pc EXCEPT ![p] = l]
      BY <2>1 DEF Enter, StartBread, StartGetblk, StartGeteblk, StartBreada,
         StartBflush, StartBdwait, StartBdflush, StartClose, Start, At, Go,
         bufVars, asyVars
    <3>2. pc \in [Proc -> PC]
      BY DEF Inv, TypeOK
    <3>3. \A q \in Proc : pc'[q] = "bwtail" <=> pc[q] = "bwtail"
      BY <3>1, <3>2
    <3>4. \A c \in Buf : IsWrite(c)' <=> IsWrite(c)
      BY <3>1 DEF IsWrite
    <3>5. QED BY <3>1, <3>3, <3>4, CountQuiet
  <2>2. ASSUME NEW p \in Proc, Step(p)
        PROVE  Counted'
    BY <2>2, StepCount
  <2>3. ASSUME NEW b \in Buf, Interrupt(b)
        PROVE  Counted'
    BY <2>3, InterruptCount
  <2>4. CASE UNCHANGED vars
    <3>1. \A c \in Buf : IsWrite(c)' <=> IsWrite(c)
      BY <2>4 DEF vars, bufVars, IsWrite
    <3>2. QED BY <2>4, <3>1, CountQuiet DEF vars, asyVars, procVars
  <2>5. QED BY <2>1, <2>2, <2>3, <2>4 DEF Next
<1>3. Inv /\ Counted => AsyncWritesCounted
  <2>1. Inv => Writes = {b \in io : "ASYNC" \in flags[b] /\ "READ" \notin flags[b]}
    BY DEF Writes, IsWrite, Inv, TypeOK
  <2>2. QED BY <2>1 DEF AsyncWritesCounted, Counted, AtTail
<1>4. QED BY <1>1, <1>2, <1>3, InvHolds, PTL DEF Spec
=============================================================================
