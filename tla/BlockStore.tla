----------------------------- MODULE BlockStore -----------------------------
(***************************************************************************)
(* What the buffer cache promises its callers: the blocks of the devices   *)
(* are a store, a block is held by one process at a time, the holder sees  *)
(* the contents stored last, and only the holder stores, giving the block  *)
(* up as it does so.                                                       *)
(***************************************************************************)
CONSTANTS
  Proc,       \* processes
  Block,      \* blocks
  Value,      \* block contents
  Zero,       \* the initial contents
  NoBlock,
  Unknown     \* what is seen of a block that was not, or cannot be, read

VARIABLES
  store,      \* the contents stored last in each block
  held,       \* the block each process holds, or NoBlock
  seen        \* the contents its holder sees in it

absVars == <<store, held, seen>>

AbsInit ==
  /\ store = [k \in Block |-> Zero]
  /\ held = [p \in Proc |-> NoBlock]
  /\ seen = [p \in Proc |-> Unknown]

Acquire(p, k) ==
  /\ held[p] = NoBlock
  /\ \A q \in Proc : held[q] # k
  /\ held' = [held EXCEPT ![p] = k]
  /\ \E v \in {store[k], Unknown} : seen' = [seen EXCEPT ![p] = v]
  /\ UNCHANGED store

GiveUp(p) ==
  /\ held[p] # NoBlock
  /\ held' = [held EXCEPT ![p] = NoBlock]
  /\ seen' = [seen EXCEPT ![p] = Unknown]

Put(p, v) == GiveUp(p) /\ store' = [store EXCEPT ![held[p]] = v]

Drop(p) == GiveUp(p) /\ UNCHANGED store

AbsNext ==
  \E p \in Proc : \/ \E k \in Block : Acquire(p, k)
                  \/ \E v \in Value : Put(p, v)
                  \/ Drop(p)

AbsSpec == AbsInit /\ [][AbsNext]_absVars
=============================================================================
