--------------------------- MODULE ShaSession_proofs ---------------------------
(***************************************************************************)
(* Proofs about ShaSession, for every configuration: the padding for       *)
(* messages of every length, the bounds of the buffers, the ownership of   *)
(* the session and its heap block, and the digest itself.  DigestInv says  *)
(* where the message is while it is collected: in one of the buffers, or   *)
(* with the engine.                                                        *)
(***************************************************************************)
EXTENDS ShaSession, DataInduction

-----------------------------------------------------------------------------
(* Padding.  A length is taken apart into blocks, words and bytes.         *)

LEMMA Split ==
  ASSUME NEW bytes \in Nat
  PROVE  \E q \in Nat, r \in 0 .. 63 : bytes = 64 * q + r
<1>1. bytes = 64 * (bytes \div 64) + (bytes % 64)
  BY SMT
<1>2. bytes \div 64 \in Nat /\ bytes % 64 \in 0 .. 63
  BY SMT
<1> QED
  BY <1>1, <1>2

(* The driver's formula for the padding words is that of the standard, and *)
(* the mask of five bits in the register loses nothing, for every length.  *)
THEOREM PaddingIsStandard ==
  \A bytes \in Nat : PadPacket(bytes) = PadReference(bytes) /\ PadPacket(bytes) % 32 = PadPacket(bytes)
<1> SUFFICES ASSUME NEW bytes \in Nat
             PROVE  PadPacket(bytes) = PadReference(bytes) /\ PadPacket(bytes) % 32 = PadPacket(bytes)
  OBVIOUS
<1>1. PICK q \in Nat, r \in 0 .. 63 : bytes = 64 * q + r
  BY Split
<1>2. (8 * bytes) % 512 = 8 * r
  BY <1>1, SMT
<1>3. Words(bytes) = 16 * q + (r + 3) \div 4
  BY <1>1, SMT DEF Words
<1>4. Blocks(bytes) = q + (IF r < 56 THEN 1 ELSE 2)
  BY <1>1, SMT DEF Blocks
<1>5. PadReference(bytes) = (IF r < 56 THEN 14 ELSE 30) - (r + 3) \div 4
  BY <1>1, <1>3, <1>4, SMT DEF PadReference
<1>6. CASE r < 56
  <2>1. PadPacket(bytes) = (448 - 8 * r) \div 32
    BY <1>1, <1>2, <1>6, SMT DEF PadPacket
  <2>2. (448 - 8 * r) \div 32 = 14 - (r + 3) \div 4
    BY <1>1, <1>6, SMT
  <2>3. 14 - (r + 3) \div 4 \in 0 .. 14
    BY <1>1, <1>6, SMT
  <2> QED
    BY <1>5, <1>6, <2>1, <2>2, <2>3, SMT
<1>7. CASE r >= 56
  <2>1. PadPacket(bytes) = (960 - 8 * r) \div 32
    BY <1>1, <1>2, <1>7, SMT DEF PadPacket
  <2>2. (960 - 8 * r) \div 32 = 30 - (r + 3) \div 4
    BY <1>1, <1>7, SMT
  <2>3. 30 - (r + 3) \div 4 \in 14 .. 16
    BY <1>1, <1>7, SMT
  <2> QED
    BY <1>1, <1>5, <1>7, <2>1, <2>2, <2>3, SMT
<1> QED
  BY <1>1, <1>6, <1>7, SMT

-----------------------------------------------------------------------------
(* Buffers.                                                                *)

(* The grown buffer holds what is needed and stays below the maximum. *)
LEMMA GrownCapFits ==
  ASSUME TypeOK, NEW need \in 1 .. MaxAccum
  PROVE  GrownCap(need) \in need .. MaxAccum
<1> DEFINE base == IF accumCap = 0 THEN FirstCap ELSE accumCap
           fits == {n \in {base * 2^k : k \in 0 .. MaxDoublings} : n \in need .. MaxAccum}
<1>1. MaxAccum \in Nat
  BY ShaAssumption
<1>2. fits \subseteq need .. MaxAccum
  OBVIOUS
<1>3. GrownCap(need) = IF fits = {} THEN MaxAccum ELSE CHOOSE n \in fits : \A m \in fits : n <= m
  BY Zenon DEF GrownCap
<1> HIDE DEF fits
<1>4. CASE fits = {}
  BY <1>1, <1>3, <1>4
<1>5. CASE fits # {}
  <2>1. \E n \in fits : \A m \in fits : n <= m
    <3>1. fits \subseteq Nat
      BY <1>1, <1>2
    <3> QED
      BY <1>5, <3>1, LeastNat, Zenon
  <2>2. GrownCap(need) \in fits
    BY <1>3, <1>5, <2>1
  <2> QED
    BY <1>2, <2>2
<1> QED
  BY <1>4, <1>5

(* The sizes that an update leaves when it is collected on the heap. *)
LEMMA AccumFits ==
  ASSUME TypeOK, NEW len \in Lengths, TakesAccum(len), Grow(accumLen + bufferLen + len),
         MoveToAccum(Piece(len))
  PROVE  /\ accumCap' \in 1 .. MaxAccum
         /\ accumLen' \in 1 .. accumCap'
         /\ bufferLen' = 0
<1> DEFINE need == accumLen + bufferLen + len
<1>1. len \in Nat \ {0} /\ MaxAccum \in Nat /\ SmallSize \in Nat
  BY ShaAssumption
<1>2. bufferLen \in Nat /\ accumLen \in Nat /\ accumCap \in 0 .. MaxAccum
  BY <1>1 DEF TypeOK
<1>3. need \in 1 .. MaxAccum
  BY <1>1, <1>2 DEF TakesAccum, TakesChunk, TooMuch
<1>4. accumCap' \in need .. MaxAccum
  BY <1>1, <1>2, <1>3, GrownCapFits DEF Grow
<1>5. accumLen' = need /\ bufferLen' = 0
  BY <1>1, <1>2 DEF MoveToAccum, Piece
<1> QED
  BY <1>1, <1>3, <1>4, <1>5

LEMMA TypeStep ==
  ASSUME TypeOK, [Next]_vars
  PROVE  TypeOK'
<1>0. SmallSize \in Nat \ {0} /\ MaxAccum \in Nat /\ MaxUpdates \in Nat /\ MaxBegins \in Nat
      /\ Lengths \subseteq Nat \ {0} /\ Totals \subseteq Nat
  BY ShaAssumption
<1>1. CASE UNCHANGED vars
  BY <1>1 DEF TypeOK, vars, sessionVars, bufferVars, chunkVars, clientVars, countVars
<1>2. CASE EngineDone
  BY <1>2 DEF TypeOK, EngineDone, sessionVars, bufferVars, chunkVars, clientVars, countVars
<1>3. ASSUME NEW n \in Totals, SetTotal(n)
      PROVE  TypeOK'
  BY <1>0, <1>3 DEF TypeOK, SetTotal, sessionVars, bufferVars, clientVars, countVars
<1>4. ASSUME NEW c \in Contexts, Client(c)
      PROVE  TypeOK'
  <2>1. CASE BeginCheck(c)
    <3>1. pc' \in [Contexts -> Places]
      BY <2>1 DEF TypeOK, BeginCheck, Goto, Places
    <3>2. begins' \in 0 .. MaxBegins
      BY <1>0, <2>1 DEF TypeOK, BeginCheck
    <3> QED
      BY <2>1, <3>1, <3>2 DEF TypeOK, BeginCheck, sessionVars, bufferVars, chunkVars, clientVars
  <2>2. CASE BeginClaim(c)
    <3>1. pc' \in [Contexts -> Places]
      BY <2>2 DEF TypeOK, BeginClaim, Goto, Places
    <3>2. raced' \in BOOLEAN
      BY <2>2, Zenon DEF TypeOK, BeginClaim
    <3>8. robbed' \subseteq Contexts
      BY <1>4, <2>2 DEF TypeOK, BeginClaim
    <3>3. bufferLen' \in 0 .. SmallSize - 1 /\ accumLen' \in 0 .. accumCap' /\ accumCap' \in 0 .. MaxAccum
      BY <1>0, <2>2 DEF BeginClaim
    <3>4. total' \in [known : BOOLEAN, bytes : Nat]
      BY <2>2 DEF BeginClaim, NoTotal
    <3>5. buffer' \in Seq(Pieces) /\ accum' \in Seq(Pieces)
      BY <2>2 DEF BeginClaim
    <3>6. owner' \in Contexts \cup {None} /\ active' \in BOOLEAN /\ state' \in {"idle", "busy", "error"}
          /\ useAccum' \in BOOLEAN /\ useChunked' \in BOOLEAN /\ chunkValid' \in BOOLEAN
      BY <2>2 DEF BeginClaim
    <3>7. updates' \in 0 .. MaxUpdates /\ begins' \in 0 .. MaxBegins
      BY <2>2 DEF TypeOK, BeginClaim, countVars
    <3> QED
      BY <3>1, <3>2, <3>3, <3>4, <3>5, <3>6, <3>7, <3>8 DEF TypeOK
  <2>3. CASE Free(c)
    <3>1. pc' \in [Contexts -> Places] /\ total' \in [known : BOOLEAN, bytes : Nat]
      BY <2>3 DEF TypeOK, Free, FreeBuffers, Goto, NoTotal, Places
    <3>2. accumLen' \in 0 .. accumCap' /\ accumCap' \in 0 .. MaxAccum /\ accum' \in Seq(Pieces)
      BY <1>0, <2>3 DEF Free, FreeBuffers
    <3>3. useAccum' \in BOOLEAN /\ useChunked' \in BOOLEAN /\ chunkValid' \in BOOLEAN
      BY <2>3 DEF Free, FreeBuffers
    <3> QED
      BY <2>3, <3>1, <3>2, <3>3 DEF TypeOK, Free, sessionVars, countVars
  <2>4. CASE Refused(c)
    <3>1. pc' \in [Contexts -> Places]
      BY <2>4 DEF TypeOK, Refused, Goto, Places
    <3> QED
      BY <2>4, <3>1 DEF TypeOK, Refused, sessionVars, bufferVars, chunkVars, countVars
  <2>11. CASE FreeActive(c)
    <3>1. pc' \in [Contexts -> Places] /\ active' \in BOOLEAN
      BY <2>11 DEF TypeOK, FreeActive, Goto, Places
    <3> QED
      BY <2>11, <3>1 DEF TypeOK, FreeActive, bufferVars, chunkVars, countVars
  <2>12. CASE FreeOwner(c)
    <3>1. pc' \in [Contexts -> Places] /\ owner' \in Contexts \cup {None}
      BY <2>12 DEF TypeOK, FreeOwner, Goto, Places
    <3> QED
      BY <2>12, <3>1 DEF TypeOK, FreeOwner, bufferVars, chunkVars, countVars
  <2>13. CASE FreeState(c)
    <3>1. pc' \in [Contexts -> Places] /\ state' \in {"idle", "busy", "error"}
      BY <2>13 DEF TypeOK, FreeState, Goto, Places
    <3> QED
      BY <2>13, <3>1 DEF TypeOK, FreeState, bufferVars, chunkVars, countVars
  <2>5. CASE Update(c)
    <3>1. PICK len \in Lengths :
            /\ updates < MaxUpdates
            /\ UpdateSmall(c, len) \/ UpdateAccum(c, len) \/ UpdateNoMemory(c, len) \/ UpdateChunk(c, len)
      BY <2>5 DEF Update
    <3>2. Piece(len) \in Pieces /\ updates + 1 \in 0 .. MaxUpdates
      BY <1>0, <3>1 DEF TypeOK, Piece, Pieces
    <3>3. CASE UpdateSmall(c, len)
      <4>1. buffer' \in Seq(Pieces) /\ bufferLen' \in 0 .. SmallSize - 1
        BY <1>0, <3>2, <3>3 DEF TypeOK, UpdateSmall, TakesSmall
      <4> QED
        BY <3>2, <3>3, <4>1 DEF TypeOK, UpdateSmall, sessionVars, chunkVars
    <3>4. CASE UpdateAccum(c, len)
      <4>1. /\ accumCap' \in 1 .. MaxAccum /\ accumLen' \in 1 .. accumCap'
            /\ bufferLen' = 0
        BY <3>4, AccumFits DEF UpdateAccum
      <4>2. accumCap' \in 0 .. MaxAccum /\ accumLen' \in 0 .. accumCap' /\ bufferLen' \in 0 .. SmallSize - 1
        BY <1>0, <4>1
      <4>3. accum' \in Seq(Pieces) /\ buffer' \in Seq(Pieces)
        BY <3>2, <3>4 DEF TypeOK, UpdateAccum, MoveToAccum
      <4> QED
        BY <3>2, <3>4, <4>2, <4>3 DEF TypeOK, UpdateAccum, sessionVars, chunkVars
    <3>5. CASE UpdateNoMemory(c, len)
      BY <3>2, <3>5 DEF TypeOK, UpdateNoMemory, sessionVars, bufferVars, chunkVars
    <3>6. CASE UpdateChunk(c, len)
      BY <3>2, <3>6 DEF TypeOK, UpdateChunk, sessionVars, bufferVars
    <3> QED
      BY <3>1, <3>3, <3>4, <3>5, <3>6
  <2>6. CASE FinishNoOutput(c)
    BY <2>6 DEF TypeOK, FinishNoOutput, bufferVars, chunkVars, countVars
  <2>7. CASE FinishFeed(c)
    BY <2>7 DEF TypeOK, FinishFeed, Goto, Places, bufferVars, chunkVars, countVars
  <2>8. CASE FinishChunked(c)
    BY <2>8 DEF TypeOK, FinishChunked, Goto, Places, bufferVars, chunkVars, countVars
  <2>9. CASE FinishDone(c)
    BY <2>9 DEF TypeOK, FinishDone, Goto, Places, bufferVars, chunkVars, countVars
  <2>10. CASE FinishTimeout(c)
    BY <2>10 DEF TypeOK, FinishTimeout, Goto, Places, bufferVars, chunkVars, countVars
  <2> QED
    BY <1>4, <2>1, <2>2, <2>3, <2>4, <2>5, <2>6, <2>7, <2>8, <2>9, <2>10, <2>11, <2>12, <2>13
       DEF Client
<1> QED
  BY <1>1, <1>2, <1>3, <1>4 DEF Next

LEMMA TypeInit == Init => TypeOK
<1> SUFFICES ASSUME Init PROVE TypeOK
  OBVIOUS
<1>1. bufferLen \in 0 .. SmallSize - 1 /\ accumLen \in 0 .. accumCap /\ accumCap \in 0 .. MaxAccum
      /\ updates \in 0 .. MaxUpdates /\ begins \in 0 .. MaxBegins
  BY ShaAssumption DEF Init
<1>2. total \in [known : BOOLEAN, bytes : Nat]
  BY DEF Init, NoTotal
<1>3. buffer \in Seq(Pieces) /\ accum \in Seq(Pieces)
  BY DEF Init
<1>4. useAccum \in BOOLEAN /\ useChunked \in BOOLEAN /\ chunkValid \in BOOLEAN /\ raced \in BOOLEAN
  BY Zenon DEF Init
<1>5. active \in BOOLEAN /\ owner \in Contexts \cup {None} /\ state \in {"idle", "busy", "error"}
  BY DEF Init
<1>6. pc \in [Contexts -> Places]
  BY DEF Init, Places
<1>7. robbed \subseteq Contexts
  BY DEF Init
<1> QED
  BY <1>1, <1>2, <1>3, <1>5, <1>6, <1>4, <1>7 DEF TypeOK

(* The small buffer is never full and the heap buffer never beyond its     *)
(* capacity or the configured maximum, for every size, every length of an  *)
(* update and every number of contexts that overtake each other.           *)
THEOREM BuffersAreBounded == Spec => []TypeOK
BY TypeInit, TypeStep, PTL DEF Spec

-----------------------------------------------------------------------------
(* The session and its heap block.                                         *)

(* A context is inside from its begin until its free has ended the session, *)
(* and only one is.  It is the owner, unless a free under way may have taken *)
(* or may yet take that from it; and an owner is inside, or was just before  *)
(* its free.                                                               *)
Inside(c) == pc[c] \in {"in", "wait", "free"}

OneInside ==
  ~raced =>
    /\ \A c \in Contexts : Inside(c) => active /\ (c \notin robbed => owner = c)
    /\ \A c, d \in Contexts : Inside(c) /\ Inside(d) => c = d
    /\ \A c, d \in Contexts : pc[c] = "freed" /\ Inside(d) => d \in robbed
    /\ \A c \in Contexts : owner = c => Inside(c) \/ pc[c] = "freed"

(* With nobody inside, or after the free of the buffers, there is no buffer *)
(* to leak; a buffer has a capacity as soon as it has a content.           *)
HeapInv ==
  /\ HeapAccounted
  /\ ~raced => /\ ~active => accumCap = 0
               /\ \A c \in Contexts : pc[c] = "free" => accumCap = 0
  /\ accumCap = 0 <=> accumLen = 0
  /\ blocks \in Int

SessionInv == TypeOK /\ OneInside /\ HeapInv

LEMMA InsideFrame ==
  ASSUME OneInside, UNCHANGED <<active, owner, raced, robbed>>, NEW c \in Contexts,
         NEW l, pc' = [pc EXCEPT ![c] = l], pc \in [Contexts -> Places],
         \/ pc[c] \in {"in", "wait"} /\ l \in {"in", "wait"}
         \/ pc[c] \in {"out", "begin", "left"} /\ l \in {"out", "begin", "left"}
  PROVE  OneInside'
BY DEF OneInside, Inside

LEMMA HeapFrame ==
  ASSUME HeapInv, UNCHANGED <<active, raced, accumCap, accumLen, blocks>>,
         \A c \in Contexts : pc'[c] = "free" => pc[c] = "free"
  PROVE  HeapInv'
BY DEF HeapInv, HeapAccounted

LEMMA BeginClaimS ==
  ASSUME SessionInv, NEW c \in Contexts, BeginClaim(c)
  PROVE  OneInside' /\ HeapInv'
<1>1. /\ pc[c] = "begin" /\ pc' = [pc EXCEPT ![c] = "in"] /\ pc \in [Contexts -> Places]
      /\ active' = TRUE /\ owner' = c /\ raced' = (raced \/ active)
      /\ robbed' = (IF \E d \in Contexts : pc[d] = "freed" THEN robbed \cup {c} ELSE robbed \ {c})
      /\ accumLen' = 0 /\ accumCap' = 0 /\ blocks' = blocks
  BY DEF SessionInv, TypeOK, BeginClaim, Goto
<1>2. OneInside'
  <2> SUFFICES ASSUME ~raced' PROVE OneInside'
    BY DEF OneInside
  <2>1. ~raced /\ ~active /\ \A d \in Contexts : ~Inside(d)
    BY <1>1, Zenon DEF SessionInv, OneInside
  <2>2. \A d \in Contexts : Inside(d)' => d = c
    BY <1>1, <2>1 DEF Inside
  <2>3. \A d \in Contexts : pc'[d] = "freed" => c \in robbed'
    BY <1>1
  <2>4. Inside(c)'
    BY <1>1 DEF Inside
  <2> QED
    BY <1>1, <2>2, <2>3, <2>4 DEF OneInside
<1>3. HeapInv'
  <2> SUFFICES ASSUME ~raced' PROVE HeapAccounted'
    BY <1>1 DEF SessionInv, HeapInv, HeapAccounted
  <2>1. ~raced /\ ~active
    BY <1>1, Zenon
  <2> QED
    BY <1>1, <2>1 DEF SessionInv, HeapInv, HeapAccounted
<1> QED
  BY <1>2, <1>3

LEMMA FreeS ==
  ASSUME SessionInv, NEW c \in Contexts, Free(c)
  PROVE  OneInside' /\ HeapInv'
<1>1. /\ pc[c] \in {"out", "in"} /\ pc' = [pc EXCEPT ![c] = "free"] /\ pc \in [Contexts -> Places]
      /\ active /\ owner = c /\ UNCHANGED <<active, owner, raced, robbed>>
      /\ accumLen' = 0 /\ accumCap' = 0 /\ blocks' = IF accumCap > 0 THEN blocks - 1 ELSE blocks
  BY DEF SessionInv, TypeOK, Free, FreeBuffers, Goto, sessionVars
<1>2. OneInside'
  <2> SUFFICES ASSUME ~raced PROVE OneInside'
    BY <1>1 DEF OneInside
  <2>1. pc[c] = "in"
    BY <1>1 DEF SessionInv, OneInside, Inside
  <2>2. \A d \in Contexts : Inside(d)' = Inside(d) /\ (pc'[d] = "freed") = (pc[d] = "freed")
    BY <1>1, <2>1 DEF Inside
  <2> QED
    BY <1>1, <2>2 DEF SessionInv, OneInside
<1>3. HeapInv'
  BY <1>1, ShaAssumption DEF SessionInv, TypeOK, HeapInv, HeapAccounted
<1> QED
  BY <1>2, <1>3

LEMMA FreeActiveS ==
  ASSUME SessionInv, NEW c \in Contexts, FreeActive(c)
  PROVE  OneInside' /\ HeapInv'
<1>1. /\ pc[c] = "free" /\ pc' = [pc EXCEPT ![c] = "freed"] /\ pc \in [Contexts -> Places]
      /\ active' = FALSE /\ UNCHANGED <<owner, raced, robbed, accumLen, accumCap, blocks>>
  BY DEF SessionInv, TypeOK, FreeActive, Goto, bufferVars
<1>2. OneInside'
  <2> SUFFICES ASSUME ~raced PROVE OneInside'
    BY <1>1 DEF OneInside
  <2>1. \A d \in Contexts : Inside(d) => d = c
    BY <1>1 DEF SessionInv, OneInside, Inside
  <2>2. \A d \in Contexts : ~Inside(d)'
    BY <1>1, <2>1 DEF Inside
  <2>3. \A d \in Contexts : owner' = d => pc'[d] = "freed"
    BY <1>1, <2>1 DEF SessionInv, OneInside
  <2> QED
    BY <2>2, <2>3 DEF OneInside
<1>3. HeapInv'
  BY <1>1 DEF SessionInv, HeapInv, HeapAccounted
<1> QED
  BY <1>2, <1>3

LEMMA FreeOwnerS ==
  ASSUME SessionInv, NEW c \in Contexts, FreeOwner(c)
  PROVE  OneInside' /\ HeapInv'
<1>1. /\ pc[c] = "freed" /\ pc' = [pc EXCEPT ![c] = "left"] /\ pc \in [Contexts -> Places]
      /\ owner' = None /\ UNCHANGED <<active, raced, robbed, accumLen, accumCap, blocks>>
  BY DEF SessionInv, TypeOK, FreeOwner, Goto, bufferVars
<1>2. OneInside'
  <2> SUFFICES ASSUME ~raced PROVE OneInside'
    BY <1>1 DEF OneInside
  <2>1. \A d \in Contexts : Inside(d)' = Inside(d) /\ (pc'[d] = "freed" => pc[d] = "freed")
    BY <1>1 DEF Inside
  <2>2. \A d \in Contexts : Inside(d) => d \in robbed
    BY <1>1 DEF SessionInv, OneInside
  <2>3. \A d \in Contexts : owner' # d
    BY <1>1, NoneIsNoContext
  <2> QED
    BY <1>1, <2>1, <2>2, <2>3 DEF SessionInv, OneInside
<1>3. HeapInv'
  BY <1>1, HeapFrame DEF SessionInv
<1> QED
  BY <1>2, <1>3

LEMMA UpdateS ==
  ASSUME SessionInv, NEW c \in Contexts, Update(c)
  PROVE  OneInside' /\ HeapInv'
<1>1. PICK len \in Lengths :
        UpdateSmall(c, len) \/ UpdateAccum(c, len) \/ UpdateNoMemory(c, len) \/ UpdateChunk(c, len)
  BY DEF Update
<1>2. UNCHANGED <<active, owner, state, pc, raced, robbed>> /\ Serves(c)
  BY <1>1 DEF UpdateSmall, UpdateAccum, UpdateNoMemory, UpdateChunk, sessionVars
<1>3. OneInside'
  BY <1>2 DEF SessionInv, OneInside, Inside
<1>4. CASE UpdateAccum(c, len)
  <2>1. accumCap' \in Nat \ {0} /\ accumLen' \in Nat \ {0}
    BY <1>4, AccumFits, ShaAssumption DEF SessionInv, UpdateAccum
  <2>2. ~raced => active /\ \A d \in Contexts : pc[d] # "free"
    BY <1>2 DEF SessionInv, OneInside, Inside, Serves
  <2>3. HeapAccounted' /\ blocks' \in Int
    BY <1>4, <2>1, ShaAssumption DEF SessionInv, TypeOK, HeapInv, HeapAccounted, UpdateAccum, Grow
  <2> QED
    BY <1>2, <1>3, <2>1, <2>2, <2>3 DEF HeapInv
<1>5. CASE UpdateSmall(c, len) \/ UpdateNoMemory(c, len) \/ UpdateChunk(c, len)
  <2>1. UNCHANGED <<accumCap, accumLen, blocks>>
    BY <1>5 DEF UpdateSmall, UpdateNoMemory, UpdateChunk, bufferVars
  <2> QED
    BY <1>2, <1>3, <2>1, HeapFrame DEF SessionInv
<1> QED
  BY <1>1, <1>4, <1>5

LEMMA SessionStep ==
  ASSUME SessionInv, [Next]_vars
  PROVE  SessionInv'
<1>0. TypeOK'
  BY TypeStep DEF SessionInv
<1>1. CASE UNCHANGED vars \/ EngineDone \/ \E n \in Totals : SetTotal(n)
  <2>1. UNCHANGED <<active, owner, pc, raced, robbed, accumCap, accumLen, blocks>>
    BY <1>1 DEF vars, EngineDone, SetTotal, sessionVars, bufferVars
  <2>2. OneInside'
    BY <2>1 DEF SessionInv, OneInside, Inside
  <2> QED
    BY <1>0, <2>1, <2>2, HeapFrame DEF SessionInv
<1>2. ASSUME NEW c \in Contexts, Client(c)
      PROVE  SessionInv'
  <2>0. pc \in [Contexts -> Places]
    BY DEF SessionInv, TypeOK
  <2>1. ASSUME UNCHANGED <<active, owner, raced, robbed, accumCap, accumLen, blocks>>,
               NEW l, pc' = [pc EXCEPT ![c] = l],
               \/ pc[c] \in {"in", "wait"} /\ l \in {"in", "wait"}
               \/ pc[c] \in {"out", "begin", "left"} /\ l \in {"out", "begin", "left"}
        PROVE  SessionInv'
    <3>1. OneInside'
      BY <2>0, <2>1, InsideFrame DEF SessionInv
    <3>2. \A d \in Contexts : pc'[d] = "free" => pc[d] = "free"
      BY <2>0, <2>1
    <3> QED
      BY <1>0, <2>1, <3>1, <3>2, HeapFrame DEF SessionInv
  <2>2. CASE BeginCheck(c)
    BY <2>1, <2>2 DEF BeginCheck, Goto, sessionVars, bufferVars
  <2>3. CASE Refused(c)
    <3>1. pc' = [pc EXCEPT ![c] = "out"] /\ pc[c] = "in" /\ ~(active /\ owner = c)
          /\ UNCHANGED <<active, owner, raced, robbed, accumCap, accumLen, blocks>>
      BY <2>3 DEF Refused, Goto, sessionVars, bufferVars
    <3>2. OneInside'
      <4> SUFFICES ASSUME ~raced PROVE OneInside'
        BY <3>1 DEF OneInside
      <4>1. \A d \in Contexts : Inside(d)' => Inside(d) /\ (pc'[d] = "freed") = (pc[d] = "freed")
        BY <2>0, <3>1 DEF Inside
      <4>2. \A d \in Contexts : (pc'[d] = "freed") = (pc[d] = "freed")
        BY <2>0, <3>1
      <4>3. owner # c
        BY <3>1 DEF SessionInv, OneInside, Inside
      <4>4. \A d \in Contexts \ {c} : Inside(d)' = Inside(d)
        BY <2>0, <3>1 DEF Inside
      <4> QED
        BY <3>1, <4>1, <4>2, <4>3, <4>4 DEF SessionInv, OneInside
    <3>3. \A d \in Contexts : pc'[d] = "free" => pc[d] = "free"
      BY <2>0, <3>1
    <3> QED
      BY <1>0, <3>1, <3>2, <3>3, HeapFrame DEF SessionInv
  <2>4. CASE BeginClaim(c)
    BY <1>0, <2>4, BeginClaimS DEF SessionInv
  <2>5. CASE Free(c) \/ FreeActive(c) \/ FreeOwner(c)
    BY <1>0, <2>5, FreeS, FreeActiveS, FreeOwnerS DEF SessionInv
  <2>6. CASE FreeState(c)
    BY <2>1, <2>6 DEF FreeState, Goto, bufferVars
  <2>7. CASE Update(c)
    BY <1>0, <2>7, UpdateS DEF SessionInv
  <2>8. CASE FinishNoOutput(c)
    <3>1. pc' = pc /\ UNCHANGED <<active, owner, raced, robbed, accumCap, accumLen, blocks>>
      BY <2>8 DEF FinishNoOutput, bufferVars
    <3>2. OneInside'
      BY <3>1 DEF SessionInv, OneInside, Inside
    <3> QED
      BY <1>0, <3>1, <3>2, HeapFrame DEF SessionInv
  <2>9. CASE FinishFeed(c)
    BY <2>1, <2>9 DEF FinishFeed, Serves, Goto, bufferVars
  <2>10. CASE FinishChunked(c)
    BY <2>1, <2>10 DEF FinishChunked, Serves, Goto, bufferVars
  <2>11. CASE FinishDone(c)
    BY <2>1, <2>11 DEF FinishDone, Goto, bufferVars
  <2>12. CASE FinishTimeout(c)
    BY <2>1, <2>12 DEF FinishTimeout, Goto, bufferVars
  <2> QED
    BY <1>2, <2>2, <2>3, <2>4, <2>5, <2>6, <2>7, <2>8, <2>9, <2>10, <2>11, <2>12 DEF Client
<1> QED
  BY <1>1, <1>2 DEF Next

LEMMA SessionInit == Init => SessionInv
<1> SUFFICES ASSUME Init PROVE SessionInv
  OBVIOUS
<1>1. OneInside
  <2>1. owner = None /\ \A c \in Contexts : ~Inside(c)
    BY DEF Init, Inside
  <2>2. \A c \in Contexts : owner # c
    BY <2>1, NoneIsNoContext
  <2> QED
    BY <2>1, <2>2 DEF OneInside
<1>2. HeapInv
  BY DEF Init, HeapInv, HeapAccounted
<1> QED
  BY <1>1, <1>2, TypeInit DEF SessionInv

(* As long as no two begins overlap, a session stays active until its free, *)
(* however many other clients are refused, free or collect, and its client  *)
(* the owner, unless its begin came between the first two writes that end   *)
(* another's free (robbed).  In both exceptions the driver does lose the    *)
(* session.                                                                *)
THEOREM SessionIsKept == Spec => []SessionKept
<1>1. SessionInv => SessionKept
  BY DEF SessionInv, SessionKept, OneInside, Inside
<1> QED
  BY <1>1, SessionInit, SessionStep, PTL DEF Spec

(* Unless two begins overlap, no heap block is leaked or freed twice: also  *)
(* not when a begin comes before the free of the session before is over.   *)
THEOREM HeapIsAccounted == Spec => []HeapAccounted
<1>1. SessionInv => HeapAccounted
  BY DEF SessionInv, HeapInv
<1> QED
  BY <1>1, SessionInit, SessionStep, PTL DEF Spec

-----------------------------------------------------------------------------
(* The bytes of a message, whose definition is a recursive function.       *)

LEMMA BytesDef ==
  ASSUME NEW m \in Seq(Pieces)
  PROVE  \E s \in [0 .. Len(m) -> Nat] :
           /\ s[0] = 0 /\ \A i \in 1 .. Len(m) : s[i] = s[i - 1] + m[i].len
           /\ BytesOf(m) = s[Len(m)]
<1> DEFINE n == Len(m)
           F(g) == [i \in 0 .. n |-> IF i = 0 THEN 0 ELSE g[i - 1] + m[i].len]
           D == [p \in Nat \X (1 .. n) |-> p[1] + m[p[2]].len]
           s == CHOOSE g : g = F(g)
<1>0. n \in Nat /\ \A i \in 1 .. n : m[i].len \in Nat
  <2>1. n \in Nat /\ \A i \in 1 .. n : m[i] \in Pieces
    OBVIOUS
  <2>2. \A u \in Pieces : u.len \in Nat
    BY ShaAssumption DEF Pieces
  <2> QED
    BY <2>1, <2>2
<1>1. D \in [Nat \X (1 .. n) -> Nat]
  BY <1>0
<1>2. PICK f \in [0 .. n -> Nat] : f[0] = 0 /\ \A i \in 1 .. n : f[i] = D[<<f[i - 1], i>>]
  <2>1. n \in Nat /\ 0 \in Nat
    BY <1>0
  <2> HIDE DEF D, n
  <2>2. PICK f : Steps(Nat, n, 0, D, f)
    BY <2>1, <1>1, StepFunction, Zenon
  <2> QED
    BY <2>2 DEF Steps
<1>3. f = F(f)
  <2>1. ASSUME NEW i \in 1 .. n PROVE f[i] = f[i - 1] + m[i].len
    <3>0. i - 1 \in 0 .. n /\ f \in [0 .. n -> Nat]
      BY <1>0, <1>2, <2>1
    <3>1. <<f[i - 1], i>> \in Nat \X (1 .. n)
      <4> HIDE DEF n
      <4> QED
        BY <3>0, <2>1
    <3>2. f[i] = D[<<f[i - 1], i>>]
      BY <1>2, <2>1
    <3> DEFINE p == <<f[i - 1], i>>
    <3>3. D[p] = p[1] + m[p[2]].len
      BY <3>1
    <3> QED
      BY <3>2, <3>3
  <2>2. \A i \in 0 .. n : f[i] = IF i = 0 THEN 0 ELSE f[i - 1] + m[i].len
    BY <1>0, <1>2, <2>1
  <2>3. f = [i \in 0 .. n |-> f[i]]
    BY <1>2
  <2> QED
    BY <2>2, <2>3
<1>4. s = F(s)
  <2> HIDE DEF F
  <2> QED
    BY <1>3
<1>5. s[0] = 0 /\ \A i \in 1 .. n : s[i] = s[i - 1] + m[i].len
  BY <1>0, <1>4
<1>6. BytesOf(m) = s[n]
  BY DEF BytesOf
<1>7. s = [i \in 0 .. n |-> s[i]]
  <2>1. \A i \in 0 .. n : s[i] = F(s)[i]
    BY <1>4
  <2> HIDE DEF s
  <2>2. F(s) = [i \in 0 .. n |-> F(s)[i]]
    OBVIOUS
  <2> QED
    BY <1>4, <2>1, <2>2
<1> HIDE DEF s
<1>8. \A i \in 0 .. n : s[i] \in Nat
  <2> DEFINE K == {i \in Nat : i <= n => s[i] \in Nat}
  <2>1. 0 \in K
    BY <1>5
  <2>2. ASSUME NEW k \in Nat, k \in K PROVE k + 1 \in K
    BY <1>0, <1>5, <2>2
  <2> HIDE DEF K
  <2>3. Nat \subseteq K
    BY <2>1, <2>2, SetInduction
  <2> QED
    BY <1>0, <2>3 DEF K
<1>9. s \in [0 .. n -> Nat]
  BY <1>7, <1>8
<1> QED
  BY <1>5, <1>6, <1>9

LEMMA NoBytes == BytesOf(<<>>) = 0
<1>1. <<>> \in Seq(Pieces) /\ Len(<<>>) = 0
  OBVIOUS
<1> QED
  BY <1>1, BytesDef

LEMMA BytesNat ==
  ASSUME NEW m \in Seq(Pieces)
  PROVE  BytesOf(m) \in Nat /\ (BytesOf(m) = 0 => m = <<>>)
<1>1. PICK s \in [0 .. Len(m) -> Nat] :
           /\ s[0] = 0 /\ \A i \in 1 .. Len(m) : s[i] = s[i - 1] + m[i].len
           /\ BytesOf(m) = s[Len(m)]
  BY BytesDef
<1>2. Len(m) \in Nat /\ BytesOf(m) \in Nat
  BY <1>1
<1>3. ASSUME m # <<>> PROVE BytesOf(m) # 0
  <2>1. Len(m) \in 1 .. Len(m)
    BY <1>3
  <2>2. m[Len(m)] \in Pieces /\ s[Len(m) - 1] \in Nat
    BY <2>1, <1>2
  <2>3. m[Len(m)].len \in Nat \ {0}
    BY <2>2, ShaAssumption DEF Pieces
  <2>4. s[Len(m)] = s[Len(m) - 1] + m[Len(m)].len
    BY <1>1, <2>1
  <2> QED
    BY <1>1, <2>2, <2>3, <2>4
<1> QED
  BY <1>2, <1>3

LEMMA BytesAppend ==
  ASSUME NEW m \in Seq(Pieces), NEW u \in Pieces
  PROVE  BytesOf(Append(m, u)) = BytesOf(m) + u.len
<1> DEFINE n == Len(m)
           a == Append(m, u)
<1>0. /\ n \in Nat /\ a \in Seq(Pieces) /\ Len(a) = n + 1
      /\ a[n + 1] = u /\ \A i \in 1 .. n : a[i] = m[i]
  OBVIOUS
<1> HIDE DEF a
<1>1. PICK s \in [0 .. n -> Nat] :
           s[0] = 0 /\ (\A i \in 1 .. n : s[i] = s[i - 1] + m[i].len) /\ BytesOf(m) = s[n]
  BY BytesDef
<1>2. PICK t \in [0 .. n + 1 -> Nat] :
           t[0] = 0 /\ (\A i \in 1 .. n + 1 : t[i] = t[i - 1] + a[i].len) /\ BytesOf(a) = t[n + 1]
  BY <1>0, BytesDef
<1> HIDE DEF n
<1>3. t[n] = s[n]
  <2> DEFINE K == {i \in Nat : i <= n => t[i] = s[i]}
  <2>1. 0 \in K
    BY <1>1, <1>2
  <2>2. ASSUME NEW k \in Nat, k \in K PROVE k + 1 \in K
    <3> SUFFICES ASSUME k + 1 <= n PROVE t[k + 1] = s[k + 1]
      OBVIOUS
    <3>1. k + 1 \in 1 .. n /\ k + 1 \in 1 .. n + 1 /\ (k + 1) - 1 = k /\ k <= n
      BY <1>0
    <3>2. t[k] = s[k]
      BY <2>2, <3>1
    <3> QED
      BY <1>0, <1>1, <1>2, <3>1, <3>2
  <2> HIDE DEF K
  <2>3. Nat \subseteq K
    BY <2>1, <2>2, SetInduction
  <2> QED
    BY <1>0, <2>3 DEF K
<1>4. t[n + 1] = t[n] + a[n + 1].len
  <2>1. n + 1 \in 1 .. n + 1 /\ (n + 1) - 1 = n
    BY <1>0
  <2> QED
    BY <1>2, <2>1
<1> QED
  BY <1>0, <1>1, <1>2, <1>3, <1>4 DEF a

-----------------------------------------------------------------------------
(* The digest.                                                             *)

Outs    == [in : Seq(Pieces), words : Nat, pad : Int, valid : Nat]
Engines == [on : BOOLEAN, words : Nat, pad : Int, valid : Nat, got : Nat,
            in : Seq(Pieces), sta : BOOLEAN, out : Outs]

DigestTypes ==
  /\ engine \in Engines
  /\ message \in [Contexts -> Seq(Pieces)]
  /\ result \in [Contexts -> [done : BOOLEAN, got : Outs, want : Outs, excused : BOOLEAN]]

LEMMA Numbers ==
  ASSUME NEW n \in Nat
  PROVE  /\ Words(n) \in Nat /\ ValidBytes(n) \in Nat /\ PadReference(n) \in Int
         /\ PadPacket(n) % 32 = PadReference(n)
<1>1. Words(n) \in Nat /\ ValidBytes(n) \in Nat /\ Blocks(n) \in Int
  BY SMT DEF Words, ValidBytes, Blocks
<1>2. PadReference(n) \in Int
  BY <1>1 DEF PadReference
<1> QED
  BY <1>1, <1>2, PaddingIsStandard

(* A length is known by its words and the bytes of the last one.           *)
LEMMA LengthsDiffer ==
  ASSUME NEW n \in Nat, NEW k \in Nat, Words(n) = Words(k), ValidBytes(n) = ValidBytes(k)
  PROVE  n = k
<1>1. \A i \in Nat : \E q \in Nat, r \in 0 .. 3 : i = 4 * q + r
  <2> TAKE i \in Nat
  <2>1. i = 4 * (i \div 4) + (i % 4) /\ i \div 4 \in Nat /\ i % 4 \in 0 .. 3
    BY SMT
  <2> QED
    BY <2>1
<1>2. PICK a \in Nat, b \in 0 .. 3 : n = 4 * a + b
  BY <1>1
<1>3. PICK c \in Nat, d \in 0 .. 3 : k = 4 * c + d
  BY <1>1
<1>4. n % 4 = b /\ (n + 3) \div 4 = a + (b + 3) \div 4
  BY <1>2, SMT
<1>5. k % 4 = d /\ (k + 3) \div 4 = c + (d + 3) \div 4
  BY <1>3, SMT
<1>6. b = d
  BY <1>4, <1>5 DEF ValidBytes
<1>7. a + (b + 3) \div 4 = c + (b + 3) \div 4
  BY <1>4, <1>5, <1>6 DEF Words
<1>8. (b + 3) \div 4 \in Int
  BY SMT
<1>9. a = c
  BY <1>7, <1>8
<1> QED
  BY <1>2, <1>3, <1>6, <1>9

(* After whole words the words of the next chunk are added up.             *)
LEMMA WordsAdd ==
  ASSUME NEW g \in Nat, NEW n \in Nat
  PROVE  Words(g * 4 + n) = g + Words(n)
BY SMT DEF Words

LEMMA NoOut == NoDigest \in Outs /\ EngineReset \in Engines
BY DEF NoDigest, Digest, Outs, EngineReset, Engines

LEMMA DigestOfType == ASSUME NEW m \in Seq(Pieces) PROVE DigestOf(m) \in Outs
BY BytesNat, Numbers DEF DigestOf, Digest, Outs

LEMMA StartedType ==
  ASSUME NEW e \in Engines, NEW w \in Nat, NEW p \in Int, NEW v \in Nat
  PROVE  /\ Started(e, w, p, v) \in Engines
         /\ Started(e, w, p, v).on /\ Started(e, w, p, v).words = w /\ Started(e, w, p, v).pad = p
         /\ Started(e, w, p, v).valid = v /\ Started(e, w, p, v).got = 0 /\ Started(e, w, p, v).in = <<>>
         /\ Started(e, w, p, v).sta = e.sta /\ Started(e, w, p, v).out = e.out
<1>1. 0 \in Nat /\ <<>> \in Seq(Pieces)
  OBVIOUS
<1> QED
  BY <1>1 DEF Started, Engines

LEMMA FedType ==
  ASSUME NEW e \in Engines, NEW m \in Seq(Pieces), NEW w \in Nat
  PROVE  /\ Fed(e, m, w) \in Engines
         /\ Fed(e, m, w).in = e.in \o m /\ Fed(e, m, w).got = e.got + w
         /\ Fed(e, m, w).on = e.on /\ Fed(e, m, w).words = e.words /\ Fed(e, m, w).pad = e.pad
         /\ Fed(e, m, w).valid = e.valid /\ Fed(e, m, w).sta = e.sta /\ Fed(e, m, w).out = e.out
<1>1. e.in \o m \in Seq(Pieces) /\ e.got + w \in Nat
  BY DEF Engines
<1> QED
  BY <1>1 DEF Fed, Engines

(* The first chunk starts the engine for the announced length, the later   *)
(* ones are added to it.                                                   *)
LEMMA Processed ==
  ASSUME TypeOK, DigestTypes, NEW u \in Pieces
  PROVE  /\ Process(u) \in Engines
         /\ chunkValid => /\ Process(u).in = Append(engine.in, u) /\ Process(u).got = engine.got + Words(u.len)
                          /\ Process(u).words = engine.words /\ Process(u).pad = engine.pad
                          /\ Process(u).valid = engine.valid /\ Process(u).sta = engine.sta
                          /\ Process(u).out = engine.out
         /\ ~chunkValid => /\ Process(u).in = <<u>> /\ Process(u).got = Words(u.len) /\ ~Process(u).sta
                           /\ total.known => /\ Process(u).words = Words(total.bytes)
                                             /\ Process(u).pad = PadReference(total.bytes)
                                             /\ Process(u).valid = ValidBytes(total.bytes)
<1> DEFINE one == <<u>>
<1>1. u.len \in Nat /\ Words(u.len) \in Nat /\ one \in Seq(Pieces) /\ engine \in Engines
  <2>1. u.len \in Nat
    BY ShaAssumption DEF Pieces
  <2>2. one \in Seq(Pieces)
    OBVIOUS
  <2>3. Words(u.len) \in Nat
    BY <2>1, Numbers
  <2> QED
    BY <2>1, <2>2, <2>3 DEF DigestTypes
<1>2. CASE chunkValid
  <2>1. Process(u) = Fed(engine, one, Words(u.len))
    BY <1>2 DEF Process
  <2>2. engine.in \o one = Append(engine.in, u)
    BY <1>1 DEF Engines
  <2> HIDE DEF one
  <2> DEFINE f == Fed(engine, one, Words(u.len))
  <2>3. /\ f \in Engines
        /\ f.in = engine.in \o one /\ f.got = engine.got + Words(u.len)
        /\ f.words = engine.words /\ f.pad = engine.pad
        /\ f.valid = engine.valid /\ f.sta = engine.sta /\ f.out = engine.out
    BY <1>1, FedType
  <2> HIDE DEF f
  <2> QED
    BY <1>2, <2>1, <2>2, <2>3 DEF f
<1>3. CASE ~chunkValid
  <2> DEFINE n == IF total.known THEN total.bytes ELSE u.len
             p == IF total.known THEN PadPacket(n) % 32 ELSE 0
             v == IF total.known THEN ValidBytes(n) ELSE 0
             e == Started(EngineReset, Words(n), p, v)
  <2>1. n \in Nat
    BY <1>1 DEF TypeOK
  <2>2. Words(n) \in Nat /\ p \in Int /\ v \in Nat /\ (total.known => p = PadReference(total.bytes))
    BY <2>1, Numbers
  <2>3. Process(u) = Fed(e, one, Words(u.len))
    BY <1>3 DEF Process
  <2>4. /\ e \in Engines /\ e.got = 0 /\ e.in = <<>> /\ ~e.sta
        /\ e.words = Words(n) /\ e.pad = p /\ e.valid = v
    <3>1. ~EngineReset.sta
      BY DEF EngineReset
    <3>2. EngineReset \in Engines /\ Words(n) \in Nat /\ p \in Int /\ v \in Nat
      BY <2>2, NoOut
    <3> HIDE DEF n, p, v
    <3>3. /\ e \in Engines /\ e.got = 0 /\ e.in = <<>> /\ e.sta = EngineReset.sta
          /\ e.words = Words(n) /\ e.pad = p /\ e.valid = v
      BY <3>2, StartedType
    <3> HIDE DEF e
    <3> QED
      BY <3>1, <3>3
  <2>5. <<>> \o one = one /\ 0 + Words(u.len) = Words(u.len)
    BY <1>1
  <2>6. /\ Process(u) \in Engines /\ Process(u).in = one /\ Process(u).got = Words(u.len) /\ ~Process(u).sta
        /\ Process(u).words = Words(n) /\ Process(u).pad = p /\ Process(u).valid = v
    <3> HIDE DEF e, one, p, v, n
    <3> DEFINE f == Fed(e, one, Words(u.len))
    <3>1. /\ f \in Engines /\ f.in = e.in \o one /\ f.got = e.got + Words(u.len)
          /\ f.words = e.words /\ f.pad = e.pad /\ f.valid = e.valid /\ f.sta = e.sta
      BY <1>1, <2>4, FedType
    <3> HIDE DEF f
    <3> QED
      BY <2>3, <2>4, <2>5, <3>1 DEF f
  <2> HIDE DEF p, e
  <2>7. total.known => p = PadReference(total.bytes)
    BY <2>2
  <2> QED
    BY <1>3, <2>6, <2>7
<1> QED
  BY <1>2, <1>3

LEMMA TypesStep ==
  ASSUME TypeOK, DigestTypes, [Next]_vars
  PROVE  DigestTypes'
<1>0. /\ engine \in Engines /\ message \in [Contexts -> Seq(Pieces)]
      /\ result \in [Contexts -> [done : BOOLEAN, got : Outs, want : Outs, excused : BOOLEAN]]
  BY DEF DigestTypes
<1>1. CASE UNCHANGED vars
  BY <1>1 DEF DigestTypes, vars, clientVars
<1>2. CASE EngineDone
  <2> DEFINE o == Digest(engine.in, engine.got, engine.pad, engine.valid)
  <2>1. o \in Outs
    BY <1>0 DEF Engines, Outs, Digest
  <2>2. engine' = [engine EXCEPT !.on = FALSE, !.sta = TRUE, !.out = o]
    BY <1>2 DEF EngineDone
  <2> HIDE DEF o
  <2>3. engine' \in Engines
    BY <1>0, <2>1, <2>2 DEF Engines
  <2> QED
    BY <1>2, <2>3 DEF DigestTypes, EngineDone, clientVars
<1>3. ASSUME NEW n \in Totals, SetTotal(n) PROVE DigestTypes'
  BY <1>3 DEF DigestTypes, SetTotal, clientVars
<1>4. ASSUME NEW c \in Contexts, Client(c) PROVE DigestTypes'
  <2>1. CASE \/ BeginCheck(c) \/ FreeActive(c) \/ FreeOwner(c) \/ FreeState(c)
             \/ FinishNoOutput(c) \/ FinishChunked(c) \/ FinishTimeout(c)
    <3>1. UNCHANGED <<engine, message, result>>
      BY <2>1 DEF BeginCheck, FreeActive, FreeOwner, FreeState, FinishNoOutput, FinishChunked,
                  FinishTimeout, clientVars
    <3> QED
      BY <3>1 DEF DigestTypes
  <2>2. CASE BeginClaim(c) \/ Free(c) \/ Refused(c)
    <3>1. <<>> \in Seq(Pieces)
      OBVIOUS
    <3>2. NoResult \in [done : BOOLEAN, got : Outs, want : Outs, excused : BOOLEAN]
      BY NoOut DEF NoResult
    <3>3. /\ engine' \in {engine, EngineReset} /\ message' = [message EXCEPT ![c] = <<>>]
          /\ result' = [result EXCEPT ![c] = NoResult]
      BY <2>2 DEF BeginClaim, Free, Refused, Forget
    <3>4. message' \in [Contexts -> Seq(Pieces)]
      BY <1>0, <3>1, <3>3
    <3>5. result' \in [Contexts -> [done : BOOLEAN, got : Outs, want : Outs, excused : BOOLEAN]]
      BY <1>0, <3>2, <3>3
    <3> QED
      BY <1>0, <3>3, <3>4, <3>5, NoOut DEF DigestTypes
  <2>3. CASE Update(c)
    <3>1. PICK len \in Lengths :
            /\ updates < MaxUpdates
            /\ UpdateSmall(c, len) \/ UpdateAccum(c, len) \/ UpdateNoMemory(c, len) \/ UpdateChunk(c, len)
      BY <2>3 DEF Update
    <3>2. Piece(len) \in Pieces
      BY <3>1, ShaAssumption DEF TypeOK, Piece, Pieces
    <3>3. Accept(c, Piece(len)) => message' \in [Contexts -> Seq(Pieces)]
      <4>1. Append(message[c], Piece(len)) \in Seq(Pieces)
        BY <1>0, <3>2
      <4> QED
        BY <1>0, <4>1 DEF Accept
    <3>4. Process(Piece(len)) \in Engines
      BY <3>2, Processed
    <3>5. /\ engine' = engine \/ engine' = Process(Piece(len))
          /\ message' = message \/ Accept(c, Piece(len))
          /\ result' = result
      BY <3>1 DEF UpdateSmall, UpdateAccum, UpdateNoMemory, UpdateChunk, clientVars
    <3> QED
      BY <1>0, <3>3, <3>4, <3>5 DEF DigestTypes
  <2>4. CASE FinishFeed(c)
    <3> DEFINE src == IF useAccum THEN accum ELSE buffer
               len == IF useAccum THEN accumLen ELSE bufferLen
               e == Started(engine, Words(len), PadPacket(len) % 32, ValidBytes(len))
    <3>1. src \in Seq(Pieces) /\ len \in Nat
      BY ShaAssumption DEF TypeOK
    <3>2. engine' = Fed(e, src, Words(len)) /\ UNCHANGED <<message, result>>
      BY <2>4 DEF FinishFeed, clientVars
    <3> HIDE DEF src, len
    <3>3. e \in Engines
      BY <1>0, <3>1, Numbers, StartedType
    <3> HIDE DEF e
    <3>4. engine' \in Engines
      BY <3>1, <3>2, <3>3, Numbers, FedType
    <3> QED
      BY <3>2, <3>4 DEF DigestTypes
  <2>5. CASE FinishDone(c)
    <3> DEFINE r == [done |-> TRUE, got |-> engine.out, want |-> DigestOf(message[c]), excused |-> gaps # {}]
    <3>1. /\ engine' = [engine EXCEPT !.sta = FALSE] /\ message' = message
          /\ result' = [result EXCEPT ![c] = r]
      BY <2>5 DEF FinishDone
    <3>2. r \in [done : BOOLEAN, got : Outs, want : Outs, excused : BOOLEAN]
      <4>1. engine.out \in Outs /\ DigestOf(message[c]) \in Outs /\ (gaps # {}) \in BOOLEAN
        BY <1>0, DigestOfType DEF Engines
      <4> QED
        BY <4>1
    <3> HIDE DEF r
    <3>3. engine' \in Engines
      BY <1>0, <3>1 DEF Engines
    <3>4. result' \in [Contexts -> [done : BOOLEAN, got : Outs, want : Outs, excused : BOOLEAN]]
      BY <1>0, <3>1, <3>2
    <3> QED
      BY <1>0, <3>1, <3>3, <3>4 DEF DigestTypes
  <2> QED
    BY <1>4, <2>1, <2>2, <2>3, <2>4, <2>5 DEF Client
<1> QED
  BY <1>1, <1>2, <1>3, <1>4 DEF Next

LEMMA TypesInit == Init => DigestTypes
<1> SUFFICES ASSUME Init PROVE DigestTypes
  OBVIOUS
<1>1. <<>> \in Seq(Pieces)
  OBVIOUS
<1>2. NoResult \in [done : BOOLEAN, got : Outs, want : Outs, excused : BOOLEAN]
  BY NoOut DEF NoResult
<1> QED
  BY <1>1, <1>2, NoOut DEF Init, DigestTypes

(* While a session collects, the buffer in use holds the message, and the  *)
(* engine is idle until a finish has given it the message; unless a free    *)
(* has ended the error of a session that had given up waiting for it.      *)
Gathered(c) ==
  /\ ~chunkValid
  /\ IF useAccum
     THEN message[c] = accum /\ accumLen = BytesOf(accum) /\ buffer = <<>> /\ bufferLen = 0
     ELSE message[c] = buffer /\ bufferLen = BytesOf(buffer) /\ accum = <<>> /\ accumLen = 0

EngineIdle(c) == "revived" \notin gaps =>
  /\ pc[c] = "in" /\ state # "error" => ~engine.on /\ ~engine.sta
  /\ pc[c] = "wait" /\ engine.on =>
       Digest(engine.in, engine.got, engine.pad, engine.valid) = DigestOf(message[c])
  /\ pc[c] = "wait" /\ engine.sta => ~engine.on /\ engine.out = DigestOf(message[c])

(* Once it has gone over to chunks without a gap, the engine has the       *)
(* message and was started for some announced length, which a finish has   *)
(* found to be the message's; it may be done before the message is.        *)
Announced(n) == engine.words = Words(n) /\ engine.valid = ValidBytes(n) /\ engine.pad = PadReference(n)

Streamed(c) ==
  /\ chunkValid
  /\ engine.in = message[c] /\ engine.got = Words(BytesOf(message[c]))
  /\ \E n \in Nat : Announced(n)
  /\ pc[c] = "wait" => /\ engine.words = Words(BytesOf(message[c]))
                       /\ engine.valid = ValidBytes(BytesOf(message[c]))
  /\ engine.sta => /\ engine.words <= engine.out.words /\ engine.out.words <= engine.got
                   /\ engine.out.pad = engine.pad /\ engine.out.valid = engine.valid
                   /\ engine.out.words = engine.got => engine.out.in = engine.in

Fits(c) ==
  IF useChunked THEN gaps = {} => Streamed(c) ELSE Gathered(c) /\ EngineIdle(c)

Right(c) == result[c].done /\ ~result[c].excused => result[c].got = result[c].want

DigestInv ==
  ~raced => /\ \A c \in Contexts : Right(c)
            /\ \A c \in Contexts : pc[c] \in {"in", "wait"} => Fits(c)

(* One context at a time is inside the session.                            *)
LEMMA ClientMove ==
  ASSUME SessionInv', DigestInv, NEW c \in Contexts, pc'[c] \in {"in", "wait"},
         \A d \in Contexts \ {c} : result'[d] = result[d],
         ~raced' => ~raced /\ Right(c)' /\ Fits(c)'
  PROVE  DigestInv'
<1> SUFFICES ASSUME ~raced' PROVE (\A d \in Contexts : Right(d)') /\ (\A d \in Contexts : pc'[d] \in {"in", "wait"} => Fits(d)')
  BY DEF DigestInv
<1>1. ASSUME NEW d \in Contexts PROVE Right(d)'
  BY DEF DigestInv, Right
<1>2. ASSUME NEW d \in Contexts, pc'[d] \in {"in", "wait"} PROVE d = c
  BY <1>2, Zenon DEF SessionInv, OneInside, Inside
<1> QED
  BY <1>1, <1>2

(* A context leaves, and nobody else is inside.                            *)
LEMMA Leaves ==
  ASSUME SessionInv, DigestTypes, DigestInv, NEW c \in Contexts, Forget(c), raced' = raced,
         pc'[c] \notin {"in", "wait"}, \A d \in Contexts \ {c} : pc'[d] = pc[d], ~raced => Inside(c)
  PROVE  DigestInv'
<1>1. result'[c] = NoResult /\ \A d \in Contexts \ {c} : result'[d] = result[d]
  BY DEF DigestTypes, Forget
<1>2. ASSUME ~raced, NEW d \in Contexts PROVE Right(d)'
  BY <1>1, <1>2 DEF DigestInv, Right, NoResult
<1>3. ASSUME ~raced, NEW d \in Contexts PROVE pc'[d] \notin {"in", "wait"}
  <2>1. d # c => ~Inside(d)
    BY <1>3 DEF SessionInv, OneInside
  <2> QED
    BY <1>1, <2>1 DEF Inside
<1> QED
  BY <1>2, <1>3 DEF DigestInv

(* What of the driver the invariant of the context inside is about.        *)
fitVars == <<useChunked, chunkValid, useAccum, accum, accumLen, buffer, bufferLen, engine, gaps>>

LEMMA FitsFrame ==
  ASSUME NEW c \in Contexts, UNCHANGED fitVars, message'[c] = message[c], pc'[c] = pc[c],
         state = "error" => state' = "error", Fits(c)
  PROVE  Fits(c)'
<1>1. UNCHANGED <<useChunked, chunkValid, useAccum, accum, accumLen, buffer, bufferLen, engine, gaps>>
  BY DEF fitVars
<1>2. Streamed(c) => Streamed(c)'
  BY <1>1 DEF Streamed, Announced
<1>3. Gathered(c) /\ EngineIdle(c) => Gathered(c)' /\ EngineIdle(c)'
  BY <1>1 DEF Gathered, EngineIdle
<1> QED
  BY <1>1, <1>2, <1>3 DEF Fits

LEMMA BeginClaimD ==
  ASSUME SessionInv, SessionInv', DigestTypes, DigestInv, NEW c \in Contexts, BeginClaim(c)
  PROVE  DigestInv'
<1>1. /\ pc' = [pc EXCEPT ![c] = "in"] /\ raced' = (raced \/ active)
      /\ message' = [message EXCEPT ![c] = <<>>] /\ result' = [result EXCEPT ![c] = NoResult]
      /\ engine' = EngineReset /\ useChunked' = FALSE /\ chunkValid' = FALSE /\ useAccum' = FALSE
      /\ accum' = <<>> /\ accumLen' = 0 /\ buffer' = <<>> /\ bufferLen' = 0
  BY DEF BeginClaim, Forget, Goto
<1>2. pc'[c] = "in" /\ message'[c] = <<>> /\ result'[c] = NoResult
      /\ \A d \in Contexts \ {c} : result'[d] = result[d]
  BY <1>1 DEF SessionInv, TypeOK, DigestTypes
<1>3. Right(c)'
  BY <1>2 DEF Right, NoResult
<1>4. Gathered(c)' /\ EngineIdle(c)'
  <2>1. Gathered(c)'
    BY <1>1, <1>2, NoBytes DEF Gathered
  <2>2. ~engine'.on /\ ~engine'.sta
    BY <1>1 DEF EngineReset
  <2> QED
    BY <1>2, <2>1, <2>2 DEF EngineIdle
<1>5. Fits(c)'
  BY <1>1, <1>4 DEF Fits
<1> QED
  BY <1>1, <1>2, <1>3, <1>5, ClientMove

LEMMA UpdateD ==
  ASSUME SessionInv, SessionInv', DigestTypes, DigestInv, NEW c \in Contexts, Update(c)
  PROVE  DigestInv'
<1>1. PICK len \in Lengths :
        /\ updates < MaxUpdates
        /\ UpdateSmall(c, len) \/ UpdateAccum(c, len) \/ UpdateNoMemory(c, len) \/ UpdateChunk(c, len)
  BY DEF Update
<1> DEFINE u == Piece(len)
           m == message[c]
<1>2. u \in Pieces /\ u.len = len /\ len \in Nat \ {0}
  BY <1>1, ShaAssumption DEF SessionInv, TypeOK, Piece, Pieces
<1>3. UNCHANGED <<sessionVars, pc, result, raced>> /\ Serves(c)
  BY <1>1 DEF UpdateSmall, UpdateAccum, UpdateNoMemory, UpdateChunk, clientVars
<1>4. pc[c] = "in" /\ pc'[c] = "in" /\ state' = state /\ state # "error"
  BY <1>3 DEF Serves, sessionVars
<1>5. m \in Seq(Pieces) /\ engine \in Engines /\ TypeOK
  BY DEF DigestTypes, SessionInv
<1>6. BytesOf(Append(m, u)) = BytesOf(m) + len /\ BytesOf(m) \in Nat
  BY <1>2, <1>5, BytesAppend, BytesNat
<1>7. Accept(c, u) => message'[c] = Append(m, u)
  BY DEF Accept, DigestTypes
<1>8. Right(c)' = Right(c)
  BY <1>3 DEF Right
<1> HIDE DEF u, m
<1>9. SUFFICES ASSUME ~raced, Fits(c) PROVE Fits(c)'
  BY <1>3, <1>4, <1>8, ClientMove DEF DigestInv
<1>10. CASE UpdateSmall(c, len)
  <2>1. /\ TakesSmall(len) /\ buffer' = Append(buffer, u) /\ bufferLen' = bufferLen + len /\ Accept(c, u)
        /\ UNCHANGED <<accum, accumLen, useAccum, useChunked, chunkValid, engine, gaps>>
    BY <1>10 DEF UpdateSmall, chunkVars, u
  <2>2. ~useAccum /\ ~useChunked
    BY <2>1 DEF TakesSmall, LargeInput
  <2>3. Gathered(c)'
    BY <1>6, <1>7, <1>9, <2>1, <2>2 DEF Fits, Gathered, m
  <2>4. EngineIdle(c)'
    BY <1>4, <1>9, <2>1, <2>2 DEF Fits, EngineIdle
  <2> QED
    BY <2>1, <2>2, <2>3, <2>4 DEF Fits
<1>11. CASE UpdateAccum(c, len)
  <2>1. /\ TakesAccum(len) /\ MoveToAccum(u) /\ useAccum' = TRUE /\ Accept(c, u)
        /\ UNCHANGED <<useChunked, chunkValid, engine, gaps>>
    BY <1>11 DEF UpdateAccum, chunkVars, u
  <2>2. ~useChunked
    BY <2>1 DEF TakesAccum, TakesChunk, LargeInput
  <2>3. accum' = Append(m, u)
    <3>1. accum' = accum \o buffer \o <<u>> /\ accum \in Seq(Pieces) /\ buffer \in Seq(Pieces)
      BY <1>5, <2>1 DEF MoveToAccum, TypeOK
    <3>2. accum \o buffer = m
      <4>1. \A s \in Seq(Pieces) : s \o <<>> = s /\ <<>> \o s = s
        OBVIOUS
      <4> QED
        BY <1>9, <2>2, <3>1, <4>1 DEF Fits, Gathered, m
    <3> QED
      BY <1>2, <1>5, <3>1, <3>2
  <2>4. accumLen' = BytesOf(m) + len
    <3>1. accumLen' = accumLen + bufferLen + u.len /\ accumLen \in Nat /\ bufferLen \in Nat
      BY <1>5, <2>1, ShaAssumption DEF MoveToAccum, TypeOK
    <3>2. accumLen + bufferLen = BytesOf(m)
      BY <1>9, <2>2, <3>1 DEF Fits, Gathered, m
    <3> QED
      BY <1>2, <3>1, <3>2
  <2>5. buffer' = <<>> /\ bufferLen' = 0
    BY <2>1 DEF MoveToAccum
  <2>6. Gathered(c)'
    BY <1>6, <1>7, <1>9, <2>1, <2>2, <2>3, <2>4, <2>5 DEF Fits, Gathered
  <2>7. EngineIdle(c)'
    BY <1>4, <1>9, <2>1, <2>2 DEF Fits, EngineIdle
  <2> QED
    BY <2>1, <2>2, <2>6, <2>7 DEF Fits
<1>12. CASE UpdateNoMemory(c, len)
  <2>1. UNCHANGED fitVars /\ message' = message
    BY <1>12 DEF UpdateNoMemory, fitVars, bufferVars, chunkVars, clientVars
  <2> QED
    BY <1>3, <1>4, <1>9, <2>1, FitsFrame
<1>13. CASE UpdateChunk(c, len)
  <2>1. useChunked' /\ chunkValid' /\ engine' = Process(u)
    BY <1>13 DEF UpdateChunk, u
  <2>2. SUFFICES ASSUME gaps' = {} PROVE Streamed(c)'
    BY <2>1 DEF Fits
  <2>3. Accept(c, u) /\ gaps = {} /\ ChunkGaps(c, len) = {}
    BY <1>13, <2>2 DEF UpdateChunk, u
  <2>4. /\ useChunked \/ ~(bufferLen + accumLen > 0)
        /\ chunkValid \/ total.known
        /\ chunkValid => engine.got * 4 = BytesOf(engine.in)
    BY <2>3 DEF ChunkGaps
  <2>5. message'[c] = Append(m, u) /\ BytesOf(message'[c]) = BytesOf(m) + len
    BY <1>6, <1>7, <2>3
  <2>6. CASE useChunked
    <3>1. Streamed(c)
      BY <1>9, <2>3, <2>6 DEF Fits
    <3>2. /\ engine'.in = Append(engine.in, u) /\ engine'.got = engine.got + Words(len)
          /\ engine'.words = engine.words /\ engine'.pad = engine.pad
          /\ engine'.valid = engine.valid /\ engine'.sta = engine.sta /\ engine'.out = engine.out
      BY <1>2, <1>5, <2>1, <3>1, Processed DEF Streamed
    <3>3. engine'.in = message'[c]
      BY <2>5, <3>1, <3>2 DEF Streamed, m
    <3>4. engine.got \in Nat /\ Words(len) \in Nat \ {0} /\ engine.out.words \in Nat
      <4>1. Words(len) \in Nat \ {0}
        BY <1>2, SMT DEF Words
      <4>2. engine.got \in Nat /\ engine.out \in Outs
        BY <1>5 DEF Engines
      <4> QED
        BY <4>1, <4>2 DEF Outs
    <3>5. engine'.got = Words(BytesOf(message'[c]))
      <4>1. BytesOf(m) = engine.got * 4
        BY <2>4, <3>1 DEF Streamed, m
      <4>2. Words(engine.got * 4 + len) = engine.got + Words(len)
        BY <1>2, <3>4, WordsAdd
      <4> QED
        BY <2>5, <3>2, <4>1, <4>2
    <3>6. \E n \in Nat : Announced(n)'
      BY <3>1, <3>2 DEF Streamed, Announced
    <3>7. engine'.sta => /\ engine'.words <= engine'.out.words /\ engine'.out.words <= engine'.got
                         /\ engine'.out.pad = engine'.pad /\ engine'.out.valid = engine'.valid
                         /\ engine'.out.words # engine'.got
      <4> DEFINE g == engine.got
                 o == engine.out.words
                 w == Words(len)
      <4>1. g \in Nat /\ o \in Nat /\ w \in Nat \ {0}
        BY <3>4
      <4> HIDE DEF g, o, w
      <4>2. o <= g => o <= g + w /\ o # g + w
        BY <4>1
      <4> QED
        BY <3>1, <3>2, <4>2 DEF Streamed, g, o, w
    <3> QED
      BY <1>4, <2>1, <3>3, <3>5, <3>6, <3>7 DEF Streamed
  <2>7. CASE ~useChunked
    <3>1. ~chunkValid /\ Gathered(c)
      BY <1>9, <2>7 DEF Fits, Gathered
    <3>2. m = <<>>
      <4>1. bufferLen \in Nat /\ accumLen \in Nat
        BY <1>5, ShaAssumption DEF TypeOK
      <4>2. bufferLen = 0 /\ accumLen = 0
        BY <2>4, <2>7, <4>1
      <4>3. BytesOf(m) = 0
        BY <3>1, <4>2 DEF Gathered, m
      <4> QED
        BY <1>5, <4>3, BytesNat DEF m
    <3>3. /\ engine'.in = <<u>> /\ engine'.got = Words(len) /\ ~engine'.sta
          /\ engine'.words = Words(total.bytes) /\ engine'.pad = PadReference(total.bytes)
          /\ engine'.valid = ValidBytes(total.bytes)
      <4>1. total.known
        BY <2>4, <3>1
      <4>2. DigestTypes /\ TypeOK
        BY <1>5
      <4> QED
        BY <1>2, <2>1, <3>1, <4>1, <4>2, Processed
    <3>4. engine'.in = message'[c]
      BY <2>5, <3>2, <3>3
    <3>5. engine'.got = Words(BytesOf(message'[c]))
      <4>1. BytesOf(m) = 0 /\ 0 + len = len
        BY <1>2, <3>2, NoBytes
      <4> QED
        BY <2>5, <3>3, <4>1
    <3>6. total.bytes \in Nat /\ Announced(total.bytes)'
      <4>1. total.bytes \in Nat
        BY <1>5 DEF TypeOK
      <4>2. total' = total
        BY <1>13 DEF UpdateChunk
      <4> QED
        BY <3>3, <4>1, <4>2 DEF Announced
    <3>7. \E n \in Nat : Announced(n)'
      <4> DEFINE k == total.bytes
      <4>1. total' = total
        BY <1>13 DEF UpdateChunk
      <4>2. k \in Nat /\ engine'.words = Words(k) /\ engine'.valid = ValidBytes(k) /\ engine'.pad = PadReference(k)
        BY <3>3, <3>6
      <4> HIDE DEF k
      <4> QED
        BY <4>2 DEF Announced
    <3> QED
      BY <1>4, <2>1, <3>3, <3>4, <3>5, <3>7 DEF Streamed
  <2> QED
    BY <2>6, <2>7
<1> QED
  BY <1>1, <1>10, <1>11, <1>12, <1>13

LEMMA FinishNoOutputD ==
  ASSUME SessionInv, SessionInv', DigestInv, NEW c \in Contexts, FinishNoOutput(c)
  PROVE  DigestInv'
<1>1. /\ UNCHANGED fitVars /\ UNCHANGED <<message, pc, result, raced>> /\ state' = "error"
      /\ pc[c] = "in"
  BY DEF FinishNoOutput, Serves, fitVars, bufferVars, chunkVars, clientVars
<1>2. ~raced => Right(c)' /\ Fits(c)'
  BY <1>1, FitsFrame DEF DigestInv, Right
<1> QED
  BY <1>1, <1>2, ClientMove

LEMMA FinishFeedD ==
  ASSUME SessionInv, SessionInv', DigestTypes, DigestInv, NEW c \in Contexts, FinishFeed(c)
  PROVE  DigestInv'
<1> DEFINE src == IF useAccum THEN accum ELSE buffer
           len == IF useAccum THEN accumLen ELSE bufferLen
           e == Started(engine, Words(len), PadPacket(len) % 32, ValidBytes(len))
<1>1. /\ Serves(c) /\ ~useChunked /\ pc' = [pc EXCEPT ![c] = "wait"]
      /\ engine' = Fed(e, src, Words(len))
      /\ UNCHANGED <<useAccum, accum, accumLen, buffer, bufferLen, useChunked, chunkValid>>
      /\ UNCHANGED <<message, result, gaps, raced>>
  BY DEF FinishFeed, Goto, bufferVars, chunkVars, clientVars
<1>2. pc[c] = "in" /\ pc'[c] = "wait" /\ state # "error"
  BY <1>1 DEF Serves, SessionInv, TypeOK
<1>3. src \in Seq(Pieces) /\ len \in Nat /\ engine \in Engines
  BY ShaAssumption DEF SessionInv, TypeOK, DigestTypes
<1>4. SUFFICES ASSUME ~raced, Right(c), Gathered(c), EngineIdle(c)
               PROVE  Gathered(c)' /\ EngineIdle(c)'
  <2>1. Right(c)' = Right(c) /\ (Gathered(c)' /\ EngineIdle(c)' => Fits(c)')
    BY <1>1 DEF Right, Fits
  <2>2. ~raced => Right(c) /\ Gathered(c) /\ EngineIdle(c)
    BY <1>1, <1>2 DEF DigestInv, Fits
  <2> QED
    BY <1>1, <1>2, <1>4, <2>1, <2>2, ClientMove
<1>5. Gathered(c)'
  BY <1>1, <1>4 DEF Gathered
<1>6. src = message[c] /\ len = BytesOf(message[c])
  BY <1>4 DEF Gathered
<1> HIDE DEF src, len
<1>7. Words(len) \in Nat /\ ValidBytes(len) \in Nat /\ PadReference(len) \in Int /\ PadPacket(len) % 32 = PadReference(len)
  BY <1>3, Numbers
<1>8. /\ e \in Engines /\ e.got = 0 /\ e.in = <<>> /\ e.sta = engine.sta
      /\ e.words = Words(len) /\ e.pad = PadReference(len) /\ e.valid = ValidBytes(len)
  BY <1>3, <1>7, StartedType
<1> HIDE DEF e
<1>9. /\ engine'.in = e.in \o src /\ engine'.got = e.got + Words(len) /\ engine'.sta = e.sta
      /\ engine'.pad = e.pad /\ engine'.valid = e.valid
  BY <1>1, <1>3, <1>7, <1>8, FedType
<1>10. <<>> \o src = src /\ 0 + Words(len) = Words(len)
  BY <1>3, <1>7
<1>11. Digest(engine'.in, engine'.got, engine'.pad, engine'.valid) = DigestOf(message'[c])
  BY <1>1, <1>6, <1>8, <1>9, <1>10 DEF DigestOf
<1>12. "revived" \notin gaps => ~engine'.sta
  BY <1>2, <1>4, <1>8, <1>9 DEF EngineIdle
<1>13. EngineIdle(c)'
  BY <1>1, <1>2, <1>11, <1>12 DEF EngineIdle
<1> QED
  BY <1>5, <1>13

LEMMA FinishChunkedD ==
  ASSUME SessionInv, SessionInv', DigestTypes, DigestInv, NEW c \in Contexts, FinishChunked(c)
  PROVE  DigestInv'
<1> DEFINE n == BytesOf(message[c])
<1>1. /\ Serves(c) /\ useChunked /\ pc' = [pc EXCEPT ![c] = "wait"]
      /\ gaps' = gaps \cup (IF engine.words = Words(n) /\ engine.valid = ValidBytes(n)
                            THEN {} ELSE {"wrong"})
      /\ UNCHANGED <<useChunked, chunkValid, engine>> /\ UNCHANGED <<message, result, raced>>
  BY DEF FinishChunked, Goto, bufferVars, chunkVars, clientVars
<1>2. pc[c] = "in" /\ pc'[c] = "wait"
  BY <1>1 DEF Serves, SessionInv, TypeOK
<1>3. ASSUME ~raced, gaps' = {} PROVE Streamed(c)'
  <2>1. gaps = {} /\ engine.words = Words(n) /\ engine.valid = ValidBytes(n)
    BY <1>1, <1>3
  <2>2. Streamed(c)
    BY <1>1, <1>2, <1>3, <2>1 DEF DigestInv, Fits
  <2> QED
    BY <1>1, <2>1, <2>2 DEF Streamed, Announced
<1>4. ~raced => Right(c)' /\ Fits(c)'
  BY <1>1, <1>3 DEF DigestInv, Right, Fits
<1> QED
  BY <1>1, <1>2, <1>4, ClientMove

(* What the engine has when a finish finds it done.                        *)
LEMMA DoneIsDigest ==
  ASSUME DigestTypes, NEW c \in Contexts, pc[c] = "wait", engine.sta, Fits(c), gaps = {}
  PROVE  engine.out = DigestOf(message[c])
<1>1. CASE ~useChunked
  BY <1>1 DEF Fits, EngineIdle
<1>2. CASE useChunked
  <2> DEFINE b == BytesOf(message[c])
  <2>1. Streamed(c)
    BY <1>2 DEF Fits
  <2>2. PICK n \in Nat : Announced(n)
    BY <2>1 DEF Streamed
  <2>3. b \in Nat /\ engine \in Engines
    BY BytesNat DEF DigestTypes
  <2>4. engine.words = Words(b) /\ engine.valid = ValidBytes(b)
    BY <2>1 DEF Streamed
  <2>5. n = b
    BY <2>2, <2>3, <2>4, LengthsDiffer DEF Announced
  <2>6. engine.out \in Outs /\ engine.got = Words(b) /\ engine.got \in Nat
    BY <2>1, <2>3 DEF Streamed, Engines
  <2>7. engine.out.words = Words(b)
    <3>1. engine.out.words \in Nat
      BY <2>6 DEF Outs
    <3>2. engine.words <= engine.out.words /\ engine.out.words <= engine.got
      BY <2>1 DEF Streamed
    <3> QED
      BY <2>4, <2>6, <3>1, <3>2
  <2>8. engine.out.in = message[c] /\ engine.out.pad = PadReference(b) /\ engine.out.valid = ValidBytes(b)
    BY <2>1, <2>2, <2>4, <2>5, <2>6, <2>7 DEF Streamed, Announced
  <2> HIDE DEF b
  <2>9. engine.out = Digest(message[c], Words(b), PadReference(b), ValidBytes(b))
    BY <2>6, <2>7, <2>8 DEF Outs, Digest
  <2> QED
    BY <2>9 DEF DigestOf, b
<1> QED
  BY <1>1, <1>2

LEMMA FinishDoneD ==
  ASSUME SessionInv, SessionInv', DigestTypes, DigestInv, NEW c \in Contexts, FinishDone(c)
  PROVE  DigestInv'
<1> DEFINE r == [done |-> TRUE, got |-> engine.out, want |-> DigestOf(message[c]), excused |-> gaps # {}]
<1>1. /\ pc[c] = "wait" /\ engine.sta /\ engine' = [engine EXCEPT !.sta = FALSE]
      /\ result' = [result EXCEPT ![c] = r] /\ pc' = [pc EXCEPT ![c] = "in"]
      /\ UNCHANGED <<useAccum, accum, accumLen, buffer, bufferLen, useChunked, chunkValid, message, gaps, raced>>
  BY DEF FinishDone, Goto, bufferVars, chunkVars
<1>2. pc'[c] = "in" /\ result'[c] = r /\ \A d \in Contexts \ {c} : result'[d] = result[d]
  BY <1>1 DEF SessionInv, TypeOK, DigestTypes
<1>3. /\ engine'.in = engine.in /\ engine'.got = engine.got /\ engine'.words = engine.words
      /\ engine'.pad = engine.pad /\ engine'.valid = engine.valid /\ engine'.on = engine.on /\ ~engine'.sta
  BY <1>1 DEF DigestTypes, Engines
<1>4. SUFFICES ASSUME ~raced, Fits(c) PROVE Right(c)' /\ Fits(c)'
  BY <1>1, <1>2, ClientMove DEF DigestInv
<1>5. Right(c)'
  <2>1. gaps = {} => engine.out = DigestOf(message[c])
    BY <1>1, <1>4, DoneIsDigest
  <2>2. r.excused = (gaps # {}) /\ r.got = engine.out /\ r.want = DigestOf(message[c])
    OBVIOUS
  <2> QED
    BY <1>2, <2>1, <2>2 DEF Right
<1>6. Fits(c)'
  <2>1. CASE useChunked
    <3>1. Streamed(c) => Streamed(c)'
      BY <1>1, <1>2, <1>3 DEF Streamed, Announced
    <3> QED
      BY <1>1, <1>4, <2>1, <3>1 DEF Fits
  <2>2. CASE ~useChunked
    <3>1. Gathered(c)'
      BY <1>1, <1>4, <2>2 DEF Fits, Gathered
    <3>2. EngineIdle(c)'
      BY <1>1, <1>2, <1>3, <1>4, <2>2 DEF Fits, EngineIdle
    <3> QED
      BY <1>1, <2>2, <3>1, <3>2 DEF Fits
  <2> QED
    BY <2>1, <2>2
<1> QED
  BY <1>5, <1>6

LEMMA FinishTimeoutD ==
  ASSUME SessionInv, SessionInv', DigestInv, NEW c \in Contexts, FinishTimeout(c)
  PROVE  DigestInv'
<1>1. /\ pc[c] = "wait" /\ state' = "error" /\ pc' = [pc EXCEPT ![c] = "in"]
      /\ UNCHANGED <<useAccum, accum, accumLen, buffer, bufferLen, useChunked, chunkValid, message, gaps, raced, engine, result>>
  BY DEF FinishTimeout, Goto, bufferVars, chunkVars, clientVars
<1>2. pc'[c] = "in"
  BY <1>1 DEF SessionInv, TypeOK
<1>3. ~raced => Right(c)' /\ Fits(c)
  BY <1>1 DEF DigestInv, Right
<1>4. Fits(c) => Fits(c)'
  BY <1>1, <1>2 DEF Fits, Streamed, Announced, Gathered, EngineIdle
<1> QED
  BY <1>1, <1>2, <1>3, <1>4, ClientMove

LEMMA EngineDoneD ==
  ASSUME SessionInv, DigestTypes, DigestInv, EngineDone
  PROVE  DigestInv'
<1>1. /\ engine.on /\ engine.got >= engine.words
      /\ engine' = [engine EXCEPT !.on = FALSE, !.sta = TRUE,
                      !.out = Digest(engine.in, engine.got, engine.pad, engine.valid)]
      /\ UNCHANGED <<useAccum, accum, accumLen, buffer, bufferLen, useChunked, chunkValid, message, gaps, raced>>
      /\ UNCHANGED <<pc, state, result>>
  BY DEF EngineDone, sessionVars, bufferVars, chunkVars, clientVars
<1> DEFINE o == Digest(engine.in, engine.got, engine.pad, engine.valid)
<1>2. /\ engine'.in = engine.in /\ engine'.got = engine.got /\ engine'.words = engine.words
      /\ engine'.pad = engine.pad /\ engine'.valid = engine.valid /\ ~engine'.on /\ engine'.sta
      /\ engine'.out = o /\ engine.got \in Nat /\ engine.words \in Nat
  BY <1>1 DEF DigestTypes, Engines
<1>3. o.in = engine.in /\ o.words = engine.got /\ o.pad = engine.pad /\ o.valid = engine.valid
  BY DEF Digest
<1> HIDE DEF o
<1>4. ASSUME NEW c \in Contexts, pc[c] \in {"in", "wait"}, Fits(c) PROVE Fits(c)'
  <2>1. CASE useChunked
    <3>1. engine'.words <= engine'.out.words /\ engine'.out.words <= engine'.got
      BY <1>1, <1>2, <1>3
    <3>2. Streamed(c) => Streamed(c)'
      BY <1>1, <1>2, <1>3, <3>1 DEF Streamed, Announced
    <3> QED
      BY <1>1, <1>4, <2>1, <3>2 DEF Fits
  <2>2. CASE ~useChunked
    <3>1. Gathered(c)' /\ EngineIdle(c)
      BY <1>1, <1>4, <2>2 DEF Fits, Gathered
    <3>2. EngineIdle(c)'
      BY <1>1, <1>2, <3>1 DEF EngineIdle, o
    <3> QED
      BY <1>1, <2>2, <3>1, <3>2 DEF Fits
  <2> QED
    BY <2>1, <2>2
<1> QED
  BY <1>1, <1>4 DEF DigestInv, Right

(* The last write of a free ends no error, or is excused for it.           *)
LEMMA FreeStateD ==
  ASSUME SessionInv, DigestInv, NEW c \in Contexts, FreeState(c)
  PROVE  DigestInv'
<1>1. /\ pc[c] = "left" /\ pc' = [pc EXCEPT ![c] = "out"] /\ pc \in [Contexts -> Places]
      /\ state' = "idle" /\ gaps' = gaps \cup (IF active /\ state = "error" THEN {"revived"} ELSE {})
      /\ UNCHANGED <<useAccum, accum, accumLen, buffer, bufferLen, useChunked, chunkValid, engine>>
      /\ UNCHANGED <<message, result, raced>>
  BY DEF SessionInv, TypeOK, FreeState, Goto, bufferVars, chunkVars, clientVars
<1>2. \A d \in Contexts : Right(d)' = Right(d)
  BY <1>1 DEF Right
<1>3. ASSUME ~raced, NEW d \in Contexts, pc'[d] \in {"in", "wait"} PROVE Fits(d)'
  <2>1. pc'[d] = pc[d] /\ Inside(d)
    BY <1>1, <1>3 DEF Inside
  <2>2. active /\ Fits(d)
    BY <1>3, <2>1 DEF SessionInv, OneInside, DigestInv
  <2>3. CASE state = "error"
    <3>1. "revived" \in gaps'
      BY <1>1, <2>2, <2>3
    <3>2. EngineIdle(d)' /\ gaps' # {}
      BY <3>1 DEF EngineIdle
    <3>3. Gathered(d)' = Gathered(d)
      BY <1>1 DEF Gathered
    <3> QED
      BY <1>1, <2>2, <3>2, <3>3 DEF Fits
  <2>4. CASE state # "error"
    <3>1. UNCHANGED fitVars
      BY <1>1, <2>4 DEF fitVars
    <3> QED
      BY <1>1, <2>1, <2>2, <2>4, <3>1, FitsFrame
  <2> QED
    BY <2>3, <2>4
<1> QED
  BY <1>1, <1>2, <1>3 DEF DigestInv

(* Steps that leave the session, and who is inside, alone.                 *)
LEMMA Outside ==
  ASSUME DigestInv, UNCHANGED fitVars, UNCHANGED <<message, state, result, raced>>,
         \A d \in Contexts : pc'[d] \in {"in", "wait"} => pc'[d] = pc[d]
  PROVE  DigestInv'
<1>1. \A d \in Contexts : Right(d)' = Right(d)
  BY DEF Right
<1>2. ASSUME ~raced, NEW d \in Contexts, pc'[d] \in {"in", "wait"} PROVE Fits(d)'
  <2>1. pc'[d] = pc[d] /\ message'[d] = message[d] /\ Fits(d)
    BY <1>2 DEF DigestInv
  <2> QED
    BY <2>1, FitsFrame
<1> QED
  BY <1>1, <1>2 DEF DigestInv

LEMMA DigestStep ==
  ASSUME SessionInv, SessionInv', DigestTypes, DigestInv, [Next]_vars
  PROVE  DigestInv'
<1>1. CASE UNCHANGED vars
  <2>1. UNCHANGED fitVars /\ UNCHANGED <<message, pc, state, result, raced>>
    BY <1>1 DEF vars, fitVars, sessionVars, bufferVars, chunkVars, clientVars
  <2> QED
    BY <2>1, Outside
<1>2. CASE EngineDone
  BY <1>2, EngineDoneD
<1>3. ASSUME NEW n \in Totals, SetTotal(n) PROVE DigestInv'
  <2>1. UNCHANGED fitVars /\ UNCHANGED <<message, pc, state, result, raced>>
    BY <1>3 DEF SetTotal, fitVars, sessionVars, bufferVars, clientVars
  <2> QED
    BY <2>1, Outside
<1>4. ASSUME NEW c \in Contexts, Client(c) PROVE DigestInv'
  <2>0. pc \in [Contexts -> Places]
    BY DEF SessionInv, TypeOK
  <2>1. CASE BeginCheck(c) \/ FreeActive(c) \/ FreeOwner(c)
    <3>1. UNCHANGED fitVars /\ UNCHANGED <<message, state, result, raced>>
      BY <2>1 DEF BeginCheck, FreeActive, FreeOwner, fitVars, sessionVars, bufferVars, chunkVars, clientVars
    <3>2. \E l \in {"begin", "freed", "left"} : pc' = [pc EXCEPT ![c] = l]
      BY <2>1 DEF BeginCheck, FreeActive, FreeOwner, Goto
    <3>3. \A d \in Contexts : pc'[d] \in {"in", "wait"} => pc'[d] = pc[d]
      BY <2>0, <3>2
    <3> QED
      BY <3>1, <3>3, Outside
  <2>2. CASE Free(c)
    <3>1. /\ Forget(c) /\ raced' = raced /\ pc' = [pc EXCEPT ![c] = "free"]
          /\ owner = c /\ pc[c] \in {"out", "in"}
      BY <2>2 DEF Free, Goto
    <3>2. ~raced => Inside(c)
      BY <3>1 DEF SessionInv, OneInside
    <3>3. pc'[c] \notin {"in", "wait"} /\ \A d \in Contexts \ {c} : pc'[d] = pc[d]
      BY <2>0, <3>1
    <3> QED
      BY <3>1, <3>2, <3>3, Leaves
  <2>3. CASE Refused(c)
    <3>1. Forget(c) /\ raced' = raced /\ pc' = [pc EXCEPT ![c] = "out"] /\ Inside(c)
      BY <2>3 DEF Refused, Goto, Inside
    <3>2. pc'[c] \notin {"in", "wait"} /\ \A d \in Contexts \ {c} : pc'[d] = pc[d]
      BY <2>0, <3>1
    <3> QED
      BY <3>1, <3>2, Leaves
  <2>4. CASE BeginClaim(c)
    BY <2>4, BeginClaimD
  <2>5. CASE Update(c)
    BY <2>5, UpdateD
  <2>6. CASE FreeState(c)
    BY <2>6, FreeStateD
  <2>7. CASE FinishNoOutput(c) \/ FinishFeed(c) \/ FinishChunked(c) \/ FinishDone(c) \/ FinishTimeout(c)
    BY <2>7, FinishNoOutputD, FinishFeedD, FinishChunkedD, FinishDoneD, FinishTimeoutD
  <2> QED
    BY <1>4, <2>1, <2>2, <2>3, <2>4, <2>5, <2>6, <2>7 DEF Client
<1> QED
  BY <1>1, <1>2, <1>3, <1>4 DEF Next

LEMMA DigestInit == Init => DigestInv
BY DEF Init, DigestInv, Right, NoResult

(* A digest that a finish returns with success is the SHA-256 of the       *)
(* updates accepted since the session began, in their order                *)
(* (em32_sha256_handler): true of all sizes of the buffers and of a chunk, *)
(* of every length of an update and every number of updates, in however    *)
(* many buffers or chunks the driver collects them, also when the free of   *)
(* another is still under way; except for the uses of a session that `gaps' *)
(* names, an error that such a free ends among them, and begins that       *)
(* overlap.                                                                *)
THEOREM DigestsAreRight == Spec => []DigestOfMessage
<1>1. Init => SessionInv /\ DigestTypes /\ DigestInv
  BY SessionInit, TypesInit, DigestInit
<1>2. SessionInv /\ DigestTypes /\ DigestInv /\ [Next]_vars => (SessionInv /\ DigestTypes /\ DigestInv)'
  <2>1. SessionInv => TypeOK
    BY DEF SessionInv
  <2> QED
    BY <2>1, SessionStep, TypesStep, DigestStep
<1>3. DigestInv => DigestOfMessage
  BY DEF DigestInv, Right, DigestOfMessage
<1> QED
  BY <1>1, <1>2, <1>3, PTL DEF Spec
=============================================================================
