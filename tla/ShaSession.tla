------------------------------ MODULE ShaSession ------------------------------
(***************************************************************************)
(* A hash session of the EM32F967 SHA-256 driver,                          *)
(* drivers/crypto/crypto_em32_sha.c.                                       *)
(*                                                                         *)
(* The driver has one session and collects its updates in one of three     *)
(* ways: in a small buffer, in a heap buffer that grows by doubling, or    *)
(* not at all ("chunked": each update is written to the engine at once).   *)
(* Nothing locks the driver data: the check and the claim of               *)
(* hash_begin_session are two steps, the buffers and the last three writes *)
(* of hash_free_session four, and the start of the engine and the wait for *)
(* it two.                                                                 *)
(*                                                                         *)
(* Actors: the contexts, each used by one thread, and the engine           *)
(* (external).  A message is the sequence of its updates, an update its    *)
(* number and its length in bytes.                                         *)
(***************************************************************************)
EXTENDS Naturals, Sequences

CONSTANTS
  Contexts,   (* the hash_ctx of the clients                                *)
  SmallSize,  (* sizeof(data->buffer)                                       *)
  FirstCap,   (* the first size of the accumulation buffer                  *)
  MaxAccum,   (* CONFIG_CRYPTO_EM32_SHA_MAX_ACCUM_SIZE                      *)
  ChunkSize,  (* SHA256_CHUNK_SIZE                                          *)
  Lengths,    (* bound: the lengths of updates                              *)
  Totals,     (* bound: the lengths clients announce                        *)
  MaxUpdates, (* bound: updates of all clients                              *)
  MaxBegins   (* bound: sessions                                            *)

ASSUME ShaAssumption ==
  /\ {SmallSize, FirstCap, MaxAccum, ChunkSize} \subseteq Nat \ {0}
  /\ FirstCap <= MaxAccum /\ SmallSize <= MaxAccum
  /\ Lengths \subseteq Nat \ {0} /\ Totals \subseteq Nat
  /\ MaxUpdates \in Nat /\ MaxBegins \in Nat

None == "none"   \* NULL

ASSUME NoneIsNoContext == None \notin Contexts

VARIABLES
  active, owner,       (* session_active and ctx                            *)
  state,               (* state                                             *)
  buffer, bufferLen,   (* the updates in the small buffer, and buffer_len   *)
  accum, accumLen,     (* the updates in accum_buf, and accum_len           *)
  accumCap, useAccum,  (* accum_cap and use_accum                           *)
  useChunked,          (* use_chunked                                       *)
  chunkValid,          (* chunk_state_valid: the first chunk is written     *)
  total,               (* expected_total_bytes, or NoTotal                  *)
  blocks,              (* heap blocks the driver has allocated              *)
  engine,              (* the registers of the engine                       *)
  pc,                  (* where the thread of each context is               *)
  message, result,     (* the updates accepted in the session of a context; *)
                       (* what its last finish returned                     *)
  updates, begins,     (* the bounds' counters                              *)
  gaps, raced,         (* history: uses of a session the driver gives no    *)
                       (* digest for; two contexts began at the same time   *)
  robbed               (* history: the contexts whose last begin came       *)
                       (* between the first two writes that end a free      *)

sessionVars == <<active, owner, state>>
bufferVars  == <<buffer, bufferLen, accum, accumLen, accumCap, useAccum, blocks>>
chunkVars   == <<useChunked, chunkValid, total>>
clientVars  == <<message, result>>
countVars   == <<updates, begins>>
vars == <<sessionVars, bufferVars, chunkVars, engine, pc, clientVars, countVars, gaps, raced,
          robbed>>

NoTotal == [known |-> FALSE, bytes |-> 0]

-----------------------------------------------------------------------------
(* Lengths and padding, in 32-bit words.                                   *)

Words(bytes) == (bytes + 3) \div 4
ValidBytes(bytes) == bytes % 4

(* Mutant: off by one in the test for room for the length. *)
PadPacketShort(bytes) ==
  LET bmod == (8 * bytes) % 512 IN
  IF bmod <= 448 THEN (512 - bmod - 64) \div 32 ELSE (512 - bmod + 448) \div 32

(* The number of padding words, the length itself not counted. *)
PadPacket(bytes) ==
  LET bmod == (8 * bytes) % 512 IN
  IF bmod < 448 THEN (512 - bmod - 64) \div 32 ELSE (512 - bmod + 448) \div 32

(* The reference: FIPS 180-4 appends one bit, zeros, and 64 bits of length *)
(* up to a whole number of 16-word blocks.                                 *)
Blocks(bytes) == (bytes + 1 + 8 + 63) \div 64
PadReference(bytes) == 16 * Blocks(bytes) - 2 - Words(bytes)

BytesOf(m) ==
  LET sum[i \in 0 .. Len(m)] == IF i = 0 THEN 0 ELSE sum[i - 1] + m[i].len
  IN  sum[Len(m)]

Digest(in, words, pad, valid) == [in |-> in, words |-> words, pad |-> pad, valid |-> valid]
NoDigest == Digest(<<>>, 0, 0, 0)
NoResult == [done |-> FALSE, got |-> NoDigest, want |-> NoDigest, excused |-> FALSE]
DigestOf(m) ==
  LET n == BytesOf(m) IN Digest(m, Words(n), PadReference(n), ValidBytes(n))

-----------------------------------------------------------------------------
(* The engine (external): started with a number of words and the padding,  *)
(* it is done when it has these words; STA stays until it is cleared.      *)

EngineReset == [on |-> FALSE, words |-> 0, pad |-> 0, valid |-> 0, got |-> 0,
                in |-> <<>>, sta |-> FALSE, out |-> NoDigest]

Started(e, words, pad, valid) ==
  [e EXCEPT !.on = TRUE, !.words = words, !.pad = pad, !.valid = valid, !.got = 0, !.in = <<>>]

Fed(e, m, words) == [e EXCEPT !.in = @ \o m, !.got = @ + words]

EngineDone ==
  /\ engine.on /\ engine.got >= engine.words
  /\ engine' = [engine EXCEPT !.on = FALSE, !.sta = TRUE,
                  !.out = Digest(engine.in, engine.got, engine.pad, engine.valid)]
  /\ UNCHANGED <<sessionVars, bufferVars, chunkVars, pc, clientVars, countVars, gaps,
                 raced, robbed>>

-----------------------------------------------------------------------------
Init ==
  /\ active = FALSE /\ owner = None /\ state = "idle"
  /\ buffer = <<>> /\ bufferLen = 0
  /\ accum = <<>> /\ accumLen = 0 /\ accumCap = 0 /\ useAccum = FALSE
  /\ useChunked = FALSE /\ chunkValid = FALSE /\ total = NoTotal
  /\ blocks = 0
  /\ engine = EngineReset
  /\ pc = [c \in Contexts |-> "out"]
  /\ message = [c \in Contexts |-> <<>>] /\ result = [c \in Contexts |-> NoResult]
  /\ updates = 0 /\ begins = 0 /\ gaps = {} /\ raced = FALSE /\ robbed = {}

Goto(c, label) == pc' = [pc EXCEPT ![c] = label]

(* A session that begins or ends has no message and no digest. *)
Forget(c) ==
  /\ message' = [message EXCEPT ![c] = <<>>]
  /\ result' = [result EXCEPT ![c] = NoResult]

-----------------------------------------------------------------------------
(* crypto_em32_hash_begin_session: the test of session_active, ...         *)
BeginCheck(c) ==
  /\ pc[c] = "out" /\ ~active /\ begins < MaxBegins
  /\ begins' = begins + 1
  /\ Goto(c, "begin")
  /\ UNCHANGED <<sessionVars, bufferVars, chunkVars, engine, clientVars, updates, gaps,
                 raced, robbed>>

(* ... and the claim of the session; a heap buffer is not freed here.  ctx  *)
(* is written first and session_active last: a write of somebody else in    *)
(* between is a write right after this step, or right before.               *)
BeginClaim(c) ==
  /\ pc[c] = "begin"
  /\ active' = TRUE /\ owner' = c /\ state' = "idle"
  /\ buffer' = <<>> /\ bufferLen' = 0
  /\ accum' = <<>> /\ accumLen' = 0 /\ accumCap' = 0 /\ useAccum' = FALSE
  /\ useChunked' = FALSE /\ chunkValid' = FALSE /\ total' = NoTotal
  /\ engine' = EngineReset
  /\ Forget(c)
  /\ gaps' = {} /\ raced' = (raced \/ active)
  /\ robbed' = IF \E d \in Contexts : pc[d] = "freed" THEN robbed \cup {c} ELSE robbed \ {c}
  /\ Goto(c, "in")
  /\ UNCHANGED <<blocks, countVars>>

(* crypto_em32_sha_set_total_length: no session is asked for. *)
SetTotal(n) ==
  /\ total' = [known |-> TRUE, bytes |-> n]
  /\ UNCHANGED <<sessionVars, bufferVars, useChunked, chunkValid, engine, pc, clientVars,
                 countVars, gaps, raced, robbed>>

FreeBuffers ==
  /\ blocks' = IF accumCap > 0 THEN blocks - 1 ELSE blocks
  /\ accum' = <<>> /\ accumLen' = 0 /\ accumCap' = 0 /\ useAccum' = FALSE
  /\ useChunked' = FALSE /\ chunkValid' = FALSE /\ total' = NoTotal

(* Mutant: whoever calls frees the session. *)
FreeAny(c) ==
  /\ pc[c] \in {"out", "in"} /\ active
  /\ FreeBuffers
  /\ Forget(c)
  /\ Goto(c, "free")
  /\ UNCHANGED <<sessionVars, buffer, bufferLen, engine, countVars, gaps, raced, robbed>>

(* crypto_em32_hash_free_session up to the buffers; a client may also call  *)
(* it after its begin was refused.  Three writes end it, and as soon as the *)
(* first is done another context may begin.                                 *)
Free(c) ==
  /\ pc[c] \in {"out", "in"} /\ active /\ owner = c
  /\ FreeBuffers
  /\ Forget(c)
  /\ Goto(c, "free")
  /\ UNCHANGED <<sessionVars, buffer, bufferLen, engine, countVars, gaps, raced, robbed>>

FreeActive(c) ==
  /\ pc[c] = "free"
  /\ active' = FALSE
  /\ Goto(c, "freed")
  /\ UNCHANGED <<owner, state, bufferVars, chunkVars, engine, clientVars, countVars, gaps,
                 raced, robbed>>

FreeOwner(c) ==
  /\ pc[c] = "freed"
  /\ owner' = None
  /\ Goto(c, "left")
  /\ UNCHANGED <<active, state, bufferVars, chunkVars, engine, clientVars, countVars, gaps,
                 raced, robbed>>

(* The last write ends the error of a session that has begun meanwhile.     *)
FreeState(c) ==
  /\ pc[c] = "left"
  /\ state' = "idle"
  /\ gaps' = gaps \cup (IF active /\ state = "error" THEN {"revived"} ELSE {})
  /\ Goto(c, "out")
  /\ UNCHANGED <<active, owner, bufferVars, chunkVars, engine, clientVars, countVars,
                 raced, robbed>>

-----------------------------------------------------------------------------
(* em32_sha256_handler, update.                                            *)

Serves(c) == pc[c] = "in" /\ active /\ owner = c /\ state # "error"

(* A client whose session another one has taken is refused. *)
Refused(c) ==
  /\ pc[c] = "in" /\ ~(active /\ owner = c)
  /\ Forget(c)
  /\ Goto(c, "out")
  /\ UNCHANGED <<sessionVars, bufferVars, chunkVars, engine, countVars, gaps, raced, robbed>>

LargeInput(len)  == useChunked \/ len >= ChunkSize
TakesSmall(len)  == ~useAccum /\ ~LargeInput(len) /\ bufferLen + len < SmallSize
TooMuch(len)     == bufferLen + accumLen + len > MaxAccum
TakesChunk(len)  == ~TakesSmall(len) /\ (LargeInput(len) \/ TooMuch(len))
TakesAccum(len)  == ~TakesSmall(len) /\ ~TakesChunk(len)

Accept(c, u)     == message' = [message EXCEPT ![c] = Append(@, u)]
Piece(len)       == [n |-> updates + 1, len |-> len]

(* The update fits into the small buffer. *)
UpdateSmall(c, len) ==
  /\ Serves(c) /\ TakesSmall(len)
  /\ buffer' = Append(buffer, Piece(len)) /\ bufferLen' = bufferLen + len
  /\ Accept(c, Piece(len))
  /\ updates' = updates + 1
  /\ UNCHANGED <<sessionVars, accum, accumLen, accumCap, useAccum, blocks, chunkVars, engine,
                 pc, result, begins, gaps, raced, robbed>>

MaxDoublings == 12   \* from 512 bytes to the 2097152 that Kconfig allows at most

(* Mutant: the doubled size is not bounded by the maximum. *)
GrownCapUnbounded(need) ==
  LET base == IF accumCap = 0 THEN FirstCap ELSE accumCap
      fits == {n \in {base * 2^k : k \in 0 .. MaxDoublings} : n >= need}
  IN  CHOOSE n \in fits : \A m \in fits : n <= m

(* ensure_accum_capacity: doubled until it is enough, at most to the       *)
(* maximum.                                                                *)
GrownCap(need) ==
  LET base == IF accumCap = 0 THEN FirstCap ELSE accumCap
      fits == {n \in {base * 2^k : k \in 0 .. MaxDoublings} : n \in need .. MaxAccum}
  IN  IF fits = {} THEN MaxAccum ELSE CHOOSE n \in fits : \A m \in fits : n <= m

(* Mutant: what the small buffer holds is copied, and stays there too. *)
MoveToAccumTwice(u) ==
  /\ accum' = accum \o buffer \o <<u>>
  /\ accumLen' = accumLen + bufferLen + u.len
  /\ UNCHANGED <<buffer, bufferLen>>

(* The small buffer moves into the heap buffer, and the update after it.   *)
MoveToAccum(u) ==
  /\ accum' = accum \o buffer \o <<u>>
  /\ accumLen' = accumLen + bufferLen + u.len
  /\ buffer' = <<>> /\ bufferLen' = 0

(* Mutant: the old block is not freed. *)
GrowKeep(need) ==
  \/ accumCap >= need /\ UNCHANGED <<accumCap, blocks>>
  \/ /\ accumCap < need
     /\ accumCap' = GrownCap(need)
     /\ blocks' = blocks + 1

Grow(need) ==
  \/ accumCap >= need /\ UNCHANGED <<accumCap, blocks>>
  \/ /\ accumCap < need
     /\ accumCap' = GrownCap(need)
     /\ blocks' = IF accumLen > 0 THEN blocks ELSE blocks + 1

(* The update is collected on the heap. *)
UpdateAccum(c, len) ==
  /\ Serves(c) /\ TakesAccum(len)
  /\ Grow(accumLen + bufferLen + len)
  /\ MoveToAccum(Piece(len))
  /\ useAccum' = TRUE
  /\ Accept(c, Piece(len))
  /\ updates' = updates + 1
  /\ UNCHANGED <<sessionVars, chunkVars, engine, pc, result, begins, gaps, raced, robbed>>

(* k_malloc fails: nothing is taken. *)
UpdateNoMemory(c, len) ==
  /\ Serves(c) /\ TakesAccum(len) /\ accumCap < accumLen + bufferLen + len
  /\ updates' = updates + 1
  /\ UNCHANGED <<sessionVars, bufferVars, chunkVars, engine, pc, clientVars, begins, gaps,
                 raced, robbed>>

(* process_sha256_hardware: the first chunk resets and starts the engine   *)
(* for the whole message, if its length is known; without it the padding   *)
(* is not set.  Every chunk is written in whole words.                     *)
Process(u) ==
  IF chunkValid
  THEN Fed(engine, <<u>>, Words(u.len))
  ELSE LET n == IF total.known THEN total.bytes ELSE u.len
           e == Started(EngineReset, Words(n), IF total.known THEN PadPacket(n) % 32 ELSE 0,
                        IF total.known THEN ValidBytes(n) ELSE 0)
       IN  Fed(e, <<u>>, Words(u.len))

(* What a chunk makes of a session that the driver cannot hash any more:   *)
(* bytes collected before it are left behind, the length was not announced *)
(* in time, or the chunk before it ended within a word.                    *)
ChunkGaps(c, len) ==
  (IF ~useChunked /\ bufferLen + accumLen > 0 THEN {"dropped"} ELSE {}) \cup
  (IF ~chunkValid /\ ~total.known THEN {"unknown"} ELSE {}) \cup
  (IF chunkValid /\ engine.got * 4 # BytesOf(engine.in) THEN {"odd"} ELSE {})

(* The update is written to the engine, which may not get ready in time:   *)
(* then the words are written but not counted, and the session goes on.    *)
UpdateChunk(c, len) ==
  /\ Serves(c) /\ TakesChunk(len)
  /\ useChunked' = TRUE /\ chunkValid' = TRUE
  /\ engine' = Process(Piece(len))
  /\ \/ /\ Accept(c, Piece(len))
        /\ gaps' = gaps \cup ChunkGaps(c, len)
     \/ /\ gaps' = gaps \cup ChunkGaps(c, len) \cup {"failed"}
        /\ UNCHANGED message
  /\ updates' = updates + 1
  /\ UNCHANGED <<sessionVars, bufferVars, total, pc, result, begins, raced, robbed>>

-----------------------------------------------------------------------------
(* em32_sha256_handler, finish: the data of the packet itself is not read. *)

(* Without an output buffer the session is in error for good. *)
FinishNoOutput(c) ==
  /\ Serves(c)
  /\ state' = "error"
  /\ UNCHANGED <<active, owner, bufferVars, chunkVars, engine, pc, clientVars, countVars,
                 gaps, raced, robbed>>

(* The collected bytes are written to the engine; it is not reset before.  *)
FinishFeed(c) ==
  /\ Serves(c) /\ ~useChunked
  /\ LET src == IF useAccum THEN accum ELSE buffer
         len == IF useAccum THEN accumLen ELSE bufferLen
     IN  engine' = Fed(Started(engine, Words(len), PadPacket(len) % 32, ValidBytes(len)),
                       src, Words(len))
  /\ state' = "busy"
  /\ Goto(c, "wait")
  /\ UNCHANGED <<active, owner, bufferVars, chunkVars, clientVars, countVars, gaps, raced,
                 robbed>>

(* Chunks are with the engine already. *)
FinishChunked(c) ==
  /\ Serves(c) /\ useChunked
  /\ state' = "busy"
  /\ LET n == BytesOf(message[c]) IN
     gaps' = gaps \cup (IF engine.words = Words(n) /\ engine.valid = ValidBytes(n)
                        THEN {} ELSE {"wrong"})
  /\ Goto(c, "wait")
  /\ UNCHANGED <<active, owner, bufferVars, chunkVars, engine, clientVars, countVars,
                 raced, robbed>>

FinishDone(c) ==
  /\ pc[c] = "wait" /\ engine.sta
  /\ engine' = [engine EXCEPT !.sta = FALSE]
  /\ result' = [result EXCEPT ![c] =
                  [done |-> TRUE, got |-> engine.out, want |-> DigestOf(message[c]),
                   excused |-> gaps # {}]]
  /\ state' = "idle"
  /\ Goto(c, "in")
  /\ UNCHANGED <<active, owner, bufferVars, chunkVars, message, countVars, gaps, raced,
                 robbed>>

FinishTimeout(c) ==
  /\ pc[c] = "wait" /\ ~engine.sta
  /\ state' = "error"
  /\ Goto(c, "in")
  /\ UNCHANGED <<active, owner, bufferVars, chunkVars, engine, clientVars, countVars, gaps,
                 raced, robbed>>

-----------------------------------------------------------------------------
Update(c) ==
  \E len \in Lengths :
    /\ updates < MaxUpdates
    /\ UpdateSmall(c, len) \/ UpdateAccum(c, len) \/ UpdateNoMemory(c, len) \/ UpdateChunk(c, len)

Client(c) ==
  \/ BeginCheck(c) \/ BeginClaim(c) \/ Refused(c) \/ Update(c)
  \/ Free(c) \/ FreeActive(c) \/ FreeOwner(c) \/ FreeState(c)
  \/ FinishNoOutput(c) \/ FinishFeed(c) \/ FinishChunked(c) \/ FinishDone(c) \/ FinishTimeout(c)

Next == \/ \E c \in Contexts : Client(c)
        \/ \E n \in Totals : SetTotal(n)
        \/ EngineDone

Spec == Init /\ [][Next]_vars

-----------------------------------------------------------------------------
Pieces == [n : 1 .. MaxUpdates, len : Lengths]

Places == {"out", "begin", "in", "wait", "free", "freed", "left"}

(* Types of the variables; the lengths never exceed what their buffers     *)
(* hold, however the heap buffer grew.                                     *)
TypeOK ==
  /\ active \in BOOLEAN /\ owner \in Contexts \cup {None}
  /\ state \in {"idle", "busy", "error"}
  /\ buffer \in Seq(Pieces) /\ bufferLen \in 0 .. SmallSize - 1
  /\ accum \in Seq(Pieces) /\ accumLen \in 0 .. accumCap /\ accumCap \in 0 .. MaxAccum
  /\ useAccum \in BOOLEAN /\ useChunked \in BOOLEAN /\ chunkValid \in BOOLEAN /\ raced \in BOOLEAN
  /\ total \in [known : BOOLEAN, bytes : Nat]
  /\ pc \in [Contexts -> Places]
  /\ robbed \subseteq Contexts
  /\ updates \in 0 .. MaxUpdates /\ begins \in 0 .. MaxBegins

(* A digest returned with success is the SHA-256 of exactly the updates    *)
(* that were accepted since the session began, in order, however they were *)
(* collected, after failed allocations, and however often it is asked for. *)
(* In a session that went over to chunks this takes a client that sends    *)
(* them from the first byte, announces the right length before, ends only  *)
(* the last within a word, and gives up after a failed one; in any session, *)
(* that no free still under way ends an error of it: `gaps'.                *)
DigestOfMessage ==
  \A c \in Contexts :
    result[c].done /\ ~raced /\ ~result[c].excused => result[c].got = result[c].want

(* Whoever has begun a session keeps it until it frees it, whoever else     *)
(* begins, is refused or frees: it stays the owner, and no other client can *)
(* begin.  Two begins at the same time both succeed (raced).  A begin       *)
(* between the writes of session_active and ctx in the free of the session  *)
(* before has its ctx overwritten (robbed): it cannot use its session, and  *)
(* as the session stays active nobody can begin another.                    *)
SessionKept ==
  ~raced => \A c \in Contexts :
              pc[c] \in {"in", "wait"} => active /\ (c \notin robbed => owner = c)

(* The heap holds the buffer of the session and nothing else; a begin that *)
(* overtook another leaks the other's buffer.                              *)
HeapAccounted == ~raced => blocks = (IF accumCap > 0 THEN 1 ELSE 0)

(* "We stream all bytes across chunks": a session that hashes in chunks    *)
(* has written every update it accepted to the engine.                     *)
AllBytesStreamed ==
  \A c \in Contexts :
    pc[c] = "in" /\ useChunked /\ ~raced /\ "failed" \notin gaps => engine.in = message[c]
=============================================================================
