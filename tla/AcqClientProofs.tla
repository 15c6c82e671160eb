--------------------------- MODULE AcqClientProofs ---------------------------
(****************************************************************************)
(* Proofs about the acquisition SMIO and its clients: the types, that an    *)
(* acquisition runs with the trigger it was prepared for, that a client     *)
(* whose acquisition was left alone is refused a block only after a full    *)
(* last one, and that a curve it read is its own, sample by sample.         *)
(*                                                                          *)
(* Two invariants are built on AInv.  MemInv says whose samples the memory  *)
(* holds, from the start of an acquisition until another one disturbs it;   *)
(* CurveInv says that what the SMIO has read of a block, and what the       *)
(* client has copied of its curve, is a beginning of those samples.  What   *)
(* a read over PCIe returns, page by page, needs an induction: it is done   *)
(* with the first page that would break the closed form.                    *)
(****************************************************************************)
EXTENDS AcqClient, WellFoundedInduction, TLAPS

-----------------------------------------------------------------------------
(* Types, triggers and calls: the inductive invariant AInv. *)

Param == [pre : Nat, post : Nat, preAligned : Nat, postAligned : Nat,
          shots : Nat \ {0}, trig : Nat]
Core == [state : {"idle", "acquiring"}, done : BOOLEAN, full : BOOLEAN, fired : BOOLEAN,
         trigger : Triggers \cup {"none"}, trigPos : Nat, chan : Chans, id : Nat,
         shots : Nat, pre : Nat, post : Nat]
\* A unit of memory: which acquisition wrote it, and which unit of it it is.
Unit == Nat \X Int
Block == [pc : {"idle", "read", "dead"}, chan : Chans \cup {"none"}, n : Nat, addr : Int,
          off : Int, data : Seq(Unit)]
Reqs == {NoReq} \cup UNION {Requests[c] : c \in Clients}
Client == [pc : {"idle", "poll", "curve", "wait"}, req : Reqs, blk : Nat, curve : Seq(Unit),
           room : Nat, result : {"none", "success", "error", "timeout"}, ops : Nat]
Hist == [id : Nat, known : BOOLEAN, ready : BOOLEAN, disturbed : BOOLEAN,
         failed : BOOLEAN, units : Nat]

CoreTypes ==
    /\ params \in [Chans -> Param] /\ curr \in Chans /\ fpga \in Core
    /\ nacq \in 0..MaxAcq /\ fpga.id <= nacq
    /\ \A a \in DOMAIN mem : mem[a] \in Unit

ClientTypes ==
    /\ block \in Block /\ (block.pc = "read" => block.chan \in Chans)
    /\ cl \in [Clients -> Client] /\ hist \in [Clients -> Hist]

\* How far a client's call went.
CallInv(c) ==
    LET r == cl[c].req IN
    /\ cl[c].pc # "idle" => cl[c].result = "none"
    /\ cl[c].pc \in {"curve", "wait"} =>
         r.chan \in Chans /\ cl[c].blk <= Total(r) \div PerBlock(r)

\* The SMIO has the parameters of a client's acquisition as long as no other one
\* of the channel replaced them.
StillThere(c) ==
    LET r == cl[c].req
        p == params[r.chan]
    IN  hist[c].id # 0 /\ ~hist[c].disturbed =>
          /\ r.chan \in Chans /\ p.pre = r.pre /\ p.post = r.post /\ p.shots = r.shots
          /\ Total(r) * SampleSize[r.chan] <= hist[c].units

\* A block was refused after a full last one, or for a reason the history knows.
RefusedWhenFull(c) ==
    /\ cl[c].result = "error" /\ Undisturbed(c) /\ Sound(c) /\ ~hist[c].failed
    => Total(cl[c].req) % PerBlock(cl[c].req) = 0

\* The SMIO reads for one client at a time.
OneReader ==
    /\ \A c, d \in Clients : cl[c].pc = "wait" /\ cl[d].pc = "wait" => c = d
    /\ \A c \in Clients : cl[c].pc = "wait" => block.pc # "idle"

AInv ==
    /\ CoreTypes /\ TriggerMatches
    /\ ClientTypes /\ OneReader
    /\ \A c \in Clients : CallInv(c) /\ StillThere(c) /\ RefusedWhenFull(c)

-----------------------------------------------------------------------------
(* Arithmetic. *)

\* What division and remainder are.
LEMMA DivMod ==
    ASSUME NEW x \in Int, NEW n \in Nat \ {0}
    PROVE  /\ x \div n \in Int /\ x % n \in 0..(n - 1)
           /\ x = n * (x \div n) + (x % n)
  OBVIOUS

\* A remainder is a natural number.
LEMMA ModNat ==
    ASSUME NEW x \in Int, NEW n \in Nat \ {0}
    PROVE  x % n \in Nat
  BY DivMod

\* A quotient is the largest number of whole parts.
LEMMA DivBound ==
    ASSUME NEW x \in Int, NEW n \in Nat \ {0}, NEW b \in Int, b * n <= x
    PROVE  b <= x \div n
  <1>1. /\ x \div n \in Int /\ x % n \in 0..(n - 1)
        /\ x = n * (x \div n) + (x % n)
    BY DivMod
  <1>2. ASSUME b >= x \div n + 1 PROVE FALSE
    <2>1. n * b >= n * (x \div n + 1)
      BY <1>1, <1>2
    <2>2. n * (x \div n + 1) = n * (x \div n) + n
      BY <1>1
    <2>3. n * b = b * n
      OBVIOUS
    <2> QED
      BY <1>1, <2>1, <2>2, <2>3
  <1> QED
    BY <1>1, <1>2

\* A product of positive numbers is not less than what it replaces.
LEMMA TimesMono ==
    ASSUME NEW x \in Nat, NEW y \in Nat, x <= y, NEW k \in Nat
    PROVE  x * k <= y * k /\ x * k \in Nat /\ y * k \in Nat
  OBVIOUS

\* A multiple leaves no remainder.
LEMMA MultipleMod ==
    ASSUME NEW n \in Nat \ {0}, NEW k \in Int
    PROVE  (n * k) % n = 0 /\ (n * k) \div n = k
  <1> DEFINE x == n * k
             q == x \div n
             r == x % n
  <1>1. q \in Int /\ r \in 0..(n - 1) /\ x = n * q + r /\ x \in Int
    <2>1. x \in Int
      OBVIOUS
    <2> HIDE DEF x
    <2> QED
      BY <2>1, DivMod
  <1> HIDE DEF q, r
  <1>2. r = n * (k - q)
    BY <1>1
  <1>3. k - q = 0
    <2>1. ASSUME k - q >= 1 PROVE FALSE
      BY <1>1, <1>2, <2>1
    <2>2. ASSUME k - q <= -1 PROVE FALSE
      BY <1>1, <1>2, <2>2
    <2> QED
      BY <1>1, <2>1, <2>2
  <1> QED
    BY <1>1, <1>2, <1>3 DEF q, r

\* A part of a part divides the whole.
LEMMA Divides ==
    ASSUME NEW x \in Nat, NEW n \in Nat \ {0}, NEW s \in Nat \ {0}, x % n = 0, n % s = 0
    PROVE  x % s = 0
  <1> DEFINE k == x \div n
             m == n \div s
  <1>1. x = n * k /\ n = s * m /\ k \in Int /\ m \in Int
    BY DivMod
  <1> HIDE DEF k, m
  <1>2. x = s * (m * k) /\ m * k \in Int
    BY <1>1
  <1> QED
    BY <1>2, MultipleMod

\* Rounding up to a multiple: never less, and nothing only from nothing.
LEMMA AlignUp ==
    ASSUME NEW v \in Nat, NEW a \in Nat \ {0}
    PROVE  /\ AlignValue(v, a) \in Nat /\ AlignValue(v, a) >= v
           /\ AlignValue(v, a) = 0 <=> v = 0
  <1>1. v % a \in 0..(a - 1) /\ (v = 0 => v % a = 0)
    BY DivMod
  <1> QED
    BY <1>1 DEF AlignValue

\* The block after b whole ones begins within the memory, if something is left for it.
LEMMA BlockWithin ==
    ASSUME NEW T \in Nat, NEW n \in Nat \ {0}, NEW s \in Nat \ {0}, NEW R \in Nat,
           NEW b \in Nat, b <= T \div n, T % n # 0, T * s <= R
    PROVE  b <= (R - s) \div (n * s)
  <1> DEFINE q == T \div n
  <1>1. q \in Int /\ T % n \in 1..(n - 1) /\ T = n * q + (T % n) /\ b <= q
    BY DivMod
  <1> HIDE DEF q
  <1>2. n * b <= n * q
    BY <1>1
  <1>3. n * b + 1 <= T /\ n * b + 1 \in Nat
    BY <1>1, <1>2
  <1>4. (n * b + 1) * s <= T * s
    BY <1>3, TimesMono
  <1>5. (n * b + 1) * s = b * (n * s) + s
    OBVIOUS
  <1>6. b * (n * s) <= R - s /\ n * s \in Nat \ {0} /\ R - s \in Int /\ T * s \in Nat
        /\ b * (n * s) \in Nat
    BY <1>4, <1>5
  <1> QED
    BY <1>6, DivBound

-----------------------------------------------------------------------------
(* Channels and requests. *)

\* What AcqAssumption makes of the properties of a channel (smio_acq_new).
LEMMA ChannelFacts ==
    ASSUME NEW c \in Chans
    PROVE  /\ SampleSize[c] \in Nat \ {0} /\ StartAddr[c] \in Nat
           /\ Ring(c) \in Nat \ {0} /\ EndMem(c) = StartAddr[c] + Ring(c)
           /\ MaxSamples(c) * SampleSize[c] = Ring(c) - SampleSize[c]
           /\ Alignment(c) \in Nat \ {0}
           /\ BlockSize \div SampleSize[c] \in Nat \ {0}
           /\ (BlockSize \div SampleSize[c]) * SampleSize[c] = BlockSize
  <1> DEFINE s == SampleSize[c]
             R == EndAddr[c] - StartAddr[c]
  <1>1. /\ s \in Nat \ {0} /\ s <= Payload /\ Payload \in Nat \ {0} /\ BlockSize \in Nat \ {0}
        /\ Payload % s = 0 /\ BlockSize % s = 0 /\ R % Payload = 0
        /\ StartAddr[c] \in Nat /\ EndAddr[c] \in Nat /\ R \in Nat /\ R > s
    BY AcqAssumption
  <1>2. LastAddr(c) = EndAddr[c] - s
    BY <1>1 DEF LastAddr
  <1>3. Ring(c) = R /\ EndMem(c) = StartAddr[c] + R
    BY <1>1, <1>2 DEF Ring, EndMem
  <1>4. LastAddr(c) - StartAddr[c] = R - s
    BY <1>1, <1>2
  <1> HIDE DEF s, R
  <1>5. R % s = 0
    BY <1>1, Divides
  <1>6. R = s * (R \div s) /\ R \div s \in Int
    BY <1>1, <1>5, DivMod
  <1>7. R - s = s * (R \div s - 1) /\ R \div s - 1 \in Int
    BY <1>1, <1>6
  <1>8. (R - s) \div s = R \div s - 1
    BY <1>1, <1>7, MultipleMod
  <1>9. MaxSamples(c) * s = R - s
    <2>1. MaxSamples(c) = (R - s) \div s
      BY <1>4 DEF MaxSamples, s
    <2> QED
      BY <1>1, <1>6, <1>7, <1>8, <2>1
  <1>10. ASSUME NEW x \in Nat \ {0}, x % s = 0
         PROVE  x \div s \in Nat \ {0} /\ (x \div s) * s = x
    <2>1. x = s * (x \div s) /\ x \div s \in Int
      BY <1>1, <1>10, DivMod
    <2>2. x \div s > 0
      <3> SUFFICES ASSUME x \div s <= 0 PROVE FALSE
        BY <2>1
      <3> QED
        BY <1>1, <2>1
    <2> QED
      BY <1>1, <2>1, <2>2
  <1> QED
    BY <1>1, <1>3, <1>9, <1>10 DEF s, Alignment

\* The samples of a request are numbers (uint32_t in the client library).
LEMMA ReqFacts ==
    ASSUME NEW r \in Reqs
    PROVE  /\ r.pre \in Nat /\ r.post \in Nat /\ r.shots \in Nat
           /\ r.pre + r.post \in Nat /\ Total(r) \in Nat
  <1>1. r.pre \in Nat /\ r.post \in Nat /\ r.shots \in Nat
    <2>1. CASE r = NoReq
      BY <2>1 DEF NoReq
    <2>2. CASE r # NoReq
      <3>1. PICK c \in Clients : r \in Requests[c]
        BY <2>2 DEF Reqs
      <3> QED
        BY <3>1, ClientAssumption
    <2> QED
      BY <2>1, <2>2
  <1> QED
    BY <1>1 DEF Total

\* The core acquires at least what is asked for, and samples after the trigger
\* unless triggers are skipped.
LEMMA AlignedFacts ==
    ASSUME NEW r \in Reqs, r.chan \in Chans
    PROVE  /\ AlignedPre(r) \in Nat /\ AlignedPre(r) >= r.pre
           /\ AlignedPost(r) \in Nat /\ AlignedPost(r) >= r.post
           /\ AlignedPost(r) = 0 <=> r.post = 0 /\ TriggerType = "skip"
  <1>1. Alignment(r.chan) \in Nat \ {0}
    BY ChannelFacts
  <1>2. r.pre \in Nat /\ r.post \in Nat
    BY ReqFacts
  <1>3. AlignedPre(r) \in Nat /\ AlignedPre(r) >= r.pre
    BY <1>1, <1>2, AlignUp DEF AlignedPre
  <1>4. CASE r.post = 0 /\ TriggerType # "skip"
    BY <1>1, <1>2, <1>3, <1>4 DEF AlignedPost
  <1>5. CASE ~(r.post = 0 /\ TriggerType # "skip")
    <2>1. AlignedPost(r) = AlignValue(r.post, Alignment(r.chan))
      BY <1>5 DEF AlignedPost
    <2> QED
      BY <1>1, <1>2, <1>3, <1>5, <2>1, AlignUp
  <1> QED
    BY <1>4, <1>5

\* The memory an acquisition takes is enough for what was asked for.
LEMMA UnitsFacts ==
    ASSUME NEW r \in Reqs, r.chan \in Chans
    PROVE  LET u == (AlignedPre(r) + AlignedPost(r)) * r.shots * SampleSize[r.chan]
           IN  u \in Nat /\ Total(r) * SampleSize[r.chan] <= u
  <1> DEFINE x == r.pre + r.post
             y == AlignedPre(r) + AlignedPost(r)
             s == SampleSize[r.chan]
  <1>1. x \in Nat /\ y \in Nat /\ x <= y /\ r.shots \in Nat /\ s \in Nat
    BY ReqFacts, AlignedFacts, ChannelFacts
  <1>2. Total(r) = x * r.shots
    BY DEF Total
  <1> HIDE DEF x, y, s
  <1>3. x * r.shots <= y * r.shots /\ x * r.shots \in Nat /\ y * r.shots \in Nat
    BY <1>1, TimesMono
  <1>4. x * r.shots * s <= y * r.shots * s /\ y * r.shots * s \in Nat
    BY <1>1, <1>3, TimesMono
  <1> QED
    BY <1>2, <1>4 DEF y, s

\* _acq_data_acquire goes on only when the core is idle, the channel exists and the
\* trigger suits the request.
LEMMA AcceptedFacts ==
    ASSUME NEW r, DataAcquireCode(r) = ACQ_OK
    PROVE  /\ fpga.state = "idle" /\ ~fpga.full
           /\ r.chan \in Chans /\ ~(r.shots < 1)
           /\ ~(TriggerType = "skip" /\ r.post > 0)
  <1>1. IdleStatus = ACQ_OK
    BY DEF DataAcquireCode
  <1>2. fpga.state = "idle" /\ ~fpga.full
    BY <1>1 DEF IdleStatus, ACQ_OK, ACQ_FC_FULL, ACQ_NOT_COMPLETED
  <1>3. r.chan \in Chans /\ ~(r.shots < 1)
    BY <1>1 DEF DataAcquireCode, ACQ_OK, ACQ_OOR
  <1>4. ~(TriggerType = "skip" /\ r.post > 0)
    BY <1>1, <1>3 DEF DataAcquireCode, ACQ_OK, ACQ_OOR, ACQ_TRIG_TYPE
  <1> QED
    BY <1>2, <1>3, <1>4

-----------------------------------------------------------------------------
(* Blocks. *)

\* The blocks an SMIO has, in terms of what the client asked for: all but the one
\* after a full last one.
LEMMA BlockRefused ==
    ASSUME NEW r \in Reqs, r.chan \in Chans, params[r.chan].pre = r.pre,
           params[r.chan].post = r.post, params[r.chan].shots = r.shots,
           Total(r) * SampleSize[r.chan] <= Ring(r.chan),
           NEW b \in Nat, b <= Total(r) \div PerBlock(r), BlockCode(r.chan, b) # ACQ_OK
    PROVE  Total(r) % PerBlock(r) = 0
  <1> DEFINE c == r.chan
             s == SampleSize[c]
             n == PerBlock(r)
             T == Total(r)
  <1>1. /\ s \in Nat \ {0} /\ n \in Nat \ {0} /\ n * s = BlockSize /\ Ring(c) \in Nat
        /\ MaxSamples(c) * s = Ring(c) - s /\ T \in Nat
    BY ChannelFacts, ReqFacts DEF PerBlock
  <1>2. ShotSamples(params[c]) * params[c].shots = T
    BY DEF ShotSamples, Total
  <1>3. BlockValid(c) = IF T >= n /\ T % n = 0 THEN T \div n - 1 ELSE T \div n
    BY <1>2 DEF BlockValid, PerBlock
  <1>4. b > (MaxSamples(c) * s) \div BlockSize \/ b > BlockValid(c)
    BY DEF BlockCode
  <1> HIDE DEF c, s, n, T
  <1>5. SUFFICES ASSUME T % n # 0 PROVE FALSE
    BY DEF n, T
  <1>6. T \div n \in Int /\ b <= T \div n
    <2>1. b <= T \div n
      BY DEF n, T
    <2> QED
      BY <1>1, <2>1, DivMod
  <1>7. ~(b > BlockValid(c))
    BY <1>3, <1>5, <1>6
  <1>8. b <= (Ring(c) - s) \div (n * s)
    BY <1>1, <1>5, <1>6, BlockWithin DEF c, s, T
  <1>9. (Ring(c) - s) \div (n * s) \in Int
    <2>1. n * s \in Nat \ {0} /\ Ring(c) - s \in Int
      BY <1>1, AcqAssumption
    <2> QED
      BY <2>1, DivMod
  <1> QED
    BY <1>1, <1>4, <1>7, <1>8, <1>9

\* The loop reads a whole number of units at a time.
LEMMA ChunkIsInt ==
    ASSUME CoreTypes, ClientTypes, block.pc = "read"
    PROVE  ChunkSize \in Int
  <1> DEFINE c == block.chan
             p == params[c]
             n == BlockSize \div SampleSize[c]
             T == ShotSamples(p) * p.shots
  <1>1. p \in Param /\ SampleSize[c] \in Nat \ {0} /\ n \in Nat \ {0} /\ BlockSize \in Nat
        /\ EndMem(c) \in Int
    BY ChannelFacts, AcqAssumption DEF CoreTypes, ClientTypes
  <1>2. p.shots \in Nat /\ ShotSamples(p) \in Nat /\ T \in Nat
    BY <1>1 DEF Param, ShotSamples
  <1>3. block.addr \in Int /\ block.off \in Int /\ Len(block.data) \in Nat
    BY DEF ClientTypes, Block
  <1> HIDE DEF n, T
  <1>4. T % n \in Nat
    BY <1>1, <1>2, DivMod
  <1>5. ReplySize(c, block.n) \in Nat
    BY <1>1, <1>4 DEF ReplySize, n, T
  <1>6. (ShotSamples(p) - block.off) * SampleSize[c] \in Int
    BY <1>1, <1>2, <1>3
  <1>7. ReplySize(c, block.n) - Len(block.data) \in Int /\ EndMem(c) - block.addr \in Int
    BY <1>1, <1>3, <1>5
  <1> HIDE DEF p
  <1> QED
    BY <1>6, <1>7 DEF ChunkSize, p

\* A chunk is a sequence of units, whichever way it is read.
LEMMA ChunkIsSeq ==
    ASSUME CoreTypes, ClientTypes, NEW at \in Ways
    PROVE  block.pc = "read" /\ ReadMem(at) \in Seq(Unit)
  <1>1. block.pc = "read" /\ block.chan \in Chans
    BY DEF Ways, ClientTypes
  <1>2. ChunkSize \in Int
    BY <1>1, ChunkIsInt
  <1>3. DOMAIN at = 1..ChunkSize
    <2>1. CASE at = [k \in 1..ChunkSize |-> block.addr + k - 1]
      BY <2>1
    <2>2. CASE \E r \in DOMAIN Bar2 \cap {<<block.addr, ChunkSize>>} : at = Bar2[r]
      <3>1. /\ <<block.addr, ChunkSize>> \in DOMAIN Bar2
            /\ at = Bar2[<<block.addr, ChunkSize>>]
        BY <2>2
      <3>2. at = Bar2Block(block.addr, ChunkSize)
        BY <3>1 DEF Bar2
      <3> QED
        BY <3>2 DEF Bar2Block
    <2> QED
      BY <1>1, <2>1, <2>2 DEF Ways
  <1>4. ReadMem(at) = [k \in 1..ChunkSize |-> IF at[k] \in DOMAIN mem THEN mem[at[k]] ELSE <<0, 0>>]
    BY <1>3 DEF ReadMem
  <1>5. <<0, 0>> \in Unit
    BY DEF Unit
  <1>6. \A k \in 1..ChunkSize : (IF at[k] \in DOMAIN mem THEN mem[at[k]] ELSE <<0, 0>>) \in Unit
    BY <1>5 DEF CoreTypes
  <1>7. PICK m \in Nat : 1..ChunkSize = 1..m
    <2>1. CASE ChunkSize >= 0
      BY <1>2, <2>1
    <2>2. CASE ChunkSize < 0
      <3>1. 1..ChunkSize = 1..0
        BY <1>2, <2>2
      <3> QED
        BY <3>1
    <2> QED
      BY <1>2, <2>1, <2>2
  <1>8. ReadMem(at) \in [1..m -> Unit]
    BY <1>4, <1>6, <1>7
  <1> QED
    BY <1>1, <1>8

-----------------------------------------------------------------------------
(* What the SMIO and the core do to their own state. *)

\* What each channel was last asked for.
SameSamples ==
    \A c \in Chans : /\ params'[c].pre = params[c].pre /\ params'[c].post = params[c].post
                     /\ params'[c].shots = params[c].shots

\* Nothing of the core's state changes while blocks are read.
LEMMA CoreKept ==
    ASSUME CoreTypes, TriggerMatches, UNCHANGED <<params, curr, fpga, mem, nacq>>
    PROVE  CoreTypes' /\ TriggerMatches' /\ SameSamples
  BY DEF CoreTypes, TriggerMatches, SameSamples

\* data_acquire, accepted: the core is prepared for what was asked for.
LEMMA AcquireCore ==
    ASSUME CoreTypes, NEW r \in Reqs, DataAcquire(r), DataAcquireCode(r) = ACQ_OK
    PROVE  /\ CoreTypes' /\ TriggerMatches' /\ block' = block
           /\ r.chan \in Chans
           /\ params'[r.chan].pre = r.pre /\ params'[r.chan].post = r.post
           /\ params'[r.chan].shots = r.shots
           /\ \A c \in Chans \ {r.chan} : params'[c] = params[c]
  <1> DEFINE p == [params[r.chan] EXCEPT !.pre = r.pre, !.post = r.post, !.shots = r.shots,
                       !.preAligned = AlignedPre(r), !.postAligned = AlignedPost(r)]
             f == [fpga EXCEPT !.state = "acquiring", !.done = FALSE, !.fired = FALSE,
                       !.chan = r.chan, !.id = nacq + 1, !.shots = r.shots % ShotsMod,
                       !.pre = AlignedPre(r), !.post = AlignedPost(r)]
  <1>1. /\ r.chan \in Chans /\ ~(r.shots < 1) /\ ~(TriggerType = "skip" /\ r.post > 0)
        /\ r.pre \in Nat /\ r.post \in Nat /\ r.shots \in Nat \ {0}
        /\ AlignedPre(r) \in Nat /\ AlignedPost(r) \in Nat
        /\ AlignedPost(r) = 0 <=> r.post = 0 /\ TriggerType = "skip"
    BY AcceptedFacts, ReqFacts, AlignedFacts
  <1>2. /\ params' = [params EXCEPT ![r.chan] = p] /\ curr' = r.chan /\ nacq' = nacq + 1
        /\ fpga' = f /\ UNCHANGED <<block, mem>> /\ nacq < MaxAcq
    BY DEF DataAcquire
  <1>3. /\ p \in Param /\ p.pre = r.pre /\ p.post = r.post /\ p.shots = r.shots
    BY <1>1 DEF CoreTypes, Param
  <1>4. r.shots % ShotsMod \in Nat
    <2>1. r.shots \in Int /\ ShotsMod \in Nat \ {0}
      BY <1>1, AcqAssumption
    <2> QED
      BY <2>1, ModNat
  <1>5. fpga \in Core /\ nacq \in Nat /\ MaxAcq \in Nat /\ nacq <= MaxAcq
    BY AcqAssumption DEF CoreTypes
  <1>6. /\ f \in Core /\ f.id = nacq + 1 /\ f.state = "acquiring"
        /\ f.trigger = fpga.trigger /\ f.post = AlignedPost(r)
    <2> DEFINE g == [fpga EXCEPT !.state = "acquiring", !.done = FALSE, !.fired = FALSE,
                         !.chan = r.chan]
               h == [g EXCEPT !.id = nacq + 1, !.shots = r.shots % ShotsMod]
               k == [h EXCEPT !.pre = AlignedPre(r), !.post = AlignedPost(r)]
    <2>1. g \in Core /\ g.state = "acquiring" /\ g.trigger = fpga.trigger
      BY <1>1, <1>5 DEF Core
    <2>2. h \in Core /\ h.id = nacq + 1 /\ h.state = g.state /\ h.trigger = g.trigger
      <3> HIDE DEF g
      <3>1. nacq + 1 \in Nat
        BY <1>5
      <3> QED
        BY <1>4, <2>1, <3>1 DEF Core
    <2>3. k \in Core /\ k.id = h.id /\ k.state = h.state /\ k.trigger = h.trigger
          /\ k.post = AlignedPost(r)
      <3> HIDE DEF h
      <3> QED
        BY <1>1, <2>2 DEF Core
    <2>4. f = k
      OBVIOUS
    <2> QED
      BY <2>1, <2>2, <2>3, <2>4
  <1> HIDE DEF p, f
  <1>7. params' \in [Chans -> Param] /\ params'[r.chan] = p
        /\ \A c \in Chans \ {r.chan} : params'[c] = params[c]
    BY <1>1, <1>2, <1>3 DEF CoreTypes
  <1>8. nacq' \in 0..MaxAcq /\ fpga'.id <= nacq'
    BY <1>2, <1>5, <1>6
  <1>9. CoreTypes'
    BY <1>1, <1>2, <1>6, <1>7, <1>8 DEF CoreTypes
  <1>10. TriggerMatches'
    <2>1. TriggerType = "skip" <=> fpga.trigger \in {"none", "skip"}
      BY DEF TriggerType
    <2>2. AlignedPost(r) = 0 <=> TriggerType = "skip"
      BY <1>1
    <2> QED
      BY <1>2, <1>6, <2>1, <2>2 DEF TriggerMatches
  <1> QED
    BY <1>1, <1>2, <1>3, <1>7, <1>9, <1>10

\* check_data_acquire changes the trigger address of curr_chan at most.
LEMMA CheckCore ==
    ASSUME CoreTypes, TriggerMatches, CheckDataAcquire
    PROVE  CoreTypes' /\ TriggerMatches' /\ SameSamples /\ block' = block /\ fpga' = fpga
  <1>1. UNCHANGED <<curr, block, fpga, mem, nacq>>
    BY DEF CheckDataAcquire
  <1>2. TriggerMatches'
    BY <1>1 DEF TriggerMatches
  <1>3. CASE CompleteStatus = ACQ_OK
    <2> DEFINE p == [params[curr] EXCEPT !.trig = fpga.trigPos]
    <2>1. params' = [params EXCEPT ![curr] = p]
      BY <1>3 DEF CheckDataAcquire
    <2>2. /\ p \in Param /\ p.pre = params[curr].pre /\ p.post = params[curr].post
          /\ p.shots = params[curr].shots
      BY DEF CoreTypes, Param, Core
    <2> HIDE DEF p
    <2>3. params' \in [Chans -> Param] /\ SameSamples
      BY <2>1, <2>2 DEF CoreTypes, SameSamples
    <2> QED
      BY <1>1, <1>2, <2>3 DEF CoreTypes
  <1>4. CASE CompleteStatus # ACQ_OK
    BY <1>1, <1>4, CoreKept DEF CheckDataAcquire
  <1> QED
    BY <1>3, <1>4

\* A trigger is configured only while the core is idle; a software trigger and a
\* stop change neither the trigger nor the samples of an acquisition.
LEMMA ControlCore ==
    ASSUME CoreTypes, TriggerMatches,
           (\E t \in Triggers : CfgTrigger(t)) \/ SwTrig \/ FsmStop
    PROVE  CoreTypes' /\ TriggerMatches' /\ SameSamples /\ block' = block
  <1>1. UNCHANGED <<params, curr, block, mem, nacq>>
    BY DEF CfgTrigger, SwTrig, FsmStop
  <1>2. fpga \in Core
    BY DEF CoreTypes
  <1>3. fpga' \in Core /\ fpga'.id = fpga.id /\ TriggerMatches'
    <2>1. ASSUME NEW t \in Triggers, CfgTrigger(t)
          PROVE  fpga' \in Core /\ fpga'.id = fpga.id /\ TriggerMatches'
      <3>1. CASE IdleStatus = ACQ_OK
        <4>1. fpga.state = "idle"
          BY <3>1 DEF IdleStatus, ACQ_OK, ACQ_FC_FULL, ACQ_NOT_COMPLETED
        <4>2. fpga' = [fpga EXCEPT !.trigger = t]
          BY <2>1, <3>1 DEF CfgTrigger
        <4> QED
          BY <1>2, <4>1, <4>2 DEF Core, TriggerMatches
      <3>2. CASE IdleStatus # ACQ_OK
        <4>1. fpga' = fpga
          BY <2>1, <3>2 DEF CfgTrigger
        <4> QED
          BY <1>2, <4>1 DEF TriggerMatches
      <3> QED
        BY <3>1, <3>2
    <2>2. CASE SwTrig
      BY <1>2, <2>2 DEF SwTrig, Core, TriggerMatches
    <2>3. CASE FsmStop
      BY <1>2, <2>3 DEF FsmStop, Core, TriggerMatches
    <2> QED
      BY <2>1, <2>2, <2>3
  <1> QED
    BY <1>1, <1>3 DEF CoreTypes, SameSamples

\* The core stores samples and says where the trigger was, or fills up.
LEMMA FpgaCore ==
    ASSUME CoreTypes, TriggerMatches, FpgaComplete \/ FpgaFull
    PROVE  CoreTypes' /\ TriggerMatches' /\ SameSamples /\ block' = block
  <1>1. UNCHANGED <<params, curr, block, nacq>>
    BY DEF FpgaComplete, FpgaFull
  <1>2. fpga \in Core
    BY DEF CoreTypes
  <1>3. CASE FpgaFull
    <2>1. fpga' = [fpga EXCEPT !.full = TRUE] /\ mem' = mem
      BY <1>3 DEF FpgaFull
    <2>2. fpga' \in Core /\ fpga'.id = fpga.id /\ TriggerMatches'
      BY <1>2, <2>1 DEF Core, TriggerMatches
    <2> QED
      BY <1>1, <2>1, <2>2 DEF CoreTypes, SameSamples
  <1>4. CASE FpgaComplete
    <2> DEFINE c == fpga.chan
    <2>1. /\ c \in Chans /\ fpga.pre \in Nat /\ fpga.post \in Nat /\ fpga.shots \in Nat
          /\ fpga.id \in Nat
      BY <1>2 DEF Core
    <2>2. SampleSize[c] \in Nat \ {0} /\ Ring(c) \in Nat \ {0} /\ StartAddr[c] \in Nat
          /\ EndMem(c) = StartAddr[c] + Ring(c)
      BY <2>1, ChannelFacts
    <2>3. PICK t \in TriggerPositions :
            /\ fpga' = [fpga EXCEPT !.state = "idle", !.done = TRUE, !.full = FALSE,
                                    !.trigPos = t]
            /\ mem' = Stored(t - fpga.pre * SampleSize[c])
      BY <1>4 DEF FpgaComplete
    <2> DEFINE pre == fpga.pre * SampleSize[c]
               first == t - pre
    <2>4. pre \in Nat /\ AcqUnits \in Nat
      BY <2>1, <2>2 DEF AcqUnits
    <2> HIDE DEF pre, c
    <2>5. t \in Nat
      <3>1. pre % Ring(c) \in Nat
        BY <2>2, <2>4, ModNat
      <3>2. t = StartAddr[c] + (pre % Ring(c)) \/ t \in StartAddr[c]..(EndMem(c) - 1)
        BY <2>3 DEF TriggerPositions, pre, c
      <3> QED
        BY <2>2, <3>1, <3>2
    <2>6. fpga' \in Core /\ fpga'.id = fpga.id /\ TriggerMatches'
      BY <1>2, <2>3, <2>5 DEF Core, TriggerMatches
    <2>7. first \in Int /\ mem' = Stored(first)
      BY <2>3, <2>4, <2>5 DEF pre, c
    <2> HIDE DEF first
    <2>8. ASSUME NEW a \in DOMAIN mem'
          PROVE  mem'[a] \in Unit
      <3> DEFINE unit == (a - first) % Ring(c)
                 wraps == ((AcqUnits - 1) - unit) \div Ring(c)
      <3>1. a \in DOMAIN mem
        BY <2>7 DEF Stored
      <3>2. mem'[a] = IF a \in StartAddr[c]..(EndMem(c) - 1) /\ unit < AcqUnits
                      THEN <<fpga.id, unit + wraps * Ring(c)>> ELSE mem[a]
        BY <2>7, <3>1 DEF Stored, c
      <3>3. CASE a \in StartAddr[c]..(EndMem(c) - 1) /\ unit < AcqUnits
        <4>1. a - first \in Int
          <5> HIDE DEF unit
          <5>1. a \in Int
            BY <2>2, <3>3
          <5> QED
            BY <2>7, <5>1
        <4>2. unit \in Int
          <5>1. Ring(c) \in Nat \ {0}
            BY <2>2
          <5> QED
            BY <4>1, <5>1, ModNat
        <4> HIDE DEF unit
        <4>3. (AcqUnits - 1) - unit \in Int
          BY <2>4, <4>2
        <4>4. wraps \in Int
          BY <2>2, <4>3, DivMod
        <4> HIDE DEF wraps
        <4>5. unit + wraps * Ring(c) \in Int
          BY <2>2, <4>2, <4>4
        <4> QED
          BY <2>1, <3>2, <3>3, <4>5 DEF Unit
      <3>4. CASE ~(a \in StartAddr[c]..(EndMem(c) - 1) /\ unit < AcqUnits)
        BY <3>1, <3>2, <3>4 DEF CoreTypes
      <3> QED
        BY <3>3, <3>4
    <2> QED
      BY <1>1, <2>6, <2>8 DEF CoreTypes, SameSamples
  <1> QED
    BY <1>3, <1>4

-----------------------------------------------------------------------------
(* Steps that leave a client, or all but one of them, alone. *)

\* Client d takes no step: what others do can only disturb its acquisition.
KeptClient(d) ==
    /\ cl'[d] = cl[d]
    /\ hist'[d].id = hist[d].id /\ hist'[d].units = hist[d].units
    /\ hist'[d].failed = hist[d].failed /\ hist'[d].ready = hist[d].ready
    /\ hist[d].disturbed => hist'[d].disturbed

\* What is known of one client.
OwnInv(c) == CallInv(c) /\ StillThere(c) /\ RefusedWhenFull(c)

\* A client that takes no step keeps its invariant, if the parameters of its
\* channel are kept or it is disturbed.
LEMMA KeptInv ==
    ASSUME NEW d \in Clients, OwnInv(d), KeptClient(d),
           \/ SameSamples
           \/ hist'[d].id = 0 \/ hist'[d].disturbed
           \/ params'[cl[d].req.chan] = params[cl[d].req.chan]
    PROVE  OwnInv(d)'
  <1>1. CallInv(d)'
    BY DEF OwnInv, KeptClient, CallInv
  <1>2. StillThere(d)'
    <2> SUFFICES ASSUME hist'[d].id # 0, ~hist'[d].disturbed
                 PROVE  LET r == cl[d].req
                            p == params'[r.chan]
                        IN /\ r.chan \in Chans /\ p.pre = r.pre /\ p.post = r.post
                           /\ p.shots = r.shots
                           /\ Total(r) * SampleSize[r.chan] <= hist'[d].units
      BY DEF StillThere, KeptClient
    <2>1. hist[d].id # 0 /\ ~hist[d].disturbed /\ hist'[d].units = hist[d].units
      BY DEF KeptClient
    <2> QED
      BY <2>1 DEF OwnInv, StillThere, SameSamples
  <1>3. RefusedWhenFull(d)'
    <2>1. Undisturbed(d)' => Undisturbed(d)
      BY DEF KeptClient, Undisturbed
    <2>2. Sound(d)' <=> Sound(d)
      BY DEF KeptClient, Sound
    <2> QED
      BY <2>1, <2>2 DEF OwnInv, KeptClient, RefusedWhenFull
  <1> QED
    BY <1>1, <1>2, <1>3 DEF OwnInv

\* A step of client c that keeps the parameters of the channels.
LEMMA StepOf ==
    ASSUME AInv, NEW c \in Clients, CoreTypes', TriggerMatches', SameSamples,
           ClientTypes', OneReader',
           \A d \in Clients \ {c} : KeptClient(d), OwnInv(c)'
    PROVE  AInv'
  <1>1. \A d \in Clients \ {c} : OwnInv(d)'
    BY KeptInv DEF AInv, OwnInv
  <1> QED
    BY <1>1 DEF AInv, OwnInv

\* A client whose request stands keeps its parameters.
LEMMA OwnStill ==
    ASSUME NEW c \in Clients, StillThere(c), SameSamples, cl'[c].req = cl[c].req,
           hist'[c].id = hist[c].id, hist'[c].units = hist[c].units,
           hist'[c].disturbed = hist[c].disturbed
    PROVE  StillThere(c)'
  BY DEF StillThere, SameSamples

\* The first block of a curve is one of its blocks.
LEMMA CurveBegins ==
    ASSUME NEW r \in Reqs, r.chan \in Chans
    PROVE  /\ Total(r) \div PerBlock(r) \in Nat
           /\ Total(r) * SampleSize[r.chan] \in Nat
  <1>1. Total(r) \in Nat /\ PerBlock(r) \in Nat \ {0} /\ SampleSize[r.chan] \in Nat
    BY ReqFacts, ChannelFacts DEF PerBlock
  <1>2. Total(r) \div PerBlock(r) \in Int
    BY <1>1, DivMod
  <1>3. 0 * PerBlock(r) <= Total(r)
    BY <1>1
  <1>4. 0 <= Total(r) \div PerBlock(r)
    BY <1>1, <1>3, DivBound
  <1> QED
    BY <1>1, <1>2, <1>4

\* _acq_get_curve begins.
LEMMA OpenCurveFacts ==
    ASSUME ClientTypes, NEW c \in Clients, cl[c].req.chan \in Chans
    PROVE  LET o == OpenCurve(c) IN
           /\ o \in Client /\ o.pc = "curve" /\ o.blk = 0 /\ o.req = cl[c].req
           /\ o.result = cl[c].result /\ o.ops = cl[c].ops
  <1>1. cl[c] \in Client
    BY DEF ClientTypes
  <1>2. Total(cl[c].req) * SampleSize[cl[c].req.chan] \in Nat
    <2>1. cl[c].req \in Reqs
      BY <1>1 DEF Client
    <2> QED
      BY <2>1, CurveBegins
  <1>3. <<>> \in Seq(Unit)
    OBVIOUS
  <1> QED
    BY <1>1, <1>2, <1>3 DEF OpenCurve, Client

-----------------------------------------------------------------------------
(* AInv, one lemma per action. *)

\* The types of the tables and of the block, when one entry of cl changes.
LEMMA OneEntry ==
    ASSUME NEW f \in [Clients -> Client], NEW c \in Clients, NEW v \in Client
    PROVE  /\ [f EXCEPT ![c] = v] \in [Clients -> Client]
           /\ [f EXCEPT ![c] = v][c] = v
           /\ \A d \in Clients \ {c} : [f EXCEPT ![c] = v][d] = f[d]
  OBVIOUS

\* A client that does not wait cannot make a second reader.
LEMMA NoNewReader ==
    ASSUME OneReader, NEW c \in Clients, cl'[c].pc # "wait", block'.pc = block.pc,
           \A d \in Clients \ {c} : cl'[d] = cl[d]
    PROVE  OneReader'
  BY DEF OneReader

\* func_polling asks once; the end of its acquisition begins the curve.
LEMMA PollKeeps ==
    ASSUME AInv, NEW c \in Clients, Poll(c)
    PROVE  AInv'
  <1>1. /\ CoreTypes' /\ TriggerMatches' /\ SameSamples /\ block' = block /\ fpga' = fpga
        /\ cl[c].pc = "poll"
    BY CheckCore DEF Poll, AInv
  <1>2. /\ ClientTypes /\ OwnInv(c) /\ OneReader /\ cl[c] \in Client /\ cl[c].result = "none"
    BY <1>1 DEF AInv, OwnInv, ClientTypes, CallInv
  <1>3. CASE UNCHANGED <<cl, hist>>
    <2>1. ClientTypes' /\ OneReader'
      BY <1>1, <1>2, <1>3 DEF ClientTypes, OneReader
    <2>2. \A d \in Clients : KeptClient(d)
      BY <1>3 DEF KeptClient
    <2>3. OwnInv(c)'
      BY <1>1, <1>2, <2>2, KeptInv
    <2> QED
      BY <1>1, <2>1, <2>2, <2>3, StepOf
  <1>4. ASSUME Learnt(c),
               cl' = [cl EXCEPT ![c] = IF cl[c].req.chan \in Chans THEN OpenCurve(c)
                         ELSE [cl[c] EXCEPT !.pc = "idle", !.result = "error"]]
        PROVE  AInv'
    <2> DEFINE v == IF cl[c].req.chan \in Chans THEN OpenCurve(c)
                    ELSE [cl[c] EXCEPT !.pc = "idle", !.result = "error"]
               known(d) == hist[d].known \/ (hist[d].id # 0 /\ hist[d].id = fpga.id)
               h(d) == [hist[d] EXCEPT !.known = known(d),
                                       !.ready = IF d = c THEN known(c) ELSE @]
    <2>1. /\ v \in Client /\ v.req = cl[c].req /\ v.pc # "wait"
          /\ cl[c].req.chan \in Chans => v.pc = "curve" /\ v.blk = 0 /\ v.result = "none"
          /\ cl[c].req.chan \notin Chans => v.pc = "idle"
      <3>1. CASE cl[c].req.chan \in Chans
        BY <1>2, <3>1, OpenCurveFacts
      <3>2. CASE cl[c].req.chan \notin Chans
        BY <1>2, <3>2 DEF Client
      <3> QED
        BY <3>1, <3>2
    <2> HIDE DEF v
    <2>2. /\ cl' \in [Clients -> Client] /\ cl'[c] = v
          /\ \A d \in Clients \ {c} : cl'[d] = cl[d]
      BY <1>2, <1>4, <2>1, OneEntry DEF ClientTypes, v
    <2>3. hist' = [d \in Clients |-> h(d)]
      BY <1>4 DEF Learnt
    <2>4. ASSUME NEW d \in Clients
          PROVE  /\ hist'[d] \in Hist
                 /\ hist'[d].id = hist[d].id /\ hist'[d].units = hist[d].units
                 /\ hist'[d].failed = hist[d].failed
                 /\ hist'[d].disturbed = hist[d].disturbed
                 /\ d # c => hist'[d].ready = hist[d].ready
      <3>1. hist[d] \in Hist /\ known(d) \in BOOLEAN /\ known(c) \in BOOLEAN
        BY <1>2 DEF ClientTypes, Hist
      <3> HIDE DEF known
      <3>2. hist'[d] = h(d)
        BY <2>3
      <3> QED
        BY <3>1, <3>2 DEF Hist
    <2>5. hist' \in [Clients -> Hist]
      BY <2>3, <2>4
    <2>6. ClientTypes'
      BY <1>1, <1>2, <2>2, <2>5 DEF ClientTypes
    <2>7. OneReader'
      BY <1>1, <1>2, <2>1, <2>2, NoNewReader
    <2>8. \A d \in Clients \ {c} : KeptClient(d)
      BY <2>2, <2>4 DEF KeptClient
    <2>9. StillThere(c)'
      BY <1>1, <1>2, <2>1, <2>2, <2>4, OwnStill DEF OwnInv
    <2>10. CallInv(c)'
      <3>1. CASE cl[c].req.chan \in Chans
        <4>1. Total(cl[c].req) \div PerBlock(cl[c].req) \in Nat
          BY <1>2, <3>1, CurveBegins DEF Client
        <4> QED
          BY <2>1, <2>2, <3>1, <4>1 DEF CallInv
      <3>2. CASE cl[c].req.chan \notin Chans
        BY <2>1, <2>2, <3>2 DEF CallInv
      <3> QED
        BY <3>1, <3>2
    <2>11. RefusedWhenFull(c)'
      <3>1. CASE cl[c].req.chan \in Chans
        BY <2>1, <2>2, <3>1 DEF RefusedWhenFull
      <3>2. CASE cl[c].req.chan \notin Chans
        <4>1. ~Undisturbed(c)'
          BY <2>1, <2>2, <2>9, <3>2 DEF Undisturbed, StillThere
        <4> QED
          BY <4>1 DEF RefusedWhenFull
      <3> QED
        BY <3>1, <3>2
    <2> QED
      BY <1>1, <2>6, <2>7, <2>8, <2>9, <2>10, <2>11, StepOf DEF OwnInv
  <1> QED
    BY <1>3, <1>4 DEF Poll

\* func_polling gives up.
LEMMA PollTimeoutKeeps ==
    ASSUME AInv, NEW c \in Clients, PollTimeout(c)
    PROVE  AInv'
  <1> DEFINE v == [cl[c] EXCEPT !.pc = "idle", !.result = "timeout"]
  <1>1. /\ UNCHANGED <<params, curr, block, fpga, mem, nacq, hist>>
        /\ cl' = [cl EXCEPT ![c] = v]
    BY DEF PollTimeout, acqVars, AInv, ClientTypes
  <1>2. /\ ClientTypes /\ OwnInv(c) /\ OneReader /\ cl[c] \in Client
        /\ CoreTypes' /\ TriggerMatches' /\ SameSamples
    BY <1>1, CoreKept DEF AInv, OwnInv, ClientTypes
  <1>3. v \in Client /\ v.req = cl[c].req /\ v.pc = "idle" /\ v.result = "timeout"
    BY <1>2 DEF Client
  <1> HIDE DEF v
  <1>4. /\ cl' \in [Clients -> Client] /\ cl'[c] = v
        /\ \A d \in Clients \ {c} : cl'[d] = cl[d]
    BY <1>1, <1>2, <1>3, OneEntry DEF ClientTypes
  <1>5. ClientTypes' /\ OneReader'
    BY <1>1, <1>2, <1>3, <1>4, NoNewReader DEF ClientTypes
  <1>6. \A d \in Clients \ {c} : KeptClient(d)
    BY <1>1, <1>4 DEF KeptClient
  <1>7. OwnInv(c)'
    <2>1. StillThere(c)'
      BY <1>1, <1>2, <1>3, <1>4, OwnStill DEF OwnInv
    <2> QED
      BY <1>3, <1>4, <2>1 DEF OwnInv, CallInv, RefusedWhenFull
  <1> QED
    BY <1>2, <1>5, <1>6, <1>7, StepOf

\* acq_get_curve begins to read the curve of the last request again.
LEMMA AcqGetCurveKeeps ==
    ASSUME AInv, NEW c \in Clients, AcqGetCurve(c)
    PROVE  AInv'
  <1> DEFINE o == OpenCurve(c)
             v == [o EXCEPT !.ops = @ + 1, !.result = "none"]
             w == [hist[c] EXCEPT !.failed = FALSE, !.ready = hist[c].known]
  <1>1. /\ UNCHANGED <<params, curr, block, fpga, mem, nacq>> /\ cl[c].req.chan \in Chans
        /\ cl' = [cl EXCEPT ![c] = v]
    BY DEF AcqGetCurve, acqVars
  <1>2. hist' = [hist EXCEPT ![c] = w]
    BY DEF AcqGetCurve, AInv, ClientTypes
  <1>3. /\ ClientTypes /\ OwnInv(c) /\ OneReader /\ cl[c] \in Client /\ hist[c] \in Hist
        /\ CoreTypes' /\ TriggerMatches' /\ SameSamples
    BY <1>1, CoreKept DEF AInv, OwnInv, ClientTypes
  <1>4. o \in Client /\ o.pc = "curve" /\ o.blk = 0 /\ o.req = cl[c].req
    BY <1>1, <1>3, OpenCurveFacts
  <1> HIDE DEF o
  <1>5. v \in Client /\ v.pc = "curve" /\ v.blk = 0 /\ v.req = cl[c].req /\ v.result = "none"
    <2>1. o.ops + 1 \in Nat
      BY <1>4 DEF Client
    <2>2. v = [o EXCEPT !.ops = o.ops + 1, !.result = "none"]
      BY <1>4 DEF Client
    <2> HIDE DEF v
    <2>3. v \in Client
      BY <1>4, <2>1, <2>2 DEF Client
    <2> QED
      BY <1>4, <2>2, <2>3 DEF Client
  <1>6. /\ w \in Hist /\ w.id = hist[c].id /\ w.units = hist[c].units
        /\ w.disturbed = hist[c].disturbed
    BY <1>3 DEF Hist
  <1> HIDE DEF v, w
  <1>7. /\ cl' \in [Clients -> Client] /\ cl'[c] = v
        /\ \A d \in Clients \ {c} : cl'[d] = cl[d]
    BY <1>1, <1>3, <1>5, OneEntry DEF ClientTypes
  <1>8. /\ hist' \in [Clients -> Hist] /\ hist'[c] = w
        /\ \A d \in Clients \ {c} : hist'[d] = hist[d]
    BY <1>2, <1>3, <1>6 DEF ClientTypes
  <1>9. ClientTypes' /\ OneReader'
    BY <1>1, <1>3, <1>5, <1>7, <1>8, NoNewReader DEF ClientTypes
  <1>10. \A d \in Clients \ {c} : KeptClient(d)
    BY <1>7, <1>8 DEF KeptClient
  <1>11. StillThere(c)'
    BY <1>3, <1>5, <1>6, <1>7, <1>8, OwnStill DEF OwnInv
  <1>12. CallInv(c)' /\ RefusedWhenFull(c)'
    <2>1. Total(cl[c].req) \div PerBlock(cl[c].req) \in Nat
      BY <1>1, <1>3, CurveBegins DEF Client
    <2> QED
      BY <1>1, <1>5, <1>7, <2>1 DEF CallInv, RefusedWhenFull
  <1> QED
    BY <1>3, <1>9, <1>10, <1>11, <1>12, StepOf DEF OwnInv

\* A channel shares its memory with itself.
LEMMA SharesOwn ==
  ASSUME NEW c \in Chans
  PROVE  SharesMemory(c, c)
BY AcqAssumption DEF SharesMemory

\* data_acquire on behalf of client c, accepted or not: it disturbs what others
\* acquired on the channel, and what they did not know to be complete.
LEMMA AcqFullKeeps ==
    ASSUME AInv, NEW c \in Clients, NEW r \in Requests[c], AcqFull(c, r)
    PROVE  AInv'
  <1> DEFINE v == [NewClient EXCEPT !.pc = "poll", !.req = r, !.ops = cl[c].ops + 1]
  <1>1. r \in Reqs
    BY DEF Reqs
  <1>2. /\ DataAcquire(r) /\ cl' = [cl EXCEPT ![c] = v]
        /\ block' = block
    BY DEF AcqFull, DataAcquire
  <1>3. /\ CoreTypes /\ TriggerMatches /\ ClientTypes /\ OneReader
        /\ \A d \in Clients : OwnInv(d) /\ cl[d] \in Client /\ hist[d] \in Hist
    BY DEF AInv, OwnInv, ClientTypes
  <1>4. v \in Client /\ v.pc = "poll" /\ v.req = r /\ v.result = "none"
    <2>1. cl[c].ops + 1 \in Nat /\ <<>> \in Seq(Unit)
      BY <1>3 DEF Client
    <2>2. NewClient \in Client /\ NewClient.result = "none"
      BY <2>1 DEF NewClient, Client, Reqs
    <2> QED
      BY <1>1, <2>1, <2>2 DEF Client
  <1> HIDE DEF v
  <1>5. /\ cl' \in [Clients -> Client] /\ cl'[c] = v
        /\ \A d \in Clients \ {c} : cl'[d] = cl[d]
    BY <1>2, <1>3, <1>4, OneEntry DEF ClientTypes
  <1>6. OneReader'
    BY <1>2, <1>3, <1>4, <1>5, NoNewReader
  <1>7. CallInv(c)' /\ RefusedWhenFull(c)'
    BY <1>4, <1>5 DEF CallInv, RefusedWhenFull
  <1>8. NoHist \in Hist /\ NoHist.id = 0
    BY DEF NoHist, Hist
  <1>9. CASE DataAcquireCode(r) # ACQ_OK
    <2>1. UNCHANGED <<params, curr, fpga, nacq, mem>> /\ hist' = [hist EXCEPT ![c] = NoHist]
      BY <1>2, <1>9 DEF AcqFull, DataAcquire
    <2>2. CoreTypes' /\ TriggerMatches' /\ SameSamples
      BY <1>3, <2>1, CoreKept
    <2>3. /\ hist' \in [Clients -> Hist] /\ hist'[c] = NoHist
          /\ \A d \in Clients \ {c} : hist'[d] = hist[d]
      BY <1>3, <1>8, <2>1 DEF ClientTypes
    <2>4. ClientTypes' /\ \A d \in Clients \ {c} : KeptClient(d)
      BY <1>2, <1>3, <1>5, <2>3 DEF ClientTypes, KeptClient
    <2>5. StillThere(c)'
      BY <1>8, <2>3 DEF StillThere
    <2> QED
      BY <1>6, <1>7, <2>2, <2>4, <2>5, StepOf DEF OwnInv
  <1>10. CASE DataAcquireCode(r) = ACQ_OK
    <2> DEFINE u == (AlignedPre(r) + AlignedPost(r)) * r.shots * SampleSize[r.chan]
               h == [NoHist EXCEPT !.id = nacq + 1, !.units = u]
               hit(d) == hist[d].id # 0
                         /\ (~hist[d].known \/ SharesMemory(cl[d].req.chan, r.chan))
               g(d) == [hist[d] EXCEPT !.disturbed = @ \/ hit(d)]
    <2>1. /\ CoreTypes' /\ TriggerMatches' /\ r.chan \in Chans
          /\ params'[r.chan].pre = r.pre /\ params'[r.chan].post = r.post
          /\ params'[r.chan].shots = r.shots
          /\ \A e \in Chans \ {r.chan} : params'[e] = params[e]
      BY <1>1, <1>2, <1>3, <1>10, AcquireCore
    <2>2. hist' = [d \in Clients |-> IF d = c THEN h ELSE g(d)]
      BY <1>10 DEF AcqFull, Started
    <2>3. u \in Nat /\ Total(r) * SampleSize[r.chan] <= u
      BY <1>1, <2>1, UnitsFacts
    <2> HIDE DEF u
    <2>4. h \in Hist /\ h.id = nacq + 1 /\ h.units = u
      <3>1. nacq + 1 \in Nat
        BY <1>3 DEF CoreTypes
      <3> QED
        BY <2>3, <3>1 DEF NoHist, Hist
    <2> HIDE DEF h
    <2>5. ASSUME NEW d \in Clients \ {c}
          PROVE  /\ hist'[d] \in Hist
                 /\ hist'[d].id = hist[d].id /\ hist'[d].units = hist[d].units
                 /\ hist'[d].failed = hist[d].failed /\ hist'[d].ready = hist[d].ready
                 /\ hist[d].disturbed => hist'[d].disturbed
                 /\ hist[d].id # 0 /\ cl[d].req.chan = r.chan => hist'[d].disturbed
      <3>1. hist[d] \in Hist /\ hit(d) \in BOOLEAN
            /\ (hist[d].id # 0 /\ cl[d].req.chan = r.chan => hit(d))
        BY <1>3, <2>1, SharesOwn
      <3> HIDE DEF hit
      <3>2. hist'[d] = g(d)
        BY <2>2
      <3>3. hist[d].disturbed \in BOOLEAN /\ (hist[d].disturbed \/ hit(d)) \in BOOLEAN
        BY <3>1 DEF Hist
      <3> QED
        BY <3>1, <3>2, <3>3 DEF Hist
    <2>6. hist' \in [Clients -> Hist] /\ hist'[c] = h
      BY <2>2, <2>4, <2>5
    <2>7. ClientTypes'
      BY <1>2, <1>3, <1>5, <2>6 DEF ClientTypes
    <2>8. ASSUME NEW d \in Clients \ {c}
          PROVE  OwnInv(d)'
      <3>1. KeptClient(d)
        BY <1>5, <2>5 DEF KeptClient
      <3>2. OwnInv(d)
        BY <1>3
      <3>3. CASE hist[d].id = 0 \/ hist[d].disturbed \/ cl[d].req.chan = r.chan
        <4>1. hist'[d].id = 0 \/ hist'[d].disturbed
          BY <2>5, <3>3
        <4> QED
          BY <3>1, <3>2, <4>1, KeptInv
      <3>4. CASE hist[d].id # 0 /\ ~hist[d].disturbed /\ cl[d].req.chan # r.chan
        <4>1. cl[d].req.chan \in Chans \ {r.chan}
          BY <3>2, <3>4 DEF OwnInv, StillThere
        <4>2. params'[cl[d].req.chan] = params[cl[d].req.chan]
          BY <2>1, <4>1
        <4> QED
          BY <3>1, <3>2, <4>2, KeptInv
      <3> QED
        BY <3>3, <3>4
    <2>9. StillThere(c)'
      BY <1>4, <1>5, <2>1, <2>3, <2>4, <2>6 DEF StillThere
    <2> QED
      BY <1>6, <1>7, <2>1, <2>7, <2>8, <2>9 DEF AInv, OwnInv
  <1> QED
    BY <1>9, <1>10

\* acq_set_trig and the like change neither clients nor parameters.
LEMMA ControlKeeps ==
    ASSUME AInv, NEW c \in Clients, Control(c)
    PROVE  AInv'
  <1> DEFINE v == [cl[c] EXCEPT !.ops = cl[c].ops + 1]
  <1>1. /\ ClientTypes /\ OneReader /\ OwnInv(c) /\ cl[c] \in Client
        /\ CoreTypes /\ TriggerMatches
    BY DEF AInv, OwnInv, ClientTypes
  <1>2. cl' = [cl EXCEPT ![c] = v] /\ hist' = hist /\ cl[c].pc = "idle"
    BY <1>1 DEF Control, CanCall, ClientTypes
  <1>3. CoreTypes' /\ TriggerMatches' /\ SameSamples /\ block' = block
    <2>1. (\E t \in Triggers : CfgTrigger(t)) \/ SwTrig \/ FsmStop
      BY ClientAssumption DEF Control
    <2> QED
      BY <1>1, <2>1, ControlCore
  <1>4. /\ v \in Client /\ v.pc = "idle" /\ v.req = cl[c].req /\ v.result = cl[c].result
    BY <1>1, <1>2 DEF Client
  <1> HIDE DEF v
  <1>5. /\ cl' \in [Clients -> Client] /\ cl'[c] = v
        /\ \A d \in Clients \ {c} : cl'[d] = cl[d]
    BY <1>1, <1>2, <1>4, OneEntry DEF ClientTypes
  <1>6. ClientTypes' /\ OneReader'
    BY <1>1, <1>2, <1>3, <1>4, <1>5, NoNewReader DEF ClientTypes
  <1>7. \A d \in Clients \ {c} : KeptClient(d)
    BY <1>2, <1>5 DEF KeptClient
  <1>8. StillThere(c)'
    BY <1>1, <1>2, <1>3, <1>4, <1>5, OwnStill DEF OwnInv
  <1>9. CallInv(c)'
    BY <1>4, <1>5 DEF CallInv
  <1>10. RefusedWhenFull(c)'
    <2>1. (Undisturbed(c)' <=> Undisturbed(c)) /\ (Sound(c)' <=> Sound(c))
      BY <1>2, <1>4, <1>5 DEF Undisturbed, Sound
    <2> QED
      BY <1>1, <1>2, <1>4, <1>5, <2>1 DEF OwnInv, RefusedWhenFull
  <1> QED
    BY <1>3, <1>6, <1>7, <1>8, <1>9, <1>10, StepOf DEF OwnInv

\* A step of the core alone, or none at all.
LEMMA NoClientKeeps ==
    ASSUME AInv, CoreTypes', TriggerMatches', SameSamples, UNCHANGED <<block, cl, hist>>
    PROVE  AInv'
  <1>1. ClientTypes' /\ OneReader'
    BY DEF AInv, ClientTypes, OneReader
  <1>2. \A d \in Clients : OwnInv(d)'
    <2>1. \A d \in Clients : KeptClient(d) /\ OwnInv(d)
      BY DEF AInv, OwnInv, KeptClient
    <2> QED
      BY <2>1, KeptInv
  <1> QED
    BY <1>1, <1>2 DEF AInv, OwnInv

\* A block begins at some address, at some sample of a shot.
LEMMA BlockBegins ==
    ASSUME CoreTypes, NEW c \in Chans, NEW b \in Nat, ShotSamples(params[c]) # 0
    PROVE  /\ BlockAddr(c, b) \in Int
           /\ (b * (BlockSize \div SampleSize[c])) % ShotSamples(params[c]) \in Int
  <1> DEFINE p == params[c]
             s == SampleSize[c]
             n == BlockSize \div s
             k == ShotSamples(p)
             A == ShotAligned(p)
  <1>1. p \in Param /\ s \in Nat /\ n \in Nat /\ StartAddr[c] \in Nat /\ EndMem(c) \in Int
    BY ChannelFacts DEF CoreTypes
  <1>2. /\ p.pre \in Nat /\ p.preAligned \in Nat /\ p.shots \in Nat /\ p.trig \in Nat
        /\ k \in Nat \ {0} /\ A \in Nat
    BY <1>1 DEF Param, ShotSamples, ShotAligned
  <1> HIDE DEF p, s, n, k, A
  <1> DEFINE sample == b * n
  <1>3. sample \in Nat
    BY <1>1
  <1> HIDE DEF sample
  <1> DEFINE shot == sample \div k
  <1>4. shot \in Int /\ sample % k \in Int
    BY <1>2, <1>3, DivMod
  <1> HIDE DEF shot
  <1> DEFINE conv == shot * A + (p.preAligned - p.pre) + (sample - shot * k)
  <1>5. conv \in Int
    BY <1>2, <1>3, <1>4
  <1> HIDE DEF conv
  <1>6. conv * s \in Int
    BY <1>1, <1>5
  <1> DEFINE shots == A * (p.shots - 1)
  <1>7. shots \in Int
    BY <1>2
  <1> HIDE DEF shots
  <1>8. p.trig + shots * s \in Int /\ (shots + p.preAligned) * s \in Int
    BY <1>1, <1>2, <1>7
  <1>9. \A x, y \in Int : StartAddress(x, y, StartAddr[c], EndMem(c)) \in Int
    BY <1>1 DEF StartAddress
  <1>10. AcqStart(c) \in Int
    <2>1. AcqStart(c) = StartAddress(p.trig + shots * s, (shots + p.preAligned) * s,
                                     StartAddr[c], EndMem(c))
      BY DEF AcqStart, shots, p, s, A
    <2> QED
      BY <1>8, <1>9, <2>1
  <1>11. \A x, y \in Int : ReadBlockAddrStart(x, y, StartAddr[c], EndMem(c)) \in Int
    BY <1>1 DEF ReadBlockAddrStart
  <1>12. BlockAddr(c, b) = ReadBlockAddrStart(AcqStart(c), conv * s, StartAddr[c], EndMem(c))
    BY DEF BlockAddr, conv, sample, shot, p, s, n, k, A
  <1> QED
    BY <1>4, <1>6, <1>10, <1>11, <1>12 DEF sample, p, s, n, k

\* No client waits while the SMIO reads no block.
LEMMA NobodyWaits ==
    ASSUME OneReader, block.pc = "idle"
    PROVE  \A d \in Clients : cl[d].pc # "wait"
  BY DEF OneReader

\* An answer that is an error ends the call.
LEMMA ErrorReply ==
    ASSUME ClientTypes, NEW c \in Clients, NEW code, code # ACQ_OK
    PROVE  LET v == BlockReply(c, code, <<>>) IN
           /\ v \in Client /\ v.pc = "idle" /\ v.result = "error" /\ v.req = cl[c].req
  <1>1. cl[c] \in Client
    BY DEF ClientTypes
  <1>2. BlockReply(c, code, <<>>) = [cl[c] EXCEPT !.pc = "idle", !.result = "error"]
    BY DEF BlockReply
  <1> QED
    BY <1>1, <1>2 DEF Client

\* get_data_block: the SMIO refuses the block, or begins to read it.
LEMMA AskBlockKeeps ==
    ASSUME AInv, NEW c \in Clients, AskBlock(c)
    PROVE  AInv'
  <1> DEFINE r == cl[c].req
             b == cl[c].blk
             v == IF BlockCode(r.chan, b) # ACQ_OK THEN BlockReply(c, ACQ_OOR, <<>>)
                  ELSE [cl[c] EXCEPT !.pc = "wait"]
  <1>1. /\ cl[c].pc = "curve" /\ block.pc = "idle" /\ GetDataBlock(r.chan, b)
        /\ UNCHANGED <<params, curr, fpga, mem, nacq, hist>>
        /\ cl' = [cl EXCEPT ![c] = v]
    BY DEF AskBlock, GetDataBlock
  <1>2. /\ ClientTypes /\ OneReader /\ OwnInv(c) /\ cl[c] \in Client /\ CoreTypes
        /\ CoreTypes' /\ TriggerMatches' /\ SameSamples
    BY <1>1, CoreKept DEF AInv, OwnInv, ClientTypes
  <1>3. r \in Reqs /\ b \in Nat /\ r.chan \in Chans /\ b <= Total(r) \div PerBlock(r)
    BY <1>1, <1>2 DEF Client, OwnInv, CallInv
  <1>4. /\ v \in Client /\ v.req = r
        /\ BlockCode(r.chan, b) # ACQ_OK => v.pc = "idle" /\ v.result = "error"
        /\ BlockCode(r.chan, b) = ACQ_OK => v.pc = "wait" /\ v.result = "none" /\ v.blk = b
    <2>1. CASE BlockCode(r.chan, b) # ACQ_OK
      <3>1. ACQ_OOR # ACQ_OK
        BY DEF ACQ_OOR, ACQ_OK
      <3> QED
        BY <1>2, <2>1, <3>1, ErrorReply
    <2>2. CASE BlockCode(r.chan, b) = ACQ_OK
      <3>1. cl[c].result = "none"
        BY <1>1, <1>2 DEF OwnInv, CallInv
      <3> QED
        BY <1>2, <2>2, <3>1 DEF Client
    <2> QED
      BY <2>1, <2>2
  <1> HIDE DEF v
  <1>5. /\ cl' \in [Clients -> Client] /\ cl'[c] = v
        /\ \A d \in Clients \ {c} : cl'[d] = cl[d]
    BY <1>1, <1>2, <1>4, OneEntry DEF ClientTypes
  <1>6. NoBlock \in Block /\ NoBlock.pc = "idle"
    <2>1. <<>> \in Seq(Unit)
      OBVIOUS
    <2> QED
      BY <2>1 DEF NoBlock, Block
  <1>7. /\ block' \in Block /\ (block'.pc = "read" => block'.chan \in Chans)
        /\ BlockCode(r.chan, b) = ACQ_OK => block'.pc # "idle"
    <2>1. CASE BlockCode(r.chan, b) # ACQ_OK
      <3>1. block' = NoBlock
        BY <1>1, <2>1 DEF GetDataBlock
      <3> QED
        BY <1>6, <2>1, <3>1
    <2>2. CASE BlockCode(r.chan, b) = ACQ_OK /\ ShotSamples(params[r.chan]) = 0
      <3>1. block' = [NoBlock EXCEPT !.pc = "dead"]
        BY <1>1, <2>2 DEF GetDataBlock
      <3> QED
        BY <1>6, <3>1 DEF Block
    <2>3. CASE BlockCode(r.chan, b) = ACQ_OK /\ ShotSamples(params[r.chan]) # 0
      <3> DEFINE off == (b * (BlockSize \div SampleSize[r.chan])) % ShotSamples(params[r.chan])
      <3>1. block' = [pc |-> "read", chan |-> r.chan, n |-> b, addr |-> BlockAddr(r.chan, b),
                      off |-> off, data |-> <<>>]
        BY <1>1, <2>3 DEF GetDataBlock
      <3>2. BlockAddr(r.chan, b) \in Int /\ off \in Int /\ <<>> \in Seq(Unit)
        BY <1>2, <1>3, <2>3, BlockBegins
      <3> HIDE DEF off
      <3> QED
        BY <1>3, <3>1, <3>2 DEF Block
    <2> QED
      BY <2>1, <2>2, <2>3
  <1>8. ClientTypes'
    BY <1>1, <1>2, <1>5, <1>7 DEF ClientTypes
  <1>9. OneReader'
    <2>1. \A d \in Clients : cl[d].pc # "wait"
      BY <1>1, <1>2, NobodyWaits
    <2>2. \A d \in Clients : cl'[d].pc = "wait" => d = c
      BY <1>5, <2>1
    <2>3. cl'[c].pc = "wait" => block'.pc # "idle"
      BY <1>4, <1>5, <1>7
    <2> QED
      BY <2>2, <2>3 DEF OneReader
  <1>10. \A d \in Clients \ {c} : KeptClient(d)
    BY <1>1, <1>5 DEF KeptClient
  <1>11. StillThere(c)'
    BY <1>1, <1>2, <1>4, <1>5, OwnStill DEF OwnInv
  <1>12. CallInv(c)'
    BY <1>3, <1>4, <1>5 DEF CallInv
  <1>13. RefusedWhenFull(c)'
    <2>1. CASE BlockCode(r.chan, b) = ACQ_OK
      BY <1>4, <1>5, <2>1 DEF RefusedWhenFull
    <2>2. ASSUME BlockCode(r.chan, b) # ACQ_OK, Undisturbed(c), Sound(c)
          PROVE  Total(r) % PerBlock(r) = 0
      <3>1. /\ params[r.chan].pre = r.pre /\ params[r.chan].post = r.post
            /\ params[r.chan].shots = r.shots
            /\ Total(r) * SampleSize[r.chan] <= hist[c].units
        BY <1>2, <2>2 DEF OwnInv, StillThere, Undisturbed
      <3>2. hist[c].units <= Ring(r.chan)
        BY <2>2 DEF Sound
      <3>3. Total(r) * SampleSize[r.chan] <= Ring(r.chan)
        <4>1. /\ Total(r) * SampleSize[r.chan] \in Nat /\ hist[c].units \in Nat
              /\ Ring(r.chan) \in Nat
          BY <1>2, <1>3, CurveBegins, ChannelFacts DEF ClientTypes, Hist
        <4> QED
          BY <3>1, <3>2, <4>1
      <3> QED
        BY <1>3, <2>2, <3>1, <3>3, BlockRefused
    <2>3. (Undisturbed(c)' <=> Undisturbed(c)) /\ (Sound(c)' <=> Sound(c))
      BY <1>1, <1>4, <1>5 DEF Undisturbed, Sound
    <2> QED
      BY <1>4, <1>5, <2>1, <2>2, <2>3 DEF RefusedWhenFull
  <1> QED
    BY <1>2, <1>8, <1>9, <1>10, <1>11, <1>12, <1>13, StepOf DEF OwnInv

\* A block copied by _acq_get_data_block ends the curve, or there is another one.
LEMMA BlockCopied ==
    ASSUME ClientTypes, NEW c \in Clients, CallInv(c), cl[c].pc = "wait", NEW data \in Seq(Unit)
    PROVE  LET v == BlockReply(c, ACQ_OK, data)
               r == cl[c].req
           IN  /\ v \in Client /\ v.req = r
               /\ v.pc = "idle" \/ (v.pc = "curve" /\ v.result = "none")
               /\ v.result # "error"
               /\ v.pc = "curve" => r.chan \in Chans /\ v.blk <= Total(r) \div PerBlock(r)
  <1> DEFINE r == cl[c].req
             n == IF Len(data) > cl[c].room THEN cl[c].room ELSE Len(data)
             last == cl[c].blk = Total(r) \div PerBlock(r)
             copy == cl[c].curve \o SubSeq(data, 1, n)
             room == cl[c].room - n
             blk == cl[c].blk + 1
             pc == IF last THEN "idle" ELSE "curve"
             res == IF last THEN "success" ELSE cl[c].result
             v == BlockReply(c, ACQ_OK, data)
  <1>1. /\ cl[c] \in Client /\ cl[c].result = "none"
        /\ r.chan \in Chans /\ cl[c].blk <= Total(r) \div PerBlock(r)
    BY DEF ClientTypes, CallInv
  <1>2. cl[c].room \in Nat /\ cl[c].blk \in Nat /\ cl[c].curve \in Seq(Unit) /\ r \in Reqs
    BY <1>1 DEF Client
  <1>3. Total(r) \div PerBlock(r) \in Nat
    BY <1>1, <1>2, CurveBegins
  <1>4. Len(data) \in Nat /\ n \in 0..Len(data) /\ n <= cl[c].room
    BY <1>2
  <1>5. v = [cl[c] EXCEPT !.curve = copy, !.room = room, !.blk = blk, !.pc = pc, !.result = res]
    BY <1>1 DEF BlockReply, Client
  <1> HIDE DEF n
  <1>6. copy \in Seq(Unit)
    <2>1. SubSeq(data, 1, n) \in Seq(Unit)
      BY <1>4
    <2> QED
      BY <1>2, <2>1
  <1>7. room \in Nat /\ blk \in Nat
    BY <1>2, <1>4
  <1>8. pc \in {"idle", "curve"} /\ res \in {"none", "success"}
        /\ (pc = "curve" => res = "none" /\ blk <= Total(r) \div PerBlock(r))
    BY <1>1, <1>2, <1>3
  <1> HIDE DEF copy, room, blk, pc, res, v
  <1>9. v \in Client
    <2> DEFINE g == [cl[c] EXCEPT !.curve = copy, !.room = room]
    <2>1. g \in Client
      BY <1>1, <1>6, <1>7 DEF Client
    <2>2. v = [g EXCEPT !.blk = blk, !.pc = pc, !.result = res]
      BY <1>5
    <2> HIDE DEF g
    <2> QED
      BY <1>7, <1>8, <2>1, <2>2 DEF Client
  <1>10. v.req = r /\ v.pc = pc /\ v.result = res /\ v.blk = blk
    BY <1>1, <1>5 DEF Client
  <1>11. /\ v.pc = "idle" \/ (v.pc = "curve" /\ v.result = "none")
         /\ v.result # "error"
    BY <1>8, <1>10
  <1>12. v.pc = "curve" => r.chan \in Chans /\ v.blk <= Total(r) \div PerBlock(r)
    BY <1>1, <1>8, <1>10
  <1> QED
    BY <1>9, <1>10, <1>11, <1>12 DEF v

\* The SMIO reads on, and answers when it has the block.
LEMMA ServeBlockKeeps ==
    ASSUME AInv, NEW c \in Clients, ServeBlock(c)
    PROVE  AInv'
  <1>1. /\ ClientTypes /\ OneReader /\ OwnInv(c) /\ cl[c] \in Client /\ CoreTypes
        /\ TriggerMatches /\ cl[c].pc = "wait" /\ hist' = hist
    BY DEF AInv, OwnInv, ClientTypes, ServeBlock
  <1>2. PICK at \in Ways :
          /\ ReadChunk(at)
          /\ cl' = IF BlockDone(at)
                   THEN [cl EXCEPT ![c] = BlockReply(c, ACQ_OK, BlockData(at))] ELSE cl
    BY DEF ServeBlock
  <1>3. UNCHANGED <<params, curr, fpga, mem, nacq>> /\ block.pc = "read"
    BY <1>2 DEF ReadChunk
  <1>4. CoreTypes' /\ TriggerMatches' /\ SameSamples
    BY <1>1, <1>3, CoreKept
  <1>5. BlockData(at) \in Seq(Unit)
    <2>1. ReadMem(at) \in Seq(Unit) /\ block.data \in Seq(Unit)
      BY <1>1, ChunkIsSeq DEF ClientTypes, Block
    <2> QED
      BY <2>1 DEF BlockData
  <1>6. CASE BlockDone(at)
    <2> DEFINE v == BlockReply(c, ACQ_OK, BlockData(at))
               r == cl[c].req
    <2>1. block' = NoBlock /\ cl' = [cl EXCEPT ![c] = v]
      BY <1>2, <1>6 DEF ReadChunk
    <2>2. /\ v \in Client /\ v.req = r
          /\ v.pc = "idle" \/ (v.pc = "curve" /\ v.result = "none")
          /\ v.result # "error"
          /\ v.pc = "curve" => r.chan \in Chans /\ v.blk <= Total(r) \div PerBlock(r)
      BY <1>1, <1>5, BlockCopied DEF OwnInv
    <2> HIDE DEF v
    <2>3. /\ cl' \in [Clients -> Client] /\ cl'[c] = v
          /\ \A d \in Clients \ {c} : cl'[d] = cl[d]
      BY <1>1, <2>1, <2>2, OneEntry DEF ClientTypes
    <2>4. NoBlock \in Block /\ NoBlock.pc = "idle"
      <3>1. <<>> \in Seq(Unit)
        OBVIOUS
      <3> QED
        BY <3>1 DEF NoBlock, Block
    <2>5. ClientTypes'
      BY <1>1, <2>1, <2>3, <2>4 DEF ClientTypes
    <2>6. \A d \in Clients : cl'[d].pc # "wait"
      BY <1>1, <2>2, <2>3 DEF OneReader
    <2>7. OneReader'
      BY <2>6 DEF OneReader
    <2>8. \A d \in Clients \ {c} : KeptClient(d)
      BY <1>1, <2>3 DEF KeptClient
    <2>9. StillThere(c)'
      BY <1>1, <1>4, <2>2, <2>3, OwnStill DEF OwnInv
    <2>10. CallInv(c)' /\ RefusedWhenFull(c)'
      BY <2>2, <2>3 DEF CallInv, RefusedWhenFull
    <2> QED
      BY <1>4, <2>5, <2>7, <2>8, <2>9, <2>10, StepOf DEF OwnInv
  <1>7. CASE ~BlockDone(at)
    <2> DEFINE data == BlockData(at)
               jump == IF params[block.chan].shots = 1 THEN 0
                       ELSE (ShotAligned(params[block.chan]) - ShotSamples(params[block.chan]))
                                * SampleSize[block.chan]
               addr == NextAddr(block.addr + ChunkSize + jump)
    <2>1. cl' = cl /\ block' = [block EXCEPT !.data = data, !.off = 0, !.addr = addr]
      BY <1>2, <1>7 DEF ReadChunk
    <2>2. block \in Block /\ block.chan \in Chans
      BY <1>1, <1>3 DEF ClientTypes
    <2>3. addr \in Int
      <3>1. ChunkSize \in Int
        BY <1>1, <1>3, ChunkIsInt
      <3>2. jump \in Int
        <4>1. /\ params[block.chan] \in Param /\ SampleSize[block.chan] \in Nat
          BY <1>1, <2>2, ChannelFacts DEF CoreTypes
        <4>2. ShotAligned(params[block.chan]) \in Nat /\ ShotSamples(params[block.chan]) \in Nat
          BY <4>1 DEF Param, ShotAligned, ShotSamples
        <4> QED
          BY <4>1, <4>2
      <3> HIDE DEF jump
      <3>3. block.addr + ChunkSize + jump \in Int
        BY <2>2, <3>1, <3>2 DEF Block
      <3>4. StartAddr[block.chan] \in Int /\ EndMem(block.chan) \in Int
        BY <2>2, ChannelFacts
      <3> QED
        BY <3>3, <3>4 DEF NextAddr
    <2> HIDE DEF addr, data
    <2>4. block' \in Block /\ block'.pc = "read" /\ block'.chan = block.chan
      <3>1. data \in Seq(Unit)
        BY <1>5 DEF data
      <3> DEFINE zero == 0
                 g == [block EXCEPT !.data = data]
                 h == [g EXCEPT !.off = zero]
                 v == [h EXCEPT !.addr = addr]
      <3>2. zero \in Int
        OBVIOUS
      <3>3. block' = v
        BY <2>1
      <3> HIDE DEF zero
      <3>4. g \in Block /\ g.pc = block.pc /\ g.chan = block.chan
        BY <2>2, <3>1 DEF Block
      <3> HIDE DEF g
      <3>5. h \in Block /\ h.pc = block.pc /\ h.chan = block.chan
        BY <3>2, <3>4 DEF Block
      <3> HIDE DEF h
      <3>6. v \in Block /\ v.pc = block.pc /\ v.chan = block.chan
        BY <2>3, <3>5 DEF Block
      <3> HIDE DEF v
      <3> QED
        BY <1>3, <3>3, <3>6
    <2>5. ClientTypes' /\ OneReader'
      BY <1>1, <2>1, <2>2, <2>4 DEF ClientTypes, OneReader
    <2>6. \A d \in Clients : KeptClient(d)
      BY <1>1, <2>1 DEF KeptClient
    <2>7. OwnInv(c)'
      BY <1>1, <1>4, <2>6, KeptInv
    <2> QED
      BY <1>4, <2>5, <2>6, <2>7, StepOf
  <1> QED
    BY <1>6, <1>7

\* A read that fails ends the call.
LEMMA ServeBlockFailsKeeps ==
    ASSUME AInv, NEW c \in Clients, ServeBlockFails(c)
    PROVE  AInv'
  <1> DEFINE v == BlockReply(c, ACQ_COULD_NOT_READ, <<>>)
             w == [hist[c] EXCEPT !.failed = TRUE]
  <1>1. /\ ClientTypes /\ OneReader /\ OwnInv(c) /\ cl[c] \in Client /\ hist[c] \in Hist
        /\ CoreTypes /\ TriggerMatches
    BY DEF AInv, OwnInv, ClientTypes
  <1>2. /\ UNCHANGED <<params, curr, fpga, mem, nacq>> /\ block' = NoBlock
        /\ cl[c].pc = "wait" /\ cl' = [cl EXCEPT ![c] = v]
    BY DEF ServeBlockFails, ReadFails
  <1>3. hist' = [hist EXCEPT ![c] = w]
    BY <1>1 DEF ServeBlockFails, ClientTypes
  <1>4. CoreTypes' /\ TriggerMatches' /\ SameSamples
    BY <1>1, <1>2, CoreKept
  <1>5. v \in Client /\ v.pc = "idle" /\ v.result = "error" /\ v.req = cl[c].req
    <2>1. ACQ_COULD_NOT_READ # ACQ_OK
      BY DEF ACQ_COULD_NOT_READ, ACQ_OK
    <2> QED
      BY <1>1, <2>1, ErrorReply
  <1>6. /\ w \in Hist /\ w.id = hist[c].id /\ w.units = hist[c].units
        /\ w.disturbed = hist[c].disturbed /\ w.failed = TRUE
    BY <1>1 DEF Hist
  <1> HIDE DEF v, w
  <1>7. /\ cl' \in [Clients -> Client] /\ cl'[c] = v
        /\ \A d \in Clients \ {c} : cl'[d] = cl[d]
    BY <1>1, <1>2, <1>5, OneEntry DEF ClientTypes
  <1>8. /\ hist' \in [Clients -> Hist] /\ hist'[c] = w
        /\ \A d \in Clients \ {c} : hist'[d] = hist[d]
    BY <1>1, <1>3, <1>6 DEF ClientTypes
  <1>9. NoBlock \in Block /\ NoBlock.pc = "idle"
    <2>1. <<>> \in Seq(Unit)
      OBVIOUS
    <2> QED
      BY <2>1 DEF NoBlock, Block
  <1>10. ClientTypes'
    BY <1>2, <1>7, <1>8, <1>9 DEF ClientTypes
  <1>11. OneReader'
    <2>1. \A d \in Clients : cl'[d].pc # "wait"
      BY <1>1, <1>2, <1>5, <1>7 DEF OneReader
    <2> QED
      BY <2>1 DEF OneReader
  <1>12. \A d \in Clients \ {c} : KeptClient(d)
    BY <1>7, <1>8 DEF KeptClient
  <1>13. StillThere(c)'
    BY <1>1, <1>4, <1>5, <1>6, <1>7, <1>8, OwnStill DEF OwnInv
  <1>14. CallInv(c)' /\ RefusedWhenFull(c)'
    BY <1>5, <1>6, <1>7, <1>8 DEF CallInv, RefusedWhenFull
  <1> QED
    BY <1>4, <1>10, <1>11, <1>12, <1>13, <1>14, StepOf DEF OwnInv

\* The SMIO, the core and the clients start at rest.
LEMMA InitAInv == ClientInit => AInv
  <1> SUFFICES ASSUME ClientInit PROVE AInv
    OBVIOUS
  <1> USE DEF ClientInit
  <1>1. params \in [Chans -> Param]
    <2>1. \A c \in Chans : NewParams(c) \in Param
      BY ChannelFacts DEF NewParams, Param
    <2> QED
      BY <2>1 DEF AcqInit
  <1>2. curr \in Chans /\ nacq = 0 /\ nacq \in 0..MaxAcq
    BY AcqAssumption DEF AcqInit
  <1>3. fpga \in Core /\ fpga.id = 0 /\ fpga.state = "idle"
    BY <1>2 DEF AcqInit, Core
  <1>4. \A a \in DOMAIN mem : mem[a] \in Unit
    <2>1. <<0, 0>> \in Unit
      BY DEF Unit
    <2> QED
      BY <2>1 DEF AcqInit
  <1>5. CoreTypes /\ TriggerMatches
    BY <1>1, <1>2, <1>3, <1>4 DEF CoreTypes, TriggerMatches
  <1>6. /\ block \in Block /\ block.pc = "idle"
    <2>1. <<>> \in Seq(Unit)
      OBVIOUS
    <2> QED
      BY <2>1 DEF AcqInit, NoBlock, Block
  <1>7. /\ NewClient \in Client /\ NewClient.pc = "idle" /\ NewClient.result = "none"
    <2>1. <<>> \in Seq(Unit)
      OBVIOUS
    <2> QED
      BY <2>1 DEF NewClient, Client, Reqs
  <1>8. NoHist \in Hist /\ NoHist.id = 0
    BY DEF NoHist, Hist
  <1>9. ClientTypes /\ OneReader
    BY <1>6, <1>7, <1>8 DEF ClientTypes, OneReader
  <1>10. \A c \in Clients : CallInv(c) /\ StillThere(c) /\ RefusedWhenFull(c)
    BY <1>7, <1>8 DEF CallInv, StillThere, RefusedWhenFull
  <1> QED
    BY <1>5, <1>9, <1>10 DEF AInv

\* Every step of a client, the SMIO or the core preserves the invariant.
LEMMA NextAInv ==
    ASSUME AInv, [ClientNext]_allVars
    PROVE  AInv'
  <1>1. ASSUME NEW c \in Clients, NEW r \in Requests[c], AcqFull(c, r) PROVE AInv'
    BY <1>1, AcqFullKeeps
  <1>2. ASSUME NEW c \in Clients, AcqGetCurve(c) \/ Control(c) PROVE AInv'
    BY <1>2, AcqGetCurveKeeps, ControlKeeps
  <1>3. ASSUME NEW c \in Clients, Steps(c) PROVE AInv'
    BY <1>3, PollKeeps, PollTimeoutKeeps, AskBlockKeeps, ServeBlockKeeps,
       ServeBlockFailsKeeps DEF Steps
  <1>4. CASE Fpga
    <2>1. (FpgaComplete \/ FpgaFull) /\ UNCHANGED <<cl, hist>> /\ CoreTypes /\ TriggerMatches
      BY <1>4 DEF Fpga, clVars, AInv
    <2> QED
      BY <2>1, FpgaCore, NoClientKeeps
  <1>5. CASE UNCHANGED allVars
    <2>1. UNCHANGED <<params, curr, block, fpga, mem, nacq, cl, hist>>
      BY <1>5 DEF allVars, acqVars, clVars
    <2>2. CoreTypes' /\ TriggerMatches' /\ SameSamples
      BY <2>1, CoreKept DEF AInv
    <2> QED
      BY <2>1, <2>2, NoClientKeeps
  <1> QED
    BY <1>1, <1>2, <1>3, <1>4, <1>5 DEF ClientNext

-----------------------------------------------------------------------------
(* Paging: what a read over PCIe returns. *)

\* Every set of natural numbers that is not empty has a smallest element.
LEMMA Smallest ==
    ASSUME NEW T, T \subseteq Nat, T # {}
    PROVE  \E x \in T : \A y \in T : x <= y
  <1> DEFINE R == OpToRel(<, Nat)
  <1>1. IsWellFoundedOn(R, Nat)
    BY NatLessThanWellFounded
  <1>2. \A x, y \in Nat : y < x => <<y, x>> \in R
    BY DEF OpToRel
  <1> HIDE DEF R
  <1>3. PICK x \in T : \A y \in T : ~(<<y, x>> \in R)
    BY <1>1, WFMin
  <1>4. \A y \in T : ~(y < x)
    BY <1>2, <1>3
  <1>5. \A y \in T : x <= y
    BY <1>4
  <1> QED
    BY <1>5

\* The recursive function of Transferred, unfolded once.
TransferredStep(addr, size, done) ==
    [n \in 0..(LastPage(addr, size) + 1) |->
        IF n = 0 THEN 0
        ELSE LET d == done[n - 1] IN d + PageUnits(PageOffset(addr, n - 1), size - d)]

\* What has been transferred before page n: up to the end of the page before.
UpToPage(addr, size) ==
    [n \in 0..(LastPage(addr, size) + 1) |->
        IF n = 0 THEN 0
        ELSE IF n * PageSize - Offset(addr) > size THEN size ELSE n * PageSize - Offset(addr)]

\* Pages of an address.
LEMMA PageFacts ==
    ASSUME NEW addr \in Nat, NEW size \in Nat
    PROVE  /\ PageSize \in Nat \ {0} /\ Offset(addr) \in 0..(PageSize - 1)
           /\ Page(addr) \in Nat /\ addr = Page(addr) * PageSize + Offset(addr)
           /\ LastPage(addr, size) \in Nat
           /\ Offset(addr) + size < (LastPage(addr, size) + 1) * PageSize
           /\ LastPage(addr, size) * PageSize <= Offset(addr) + size
  <1>1. PageSize \in Nat \ {0}
    BY PagingAssumption
  <1>2. /\ Offset(addr) \in 0..(PageSize - 1) /\ Page(addr) \in Int
        /\ addr = PageSize * Page(addr) + Offset(addr)
    BY <1>1, DivMod DEF Page, Offset
  <1> DEFINE x == Offset(addr) + size
             q == x \div PageSize
  <1>3. x \in Nat
    BY <1>2
  <1>4. q \in Int /\ x % PageSize \in 0..(PageSize - 1) /\ x = PageSize * q + (x % PageSize)
    <2> HIDE DEF x
    <2> QED
      BY <1>1, <1>3, DivMod
  <1>5. LastPage(addr, size) = q
    BY DEF LastPage
  <1>6. Page(addr) \in Nat
    BY <1>1, <1>2, DivBound DEF Page
  <1>7. q \in Nat
    <2>1. 0 * PageSize <= x
      BY <1>1, <1>3
    <2> HIDE DEF x
    <2> QED
      BY <1>1, <1>3, <1>4, <2>1, DivBound
  <1>8. PageSize * q = q * PageSize /\ (q + 1) * PageSize = PageSize * q + PageSize
    <2> HIDE DEF q
    <2> QED
      BY <1>1, <1>4
  <1> HIDE DEF q
  <1>9. PageSize * Page(addr) = Page(addr) * PageSize
    BY <1>1, <1>2
  <1> QED
    BY <1>1, <1>2, <1>3, <1>4, <1>5, <1>6, <1>7, <1>8, <1>9

\* The closed form satisfies the recursion.
LEMMA ClosedForm ==
    ASSUME NEW addr \in Nat, NEW size \in Nat
    PROVE  LET g == UpToPage(addr, size) IN g = TransferredStep(addr, size, g)
  <1> DEFINE g == UpToPage(addr, size)
             L == LastPage(addr, size)
             o == Offset(addr)
             P == PageSize
  <1>1. P \in Nat \ {0} /\ o \in 0..(P - 1) /\ L \in Nat
    BY PageFacts
  <1>2. ASSUME NEW n \in 0..(L + 1)
        PROVE  g[n] = IF n = 0 THEN 0
                      ELSE LET d == g[n - 1] IN d + PageUnits(PageOffset(addr, n - 1), size - d)
    <2>1. CASE n = 0
      BY <2>1 DEF UpToPage
    <2>2. CASE n = 1
      <3>1. g[1] = (IF 1 * P - o > size THEN size ELSE 1 * P - o) /\ g[0] = 0
        BY <1>1, <2>2 DEF UpToPage
      <3>2. PageOffset(addr, 0) = o
        BY DEF PageOffset
      <3> HIDE DEF g, o, P
      <3> QED
        BY <1>1, <2>2, <3>1, <3>2 DEF PageUnits, P
    <2>3. CASE n > 1
      <3>1. /\ g[n] = (IF n * P - o > size THEN size ELSE n * P - o)
            /\ g[n - 1] = (IF (n - 1) * P - o > size THEN size ELSE (n - 1) * P - o)
        BY <1>1, <2>3 DEF UpToPage
      <3>2. PageOffset(addr, n - 1) = 0
        BY <1>1, <2>3 DEF PageOffset
      <3>3. n * P \in Nat /\ (n - 1) * P = n * P - P
        BY <1>1, <2>3
      <3> HIDE DEF g, o, P
      <3>4. PageUnits(0, size - g[n - 1]) = IF size - g[n - 1] > P THEN P ELSE size - g[n - 1]
        BY <1>1, <3>1, <3>3 DEF PageUnits, P
      <3> QED
        BY <1>1, <2>3, <3>1, <3>2, <3>3, <3>4
    <2> QED
      BY <1>1, <2>1, <2>2, <2>3
  <1>3. TransferredStep(addr, size, g) = [n \in 0..(L + 1) |-> g[n]]
    <2> HIDE DEF g
    <2> QED
      BY <1>2 DEF TransferredStep
  <1>4. g = [n \in 0..(L + 1) |-> g[n]]
    BY DEF UpToPage
  <1> QED
    BY <1>3, <1>4

\* No other function satisfies it.
LEMMA OneSolution ==
    ASSUME NEW addr \in Nat, NEW size \in Nat, NEW f, NEW g,
           f = TransferredStep(addr, size, f), g = TransferredStep(addr, size, g)
    PROVE  f = g
  <1> DEFINE S == 0..(LastPage(addr, size) + 1)
             T == {n \in S : f[n] # g[n]}
  <1>1. LastPage(addr, size) \in Nat
    BY PageFacts
  <1>2. T = {}
    <2> SUFFICES ASSUME T # {} PROVE FALSE
      OBVIOUS
    <2>1. T \subseteq Nat
      BY <1>1
    <2>2. PICK n \in T : \A y \in T : n <= y
      <3> HIDE DEF T
      <3> QED
        BY <2>1, Smallest
    <2>3. n \in S /\ f[n] # g[n]
      BY <2>2
    <2>4. CASE n = 0
      BY <2>3, <2>4 DEF TransferredStep
    <2>5. CASE n # 0
      <3>1. n - 1 \in S /\ n - 1 < n
        BY <1>1, <2>3, <2>5
      <3>2. f[n - 1] = g[n - 1]
        BY <1>1, <2>2, <2>3, <3>1
      <3> QED
        BY <2>3, <2>5, <3>2 DEF TransferredStep
    <2> QED
      BY <2>4, <2>5
  <1>3. \A n \in S : f[n] = g[n]
    BY <1>2
  <1>4. f = [n \in S |-> f[n]] /\ g = [n \in S |-> g[n]]
    BY DEF TransferredStep
  <1> QED
    BY <1>3, <1>4

\* What has been transferred before each page.
LEMMA TransferredIs ==
    ASSUME NEW addr \in Nat, NEW size \in Nat
    PROVE  Transferred(addr, size) = UpToPage(addr, size)
  <1> DEFINE g == UpToPage(addr, size)
             t == Transferred(addr, size)
  <1>1. g = TransferredStep(addr, size, g)
    BY ClosedForm
  <1>2. t = TransferredStep(addr, size, t)
    <2> HIDE DEF g
    <2> QED
      BY <1>1, Zenon DEF Transferred, TransferredStep
  <1> HIDE DEF g, t
  <1>3. t = g
    BY <1>1, <1>2, OneSolution
  <1> QED
    BY <1>3 DEF g, t

\* _pcie_rw_bar2_block_raw transfers the block that was asked for: page by page, the units come from
\* consecutive addresses, whatever the page size and wherever the block begins and ends.
THEOREM PagesInOrder ==
    ASSUME NEW addr \in Nat, NEW size \in Nat
    PROVE  Bar2Block(addr, size) = [k \in 1..size |-> addr + k - 1]
  <1> DEFINE done == Transferred(addr, size)
             L == LastPage(addr, size)
             o == Offset(addr)
             P == PageSize
             in(k, n) == done[n] < k /\ k <= done[n + 1]
             page(k) == CHOOSE n \in 0..L : in(k, n)
             at(k, n) == (Page(addr) + n) * P + PageOffset(addr, n) + (k - 1 - done[n])
  <1>1. /\ P \in Nat \ {0} /\ o \in 0..(P - 1) /\ L \in Nat /\ Page(addr) \in Nat
        /\ addr = Page(addr) * P + o /\ o + size < (L + 1) * P
    BY PageFacts
  <1>6. P \in Nat \ {0} /\ o \in 0..(P - 1) /\ L \in Nat
    BY <1>1
  <1>2. \A n \in 0..(L + 1) :
           done[n] = IF n = 0 THEN 0 ELSE IF n * P - o > size THEN size ELSE n * P - o
    <2>1. done = UpToPage(addr, size)
      BY TransferredIs
    <2> HIDE DEF done
    <2> QED
      BY <2>1 DEF UpToPage
  <1>3. Bar2Block(addr, size) = [k \in 1..size |-> at(k, page(k))]
    BY DEF Bar2Block
  <1> HIDE DEF done, L, o, P
  <1>4. ASSUME NEW k \in 1..size
        PROVE  \E n \in 0..L : in(k, n)
    <2> DEFINE x == o + k - 1
               n == x \div P
    <2>1. x \in Nat
      BY <1>1
    <2>2. n \in Int /\ x % P \in 0..(P - 1) /\ x = P * n + (x % P)
      <3> HIDE DEF x
      <3> QED
        BY <1>6, <2>1, DivMod
    <2>3. n \in Nat
      <3>1. 0 * P <= x
        BY <1>1, <2>1
      <3> HIDE DEF x
      <3> QED
        BY <1>6, <2>1, <2>2, <3>1, DivBound
    <2> HIDE DEF n
    <2>4. P * n = n * P /\ (n + 1) * P = n * P + P /\ n * P \in Nat
      BY <1>1, <2>3
    <2>5. n * P <= o + k - 1 /\ o + k - 1 < (n + 1) * P
      BY <1>1, <2>1, <2>2, <2>4
    <2>6. n <= L
      <3>1. ASSUME n >= L + 1 PROVE FALSE
        <4>1. n * P >= (L + 1) * P
          BY <1>1, <2>3, <3>1, TimesMono
        <4> QED
          BY <1>1, <2>1, <2>4, <2>5, <4>1
      <3> QED
        BY <1>1, <2>3, <3>1
    <2>7. n \in 0..L /\ n + 1 \in 0..(L + 1) /\ n \in 0..(L + 1)
      BY <1>1, <2>3, <2>6
    <2>8. k <= done[n + 1]
      <3>1. done[n + 1] = IF (n + 1) * P - o > size THEN size ELSE (n + 1) * P - o
        BY <1>2, <2>3, <2>7
      <3> QED
        BY <1>1, <2>4, <2>5, <3>1
    <2>9. done[n] < k
      <3>1. CASE n = 0
        BY <1>2, <2>7, <3>1
      <3>2. CASE n # 0
        <4>1. done[n] = IF n * P - o > size THEN size ELSE n * P - o
          BY <1>2, <2>7, <3>2
        <4> QED
          BY <1>1, <2>4, <2>5, <4>1
      <3> QED
        BY <3>1, <3>2
    <2> QED
      BY <2>7, <2>8, <2>9
  <1>5. ASSUME NEW k \in 1..size
        PROVE  at(k, page(k)) = addr + k - 1
    <2> DEFINE n == page(k)
    <2>1. n \in 0..L /\ in(k, n)
      BY <1>4
    <2> HIDE DEF n
    <2>2. at(k, n) = addr + k - 1
      <3>1. CASE n = 0
        <4>1. done[0] = 0 /\ PageOffset(addr, 0) = o
          BY <1>1, <1>2 DEF PageOffset, o
        <4> QED
          BY <1>1, <3>1, <4>1
      <3>2. CASE n # 0
        <4>1. done[n] = (IF n * P - o > size THEN size ELSE n * P - o) /\ PageOffset(addr, n) = 0
          BY <1>1, <1>2, <2>1, <3>2 DEF PageOffset
        <4>2. n * P \in Nat
          BY <1>1, <2>1
        <4>3. done[n] = n * P - o
          BY <1>1, <2>1, <4>1, <4>2
        <4>4. (Page(addr) + n) * P = Page(addr) * P + n * P
          BY <1>1, <2>1
        <4> DEFINE u == Page(addr) * P
                   w == n * P
        <4>5. u \in Nat /\ w \in Nat
          BY <1>1, <4>2
        <4>7. at(k, n) = (u + w) + 0 + (k - 1 - (w - o))
          BY <4>1, <4>3, <4>4
        <4>8. addr = u + o
          BY <1>1
        <4> HIDE DEF u, w, at
        <4> QED
          BY <1>6, <4>5, <4>7, <4>8
      <3> QED
        BY <3>1, <3>2
    <2> QED
      BY <2>2 DEF n
  <1> QED
    BY <1>3, <1>5

-----------------------------------------------------------------------------
(* Who owns what the memory, the SMIO and the clients hold. *)

\* The units of one shot, as the client reads them, and what the core stores before them.
ShotUnits(r) == (r.pre + r.post) * SampleSize[r.chan]
Lead(r) == IF r.pre = 0 THEN Payload
           ELSE (AlignValue(r.pre, Alignment(r.chan)) - r.pre) * SampleSize[r.chan]

\* Unit x of what a client asked for, among the units its acquisition stores.
Spot(x, shot, aligned, lead) == (x \div shot) * aligned + lead + (x % shot)
StoredAt(c, x) ==
    LET r == cl[c].req
    IN  Spot(x, ShotUnits(r), hist[c].units \div r.shots, Lead(r))

\* The last acquisition of client c was left alone; it fits the ring of its channel and
\* the core's counter of shots.
Live(c) == hist[c].id # 0 /\ ~hist[c].disturbed
Fits(c) == hist[c].units <= Ring(cl[c].req.chan) /\ cl[c].req.shots < ShotsMod

\* Where an acquisition with size units before its trigger address t begins, and an
\* address that went on over the end of the ring.
Origin(ch, t, size) == IF t - StartAddr[ch] >= size THEN t - size ELSE t - size + Ring(ch)
Wrapped(ch, a) == IF a < EndMem(ch) THEN a ELSE a - Ring(ch)

\* The channel still has the parameters that the client's request gave it.
Prepared(c) ==
    LET r == cl[c].req
        p == params[r.chan]
        s == SampleSize[r.chan]
    IN  /\ r.chan \in Chans /\ r.shots >= 1
        /\ p.pre = r.pre /\ p.post = r.post /\ p.shots = r.shots
        /\ p.preAligned > 0 /\ p.preAligned >= p.pre /\ p.postAligned >= p.post
        /\ (p.preAligned - p.pre) * s = Lead(r)
        /\ hist[c].units = (p.preAligned + p.postAligned) * r.shots * s

\* The ring has the whole acquisition of client c, around the trigger address t.
MemHolds(c, t) ==
    LET r == cl[c].req
        ch == r.chan
        size == params[ch].preAligned * SampleSize[ch]
        first == Origin(ch, t, size)
    IN  /\ t \in StartAddr[ch]..(EndMem(ch) - 1)
        /\ r.shots # 1 => t = StartAddr[ch] + size
        /\ \A j \in 0..(hist[c].units - 1) : mem[Wrapped(ch, first + j)] = <<hist[c].id, j>>

\* The core runs, or was the last to run, the acquisition of client c.
Current(c) ==
    LET r == cl[c].req
        p == params[r.chan]
    IN  /\ fpga.id = hist[c].id /\ curr = r.chan
        /\ fpga.pre = p.preAligned /\ fpga.post = p.postAligned /\ fpga.shots = r.shots % ShotsMod
        /\ fpga.done /\ Fits(c) => MemHolds(c, fpga.trigPos)

\* The SMIO has read the trigger address of c's acquisition; the core has it still, unless
\* it went on to a channel that uses other memory.
Known(c) ==
    LET r == cl[c].req
        p == params[r.chan]
    IN  /\ Fits(c) => MemHolds(c, p.trig)
        /\ \/ fpga.id = hist[c].id /\ curr = r.chan /\ fpga.done /\ fpga.trigPos = p.trig
           \/ ~SharesMemory(r.chan, curr)

\* What core and histories have in common whoever owns what.
Basic ==
    /\ fpga.chan = curr /\ (fpga.done => fpga.state = "idle") /\ DOMAIN mem = 0..(MemTop - 1)
    /\ \A c \in Clients : hist[c].id <= nacq /\ (hist[c].ready => hist[c].known)

\* What client c has copied of its curve is the beginning of its own acquisition.
CurveSoFar(c) ==
    LET r == cl[c].req IN
    cl[c].pc \in {"curve", "wait"} /\ Undisturbed(c) /\ Sound(c) =>
        /\ Len(cl[c].curve) = cl[c].blk * BlockSize
        /\ cl[c].room = Total(r) * SampleSize[r.chan] - cl[c].blk * BlockSize
        /\ \A i \in 1..Len(cl[c].curve) : cl[c].curve[i] = <<hist[c].id, StoredAt(c, i - 1)>>

\* So is what the SMIO has read of the block that c waits for, and it goes on reading at
\* the unit that follows.
BlockSoFar(c) ==
    LET r == cl[c].req
        b == cl[c].blk
        x == b * BlockSize + Len(block.data)
        ch == r.chan
    IN cl[c].pc = "wait" /\ block.pc = "read" =>
        /\ block.chan = ch /\ block.n = b /\ BlockCode(ch, b) = ACQ_OK /\ ShotSamples(params[ch]) # 0
        /\ Undisturbed(c) /\ Sound(c) =>
            /\ Len(block.data) < ReplySize(ch, b)
            /\ \A i \in 1..Len(block.data) :
                 block.data[i] = <<hist[c].id, StoredAt(c, b * BlockSize + i - 1)>>
            /\ StartAddr[ch] <= block.addr /\ block.addr <= EndMem(ch)
            /\ \/ block.addr = AcqStart(ch) + StoredAt(c, x)
               \/ block.addr = AcqStart(ch) + StoredAt(c, x) - Ring(ch)
            /\ r.shots # 1 => block.off = 0 /\ x % ShotUnits(r) = 0

-----------------------------------------------------------------------------
(* Where the units of a curve are stored. *)

\* Quotient and remainder are unique.
LEMMA DivUnique ==
    ASSUME NEW n \in Nat \ {0}, NEW q \in Int, NEW r \in 0..(n - 1), NEW x \in Int, x = n * q + r
    PROVE  x \div n = q /\ x % n = r
  <1> DEFINE p == x \div n
             t == x % n
  <1>1. p \in Int /\ t \in 0..(n - 1) /\ x = n * p + t
    BY DivMod
  <1> HIDE DEF p, t
  <1>2. n * (p - q) = r - t
    BY <1>1
  <1>3. p - q = 0
    <2>1. ASSUME p - q >= 1 PROVE FALSE
      <3>1. n * (p - q) >= n
        BY <1>1, <2>1
      <3> QED
        BY <1>1, <1>2, <3>1
    <2>2. ASSUME p - q <= -1 PROVE FALSE
      <3>1. n * (p - q) <= -n
        BY <1>1, <2>2
      <3> QED
        BY <1>1, <1>2, <3>1
    <2> QED
      BY <1>1, <2>1, <2>2
  <1> QED
    BY <1>1, <1>2, <1>3 DEF p, t

\* What is smaller than the divisor is its own remainder.
LEMMA DivSmall == \A n \in Nat \ {0} : \A x \in 0..(n - 1) : x \div n = 0 /\ x % n = x
  <1> SUFFICES ASSUME NEW n \in Nat \ {0}, NEW x \in 0..(n - 1) PROVE x \div n = 0 /\ x % n = x
    OBVIOUS
  <1>1. 0 \in Int /\ x \in Int /\ x = n * 0 + x
    OBVIOUS
  <1> QED
    BY <1>1, DivUnique

\* A part of a shot is stored within what is acquired.
LEMMA SpotBound ==
    ASSUME NEW k \in Nat \ {0}, NEW a \in Nat, NEW lead \in Nat, NEW n \in Nat \ {0},
           lead + k <= a, NEW x \in Nat, x < n * k
    PROVE  /\ Spot(x, k, a, lead) \in Nat /\ x % k \in 0..(k - 1)
           /\ Spot(x, k, a, lead) + (k - (x % k)) <= n * a
  <1> DEFINE q == x \div k
             t == x % k
  <1>1. q \in Int /\ t \in 0..(k - 1) /\ x = k * q + t
    BY DivMod
  <1>2. q \in Nat
    <2>1. 0 * k <= x
      OBVIOUS
    <2> QED
      BY <1>1, <2>1, DivBound
  <1> HIDE DEF q, t
  <1>3. q <= n - 1
    <2>1. ASSUME q >= n PROVE FALSE
      <3>1. n * k <= q * k
        BY <1>2, <2>1, TimesMono
      <3>2. q * k = k * q
        BY <1>2
      <3> QED
        BY <1>1, <1>2, <3>1, <3>2
    <2> QED
      BY <1>2, <2>1
  <1>4. q * a <= (n - 1) * a /\ q * a \in Nat
    BY <1>2, <1>3, TimesMono
  <1>5. (n - 1) * a = n * a - a /\ n * a \in Nat
    OBVIOUS
  <1>6. Spot(x, k, a, lead) = q * a + lead + t
    BY DEF Spot, q, t
  <1> QED
    BY <1>1, <1>4, <1>5, <1>6 DEF t

\* Within a shot, units are stored one after the other.
LEMMA SpotNext ==
    ASSUME NEW k \in Nat \ {0}, NEW a \in Nat, NEW lead \in Nat, NEW x \in Nat,
           NEW i \in Nat, (x % k) + i < k
    PROVE  Spot(x + i, k, a, lead) = Spot(x, k, a, lead) + i
  <1> DEFINE q == x \div k
             t == x % k
  <1>1. q \in Int /\ t \in 0..(k - 1) /\ x = k * q + t
    BY DivMod
  <1> HIDE DEF q, t
  <1>2. t + i \in 0..(k - 1) /\ x + i \in Int
    BY <1>1 DEF t
  <1>3. x + i = k * q + (t + i)
    BY <1>1
  <1>4. (x + i) \div k = q /\ (x + i) % k = t + i
    BY <1>1, <1>2, <1>3, DivUnique
  <1>5. Spot(x + i, k, a, lead) = q * a + lead + (t + i) /\ Spot(x, k, a, lead) = q * a + lead + t
    BY <1>4 DEF Spot, q, t
  <1>6. q * a \in Int
    BY <1>1
  <1> QED
    BY <1>1, <1>5, <1>6

\* The next shot is stored behind the padding.
LEMMA SpotShot ==
    ASSUME NEW k \in Nat \ {0}, NEW a \in Nat, NEW lead \in Nat, NEW x \in Nat, x % k = 0
    PROVE  Spot(x + k, k, a, lead) = Spot(x, k, a, lead) + a /\ (x + k) % k = 0
  <1> DEFINE q == x \div k
  <1>1. q \in Int /\ x = k * q + 0
    BY DivMod
  <1> HIDE DEF q
  <1>2. x + k = k * (q + 1) + 0 /\ 0 \in 0..(k - 1) /\ q + 1 \in Int /\ x + k \in Int
    BY <1>1
  <1>3. (x + k) \div k = q + 1 /\ (x + k) % k = 0
    <2> DEFINE y == x + k
               p == q + 1
    <2>1. y \in Int /\ p \in Int /\ 0 \in 0..(k - 1) /\ y = k * p + 0
      BY <1>2
    <2> HIDE DEF y, p
    <2>2. y \div k = p /\ y % k = 0
      BY <2>1, DivUnique
    <2> QED
      BY <2>2 DEF y, p
  <1>4. Spot(x + k, k, a, lead) = (q + 1) * a + lead + 0 /\ Spot(x, k, a, lead) = q * a + lead + 0
    BY <1>3 DEF Spot, q
  <1>5. (q + 1) * a = q * a + a /\ q * a \in Int
    BY <1>1
  <1> QED
    BY <1>3, <1>4, <1>5

\* Quotients of what is measured in another unit.
LEMMA DivScale ==
    \A x \in Nat : \A k, s \in Nat \ {0} :
        (x * s) \div (k * s) = x \div k /\ (x * s) % (k * s) = (x % k) * s
  <1> SUFFICES ASSUME NEW x \in Nat, NEW k \in Nat \ {0}, NEW s \in Nat \ {0}
               PROVE  (x * s) \div (k * s) = x \div k /\ (x * s) % (k * s) = (x % k) * s
    OBVIOUS
  <1> DEFINE q == x \div k
             t == x % k
  <1>1. q \in Int /\ t \in 0..(k - 1) /\ x = k * q + t
    BY DivMod
  <1> HIDE DEF q, t
  <1>2. k * s \in Nat \ {0} /\ x * s \in Nat
    BY TimesMono
  <1>3. t * s \in 0..(k * s - 1)
    <2>1. t * s \in Nat /\ t * s <= (k - 1) * s
      BY <1>1, TimesMono
    <2>2. (k - 1) * s = k * s - s
      OBVIOUS
    <2> QED
      BY <1>2, <2>1, <2>2
  <1>4. x * s = (k * s) * q + t * s
    BY <1>1
  <1> DEFINE ks == k * s
             xs == x * s
             ts == t * s
  <1>5. ks \in Nat \ {0} /\ xs \in Int /\ ts \in 0..(ks - 1) /\ xs = ks * q + ts
    BY <1>2, <1>3, <1>4
  <1> HIDE DEF ks, xs, ts
  <1>6. xs \div ks = q /\ xs % ks = ts
    BY <1>1, <1>5, DivUnique
  <1> QED
    BY <1>2, <1>6 DEF ks, xs, ts, q, t

\* A sum of three in another unit.
LEMMA Distribute ==
    \A q, a, d, e, s \in Int : (q * a + d + e) * s = q * (a * s) + d * s + e * s
  OBVIOUS

\* Multiples.
LEMMA ModTimes ==
    ASSUME NEW x \in Nat, NEW n \in Nat \ {0}, x % n = 0, NEW m \in Nat
    PROVE  (m * x) % n = 0 /\ m * x \in Nat
  <1> DEFINE q == x \div n
  <1>1. q \in Int /\ x = n * q
    BY DivMod
  <1> HIDE DEF q
  <1>2. m * x = n * (m * q) /\ m * q \in Int
    BY <1>1
  <1>3. (n * (m * q)) % n = 0
    BY <1>2, MultipleMod
  <1> QED
    BY <1>2, <1>3

-----------------------------------------------------------------------------
(* The ring of a channel. *)

\* A channel's ring is all of its memory.
LEMMA RingFacts ==
    ASSUME NEW c \in Chans
    PROVE  /\ StartAddr[c] \in Nat /\ EndMem(c) \in Nat /\ Ring(c) \in Nat \ {0}
           /\ EndMem(c) = StartAddr[c] + Ring(c) /\ EndMem(c) = EndAddr[c]
           /\ EndMem(c) <= MemTop /\ MemTop \in Nat
  <1>1. /\ StartAddr[c] \in Nat /\ EndAddr[c] \in 0..MemTop /\ MemTop \in Nat
        /\ SampleSize[c] \in Nat \ {0} /\ StartAddr[c] + SampleSize[c] < EndAddr[c]
    BY AcqAssumption, ChannelFacts
  <1>2. EndMem(c) = EndAddr[c]
    BY <1>1 DEF EndMem, LastAddr
  <1> QED
    BY <1>1, <1>2, ChannelFacts

\* The place where an acquisition begins is in the ring.
LEMMA OriginFacts ==
    ASSUME NEW c \in Chans, NEW t \in StartAddr[c]..(EndMem(c) - 1), NEW size \in 0..Ring(c)
    PROVE  /\ Origin(c, t, size) \in StartAddr[c]..(EndMem(c) - 1)
           /\ Origin(c, t, size) = t - size \/ Origin(c, t, size) = t - size + Ring(c)
  BY RingFacts DEF Origin

\* Addresses in the ring.
LEMMA WrappedFacts ==
    ASSUME NEW c \in Chans, NEW f \in StartAddr[c]..(EndMem(c) - 1), NEW j \in 0..(Ring(c) - 1)
    PROVE  /\ Wrapped(c, f + j) \in StartAddr[c]..(EndMem(c) - 1)
           /\ Wrapped(c, f + j) = f + j \/ Wrapped(c, f + j) = f + j - Ring(c)
           /\ \A a \in StartAddr[c]..(EndMem(c) - 1) :
                 a = f + j \/ a = f + j - Ring(c) => a = Wrapped(c, f + j)
  BY RingFacts DEF Wrapped

\* The core: what fits the ring is stored as a whole, unit by unit, from where the acquisition began.
LEMMA StoredHolds ==
    ASSUME CoreTypes, NEW c \in Chans, fpga.chan = c, DOMAIN mem = 0..(MemTop - 1),
           NEW t \in StartAddr[c]..(EndMem(c) - 1), NEW size \in 0..Ring(c),
           AcqUnits \in 0..Ring(c), NEW j \in 0..(AcqUnits - 1)
    PROVE  Stored(t - size)[Wrapped(c, Origin(c, t, size) + j)] = <<fpga.id, j>>
  <1> DEFINE R == Ring(c)
             f == Origin(c, t, size)
             a == Wrapped(c, f + j)
             first == t - size
             u == AcqUnits
  <1>1. R \in Nat \ {0} /\ StartAddr[c] \in Nat /\ EndMem(c) = StartAddr[c] + R
        /\ EndMem(c) <= MemTop /\ MemTop \in Nat
    BY RingFacts
  <1>2. f \in StartAddr[c]..(EndMem(c) - 1) /\ (f = first \/ f = first + R)
    BY OriginFacts
  <1>3. j \in 0..(R - 1) /\ j \in 0..(u - 1) /\ u \in 0..R
    BY <1>1
  <1> HIDE DEF f, u
  <1>4. a \in StartAddr[c]..(EndMem(c) - 1) /\ (a = f + j \/ a = f + j - R)
    BY <1>2, <1>3, WrappedFacts
  <1> HIDE DEF a, first, R
  <1>5. first \in Int
    BY DEF first
  <1>6. a - first = j \/ a - first = j + R \/ a - first = j - R
    BY <1>1, <1>2, <1>3, <1>4, <1>5
  <1>7. PICK q \in Int : a - first = R * q + j
    <2>1. a - first = R * 0 + j \/ a - first = R * 1 + j \/ a - first = R * (-1) + j
      BY <1>1, <1>3, <1>6
    <2> QED
      BY <2>1
  <1>8. (a - first) % R = j
    <2> DEFINE x == a - first
    <2>1. x \in Int /\ x = R * q + j
      BY <1>1, <1>4, <1>5, <1>7
    <2> HIDE DEF x
    <2>2. x % R = j
      BY <1>1, <1>3, <1>7, <2>1, DivUnique
    <2> QED
      BY <2>2 DEF x
  <1>9. ((u - 1) - j) \div R = 0
    <2> DEFINE x == (u - 1) - j
    <2>1. R \in Nat \ {0} /\ x \in 0..(R - 1)
      BY <1>1, <1>3
    <2> HIDE DEF x
    <2>2. x \div R = 0
      BY <2>1, DivSmall, Zenon
    <2> QED
      BY <2>2 DEF x
  <1>10. a \in DOMAIN mem
    BY <1>1, <1>4, SMTT(30)
  <1>11. Stored(first)[a] = <<fpga.id, j + 0 * R>>
    <2>1. Stored(first)[a] =
            IF a \in StartAddr[c]..(EndMem(c) - 1) /\ (a - first) % R < u
            THEN <<fpga.id, ((a - first) % R) + (((u - 1) - ((a - first) % R)) \div R) * R>> ELSE mem[a]
      BY <1>10, Zenon DEF Stored, R, u
    <2>2. (a - first) % R < u
      BY <1>3, <1>8
    <2> QED
      BY <1>4, <1>8, <1>9, <2>1, <2>2
  <1>12. j + 0 * R = j
    BY <1>1, <1>3
  <1> QED
    BY <1>11, <1>12 DEF a, f, first

\* The core writes to the ring of its channel only.
LEMMA StoredElsewhere ==
    ASSUME NEW first, NEW a \in DOMAIN mem,
           a \notin StartAddr[fpga.chan]..(EndMem(fpga.chan) - 1)
    PROVE  Stored(first)[a] = mem[a]
  BY DEF Stored

\* A ring lies in the memory, and apart from those it shares nothing with.
LEMMA RingsApart ==
    \A c \in Chans : \A a \in StartAddr[c]..(EndMem(c) - 1) :
        /\ DOMAIN mem = 0..(MemTop - 1) => a \in DOMAIN mem
        /\ \A e \in Chans : ~SharesMemory(c, e) => a \notin StartAddr[e]..(EndMem(e) - 1)
  <1> SUFFICES ASSUME NEW c \in Chans, NEW a \in StartAddr[c]..(EndMem(c) - 1)
               PROVE  /\ DOMAIN mem = 0..(MemTop - 1) => a \in DOMAIN mem
                      /\ \A e \in Chans : ~SharesMemory(c, e)
                            => a \notin StartAddr[e]..(EndMem(e) - 1)
    OBVIOUS
  <1>1. \A e \in Chans : /\ StartAddr[e] \in Nat /\ EndMem(e) \in Nat /\ EndMem(e) = EndAddr[e]
                         /\ EndMem(e) <= MemTop /\ MemTop \in Nat
    BY RingFacts
  <1> QED
    BY <1>1 DEF SharesMemory

\* Where the SMIO takes a single or the first shot to begin.
LEMMA StartIs ==
    ASSUME CoreTypes, NEW c \in Chans
    PROVE  AcqStart(c) = Origin(c, params[c].trig, params[c].preAligned * SampleSize[c])
  <1> DEFINE p == params[c]
             s == SampleSize[c]
             x == ShotAligned(p) * (p.shots - 1)
             X == x * s
             l == p.preAligned * s
  <1>1. p \in Param /\ s \in Nat \ {0}
    BY ChannelFacts DEF CoreTypes
  <1>2. x \in Int /\ p.preAligned \in Nat /\ p.trig \in Nat
    <2>1. ShotAligned(p) \in Nat /\ p.shots - 1 \in Int
      BY <1>1 DEF ShotAligned, Param
    <2> QED
      BY <1>1, <2>1 DEF Param
  <1>3. AcqStart(c) = StartAddress(p.trig + X, (x + p.preAligned) * s, StartAddr[c], EndMem(c))
    BY DEF AcqStart
  <1> HIDE DEF x, p, s
  <1>4. X \in Int /\ l \in Nat /\ (x + p.preAligned) * s = X + l
    BY <1>1, <1>2
  <1> HIDE DEF X, l
  <1>5. AcqStart(c) = StartAddress(p.trig + X, X + l, StartAddr[c], EndMem(c))
    BY <1>3, <1>4
  <1>6. @ = Origin(c, p.trig, l)
    BY <1>2, <1>4, RingFacts DEF StartAddress, Origin
  <1> QED
    BY <1>5, <1>6 DEF l, p, s

-----------------------------------------------------------------------------
(* What is stored of a request. *)

\* Sums and differences of multiples.
LEMMA ModSum ==
    ASSUME NEW n \in Nat \ {0}, NEW x \in Int, NEW y \in Int, x % n = 0, y % n = 0
    PROVE  (x + y) % n = 0 /\ (y - x) % n = 0
  <1> DEFINE p == x \div n
             q == y \div n
  <1>1. p \in Int /\ q \in Int /\ x = n * p /\ y = n * q
    BY DivMod
  <1> HIDE DEF p, q
  <1>2. x + y = n * (p + q) /\ y - x = n * (q - p) /\ p + q \in Int /\ q - p \in Int
    BY <1>1
  <1>3. (n * (p + q)) % n = 0 /\ (n * (q - p)) % n = 0
    BY <1>2, MultipleMod
  <1> QED
    BY <1>2, <1>3

\* A request as the SMIO prepared it.
LEMMA PreparedFacts ==
    ASSUME CoreTypes, ClientTypes, NEW c \in Clients, Prepared(c)
    PROVE  LET r == cl[c].req
               p == params[r.chan]
               s == SampleSize[r.chan]
               a == hist[c].units \div r.shots
           IN  /\ r \in Reqs /\ r.chan \in Chans /\ s \in Nat \ {0} /\ p \in Param
               /\ r.pre + r.post \in Nat /\ r.shots \in Nat \ {0} /\ Total(r) = (r.pre + r.post) * r.shots
               /\ ShotUnits(r) = (r.pre + r.post) * s /\ ShotUnits(r) \in Nat
               /\ a = (p.preAligned + p.postAligned) * s /\ a \in Nat
               /\ hist[c].units = r.shots * a
               /\ Lead(r) \in Nat /\ Lead(r) = (p.preAligned - p.pre) * s
               /\ Lead(r) + ShotUnits(r) <= a
               /\ p.preAligned * s \in Nat \ {0} /\ p.preAligned * s <= a
               /\ Total(r) * s = r.shots * ShotUnits(r)
               /\ ShotSamples(p) = r.pre + r.post /\ p.shots = r.shots
               /\ ShotAligned(p) = p.preAligned + p.postAligned
  <1> DEFINE r == cl[c].req
             p == params[r.chan]
             s == SampleSize[r.chan]
             A == p.preAligned + p.postAligned
             as == A * s
             ls == p.preAligned * s
             u == hist[c].units
             k == r.pre + r.post
             d == p.preAligned - p.pre
  <1>1. r \in Reqs
    BY DEF ClientTypes, Client
  <1>2. r.chan \in Chans /\ s \in Nat \ {0} /\ p \in Param
    BY ChannelFacts DEF CoreTypes, Prepared
  <1>3. r.pre \in Nat /\ r.post \in Nat /\ r.shots \in Nat
    BY <1>1, ReqFacts
  <1>4. /\ p.preAligned \in Nat /\ p.postAligned \in Nat /\ p.pre \in Nat /\ p.post \in Nat
        /\ p.shots \in Nat
    BY <1>2 DEF Param
  <1>5. /\ r.shots >= 1 /\ p.pre = r.pre /\ p.post = r.post /\ p.shots = r.shots
        /\ p.preAligned > 0 /\ p.preAligned >= p.pre /\ p.postAligned >= p.post
        /\ d * s = Lead(r) /\ u = A * r.shots * s
    BY DEF Prepared
  <1>6. ShotUnits(r) = k * s /\ ShotSamples(p) = k /\ ShotAligned(p) = A /\ Total(r) = k * r.shots
    BY <1>5 DEF ShotUnits, ShotSamples, ShotAligned, Total
  <1> HIDE DEF r, p, s, u
  <1>7. A \in Nat /\ k \in Nat /\ d \in Nat /\ d + k <= A /\ p.preAligned <= A
    BY <1>3, <1>4, <1>5
  <1> HIDE DEF A, k, d
  <1>8. as \in Nat /\ d * s \in Nat /\ k * s \in Nat /\ ls \in Nat /\ ls <= as
    BY <1>2, <1>4, <1>7, TimesMono
  <1>9. ls # 0
    BY <1>2, <1>4, <1>5
  <1>10. d * s + k * s <= as
    <2>1. (d + k) * s <= A * s
      BY <1>2, <1>7, TimesMono
    <2>2. (d + k) * s = d * s + k * s
      BY <1>2, <1>7
    <2> QED
      BY <2>1, <2>2
  <1>11. r.shots \in Nat \ {0}
    BY <1>3, <1>5
  <1>12. u = r.shots * as
    BY <1>2, <1>5, <1>7, <1>11
  <1>13. u \div r.shots = as
    <2> DEFINE n == r.shots
    <2>1. as \in Int /\ n \in Nat \ {0} /\ u = n * as
      BY <1>8, <1>11, <1>12
    <2> HIDE DEF as, n
    <2>2. (n * as) \div n = as
      BY <2>1, MultipleMod
    <2> QED
      BY <2>1, <2>2 DEF n
  <1>14. (k * r.shots) * s = r.shots * (k * s)
    BY <1>2, <1>7, <1>11
  <1> QED
    BY <1>1, <1>2, <1>5, <1>6, <1>7, <1>8, <1>9, <1>10, <1>11, <1>12, <1>13, <1>14 DEF r, p, s, u, A, k, d

\* The request fits: where its units are stored.
LEMMA StoredFacts ==
    ASSUME CoreTypes, ClientTypes, NEW c \in Clients, Prepared(c),
           NEW x \in Nat, x < Total(cl[c].req) * SampleSize[cl[c].req.chan]
    PROVE  LET k == ShotUnits(cl[c].req) IN
           /\ k \in Nat \ {0} /\ x % k \in 0..(k - 1)
           /\ StoredAt(c, x) \in Nat /\ StoredAt(c, x) + (k - (x % k)) <= hist[c].units
           /\ \A i \in Nat : (x % k) + i < k => StoredAt(c, x + i) = StoredAt(c, x) + i
           /\ x % k = 0 => /\ StoredAt(c, x + k) = StoredAt(c, x) + (hist[c].units \div cl[c].req.shots)
                           /\ (x + k) % k = 0
  <1> DEFINE r == cl[c].req
             k == ShotUnits(r)
             a == hist[c].units \div r.shots
             n == r.shots
             l == Lead(r)
  <1>1. /\ k \in Nat /\ a \in Nat /\ l \in Nat /\ n \in Nat \ {0} /\ l + k <= a
        /\ hist[c].units = n * a /\ Total(r) * SampleSize[r.chan] = n * k
    BY PreparedFacts
  <1>2. \A y : StoredAt(c, y) = Spot(y, k, a, l)
    BY DEF StoredAt
  <1>3. x < n * k
    BY <1>1
  <1> HIDE DEF k, a, n, l
  <1>4. k # 0
    BY <1>1, <1>3
  <1>5. k \in Nat \ {0}
    BY <1>1, <1>4
  <1>6. x % k \in 0..(k - 1) /\ Spot(x, k, a, l) \in Nat /\ Spot(x, k, a, l) + (k - (x % k)) <= n * a
    BY <1>1, <1>3, <1>5, SpotBound
  <1>7. \A i \in Nat : (x % k) + i < k => Spot(x + i, k, a, l) = Spot(x, k, a, l) + i
    BY <1>1, <1>5, SpotNext
  <1>8. x % k = 0 => Spot(x + k, k, a, l) = Spot(x, k, a, l) + a /\ (x + k) % k = 0
    BY <1>1, <1>5, SpotShot
  <1> QED
    BY <1>1, <1>2, <1>5, <1>6, <1>7, <1>8 DEF k, a, n, l

-----------------------------------------------------------------------------
(* The units of a block. *)

\* The last block of T samples, N of them in a block, and the units of a block.
LastOf(T, N) == IF T >= N /\ T % N = 0 THEN T \div N - 1 ELSE T \div N
UnitsOf(T, N, s, b) == IF b = LastOf(T, N) /\ T % N > 0 THEN (T % N) * s ELSE N * s

\* The last block has what is left, the others are full.
LEMMA BlockUnits ==
    ASSUME NEW T \in Nat \ {0}, NEW N \in Nat \ {0}, NEW s \in Nat \ {0}, NEW b \in Nat,
           b <= LastOf(T, N)
    PROVE  LET size == UnitsOf(T, N, s, b)
           IN  /\ size \in Nat \ {0} /\ b <= T \div N
               /\ b = T \div N => b * (N * s) + size = T * s
               /\ b # T \div N => size = N * s /\ (b + 1) * (N * s) <= T * s
               /\ b * (N * s) \in Nat /\ b * (N * s) + size <= T * s
  <1> DEFINE q == T \div N
             over == T % N
             B == N * s
             valid == LastOf(T, N)
             size == UnitsOf(T, N, s, b)
  <1>1. q \in Int /\ over \in 0..(N - 1) /\ T = N * q + over
    BY DivMod
  <1> HIDE DEF q, over
  <1>2. valid = (IF T >= N /\ over = 0 THEN q - 1 ELSE q)
        /\ size = IF b = valid /\ over > 0 THEN over * s ELSE B
    BY DEF q, over, LastOf, UnitsOf
  <1> HIDE DEF valid, size
  <1>3. b <= q /\ b <= valid
    <2>1. b <= valid
      BY DEF valid
    <2> QED
      BY <1>1, <1>2, <2>1
  <1>4. B \in Nat \ {0}
    BY TimesMono
  <1>5. T * s = q * B + over * s /\ q * B \in Nat /\ over * s \in Nat /\ T * s \in Nat
    <2>1. q \in Nat
      BY <1>1, <1>3
    <2> QED
      BY <1>1, <2>1
  <1>6. CASE b = q
    <2>1. over > 0
      <3>1. ASSUME over = 0 PROVE FALSE
        <4>1. ~(T >= N)
          BY <1>1, <1>2, <1>3, <1>6, <3>1
        <4>2. q >= 1
          <5>1. ASSUME q <= 0 PROVE FALSE
            <6>1. N * q <= 0
              BY <1>1, <5>1
            <6> QED
              BY <1>1, <3>1, <6>1
          <5> QED
            BY <1>1, <5>1
        <4>3. N * q >= N
          BY <1>1, <4>2
        <4> QED
          BY <1>1, <3>1, <4>1, <4>3
      <3> QED
        BY <1>1, <3>1
    <2>2. size = over * s
      BY <1>1, <1>2, <1>6, <2>1
    <2>3. size # 0
      BY <1>1, <2>1, <2>2
    <2> HIDE DEF B
    <2> QED
      BY <1>5, <1>6, <2>2, <2>3 DEF q, B, size
  <1>7. CASE b # q
    <2>1. size = B
      BY <1>1, <1>2, <1>3, <1>7
    <2>2. (b + 1) * B <= q * B /\ (b + 1) * B = b * B + B /\ b * B \in Nat
      <3>1. b + 1 <= q /\ q \in Nat
        BY <1>1, <1>3, <1>7
      <3> HIDE DEF B
      <3> QED
        BY <1>4, <3>1, TimesMono
    <2> HIDE DEF B
    <2> QED
      BY <1>3, <1>4, <1>5, <1>7, <2>1, <2>2 DEF q, B, size
  <1> QED
    BY <1>6, <1>7

\* The block of a request that the SMIO does not refuse.
LEMMA BlockFacts ==
    ASSUME CoreTypes, ClientTypes, NEW c \in Clients, Prepared(c), NEW b \in Nat,
           BlockCode(cl[c].req.chan, b) = ACQ_OK, ShotSamples(params[cl[c].req.chan]) # 0
    PROVE  LET r == cl[c].req
               size == ReplySize(r.chan, b)
               t == Total(r) * SampleSize[r.chan]
           IN  /\ size \in Nat \ {0} /\ b <= Total(r) \div PerBlock(r) /\ Total(r) \in Nat \ {0}
               /\ b = Total(r) \div PerBlock(r) => b * BlockSize + size = t
               /\ b # Total(r) \div PerBlock(r) => size = BlockSize /\ (b + 1) * BlockSize <= t
               /\ b * BlockSize \in Nat /\ b * BlockSize + size <= t
               /\ PerBlock(r) \in Nat \ {0} /\ PerBlock(r) * SampleSize[r.chan] = BlockSize
  <1> DEFINE r == cl[c].req
             ch == r.chan
             s == SampleSize[ch]
             N == PerBlock(r)
             T == Total(r)
             valid == BlockValid(ch)
             size == ReplySize(ch, b)
  <1>1. /\ ch \in Chans /\ s \in Nat \ {0} /\ r.pre + r.post \in Nat /\ r.shots \in Nat \ {0}
        /\ T = (r.pre + r.post) * r.shots
        /\ ShotSamples(params[ch]) = r.pre + r.post /\ params[ch].shots = r.shots
    BY PreparedFacts
  <1>2. N \in Nat \ {0} /\ N * s = BlockSize /\ N = BlockSize \div s
    BY <1>1, ChannelFacts DEF PerBlock
  <1>3. ShotSamples(params[ch]) * params[ch].shots = T
    BY <1>1
  <1>4. T \in Nat \ {0}
    BY <1>1, TimesMono
  <1>5. valid = LastOf(T, N)
    BY <1>2, <1>3 DEF BlockValid, LastOf
  <1>6. size = UnitsOf(T, N, s, b)
    BY <1>2, <1>3, <1>5 DEF ReplySize, UnitsOf
  <1>7. b <= valid
    <2>1. ~(b > valid)
      BY DEF BlockCode, ACQ_OK, ACQ_OOR
    <2>2. valid \in Int
      <3> HIDE DEF T, N, valid
      <3>1. T \in Int /\ N \in Nat \ {0}
        BY <1>2, <1>4
      <3>2. T \div N \in Int
        BY <3>1, DivMod
      <3> QED
        BY <1>5, <3>2 DEF LastOf
    <2> HIDE DEF valid
    <2> QED
      BY <2>1, <2>2
  <1> HIDE DEF valid, size, T, N, s
  <1>8. /\ size \in Nat \ {0} /\ b <= T \div N
        /\ b = T \div N => b * (N * s) + size = T * s
        /\ b # T \div N => size = N * s /\ (b + 1) * (N * s) <= T * s
        /\ b * (N * s) \in Nat /\ b * (N * s) + size <= T * s
    <2>1. s \in Nat \ {0} /\ N \in Nat \ {0}
      BY <1>1, <1>2
    <2>2. T \in Nat \ {0} /\ b <= LastOf(T, N)
      BY <1>4, <1>5, <1>7
    <2>3. LET z == UnitsOf(T, N, s, b)
          IN  /\ z \in Nat \ {0} /\ b <= T \div N
              /\ b = T \div N => b * (N * s) + z = T * s
              /\ b # T \div N => z = N * s /\ (b + 1) * (N * s) <= T * s
              /\ b * (N * s) \in Nat /\ b * (N * s) + z <= T * s
      BY <2>1, <2>2, BlockUnits
    <2> QED
      BY <1>6, <2>3, Zenon
  <1> QED
    BY <1>2, <1>4, <1>8 DEF size, T, N, s

\* In multishot mode a block begins with a shot and has whole shots, if blocks do not cut them.
LEMMA WholeShots ==
    ASSUME CoreTypes, ClientTypes, NEW c \in Clients, Prepared(c), NEW b \in Nat,
           BlockCode(cl[c].req.chan, b) = ACQ_OK, ShotSamples(params[cl[c].req.chan]) # 0,
           \/ Total(cl[c].req) <= PerBlock(cl[c].req)
           \/ PerBlock(cl[c].req) % (cl[c].req.pre + cl[c].req.post) = 0
    PROVE  LET k == ShotUnits(cl[c].req) IN
           /\ k \in Nat \ {0}
           /\ (b * BlockSize) % k = 0 /\ ReplySize(cl[c].req.chan, b) % k = 0
  <1> DEFINE r == cl[c].req
             ch == r.chan
             s == SampleSize[ch]
             N == PerBlock(r)
             T == Total(r)
             size == ReplySize(ch, b)
             h == r.pre + r.post
             k == ShotUnits(r)
             D == b * BlockSize
             t == T * s
  <1>1. /\ s \in Nat \ {0} /\ h \in Nat \ {0} /\ r.shots \in Nat \ {0} /\ k = h * s
        /\ t = r.shots * k
    BY PreparedFacts
  <1>2. /\ size \in Nat \ {0} /\ b <= T \div N /\ T \in Nat \ {0}
        /\ b = T \div N => D + size = t
        /\ b # T \div N => size = BlockSize /\ (b + 1) * BlockSize <= t
        /\ D \in Nat /\ N \in Nat \ {0} /\ N * s = BlockSize
    BY BlockFacts
  <1>3. k \in Nat \ {0}
    BY <1>1, TimesMono
  <1>4. t % k = 0 /\ t \in Nat
    <2> DEFINE n == r.shots
    <2>1. n \in Nat /\ t = n * k
      BY <1>1
    <2>2. k % k = 0
      <3>1. k = k * 1 /\ 1 \in Int
        BY <1>3
      <3>2. (k * 1) % k = 0
        BY <1>3, <3>1, MultipleMod
      <3> QED
        BY <3>1, <3>2
    <2> HIDE DEF n, t, k
    <2> QED
      BY <1>3, <2>1, <2>2, ModTimes
  <1>7. /\ N \in Nat \ {0} /\ T \in Nat \ {0} /\ BlockSize \in Nat \ {0}
        /\ s \in Nat \ {0} /\ N * s = BlockSize
    BY <1>1, <1>2, AcqAssumption
  <1> HIDE DEF s, N, T, size, h, k, t
  <1>5. CASE T <= N
    <2>1. b * BlockSize = 0 /\ size = t
      <3>1. CASE b = T \div N
        <4>1. T \div N \in Int /\ T % N \in 0..(N - 1) /\ T = N * (T \div N) + (T % N)
          BY <1>7, DivMod
        <4>2. T \div N <= 1
          <5>1. ASSUME b >= 2 PROVE FALSE
            <6>1. N * b >= 2 * N
              BY <1>2, <5>1
            <6> QED
              BY <1>2, <1>5, <3>1, <4>1, <6>1
          <5> QED
            BY <3>1, <4>1, <5>1
        <4>3. ASSUME b = 1 PROVE FALSE
          <5>1. T % N = 0 /\ T = N
            BY <1>2, <1>5, <3>1, <4>1, <4>3
          <5>2. D = BlockSize /\ t = BlockSize
            BY <1>2, <4>3, <5>1 DEF t
          <5> QED
            BY <1>2, <3>1, <5>2
        <4>4. b = 0
          BY <3>1, <4>1, <4>2, <4>3
        <4>5. D = 0
          BY <1>7, <4>4
        <4> QED
          BY <1>2, <3>1, <4>5
      <3>2. CASE b # T \div N
        <4>1. T * s <= N * s
          BY <1>1, <1>2, <1>5, TimesMono
        <4>2. b = 0
          <5>1. ASSUME b >= 1 PROVE FALSE
            <6>1. (b + 1) * BlockSize >= 2 * BlockSize
              BY <1>7, <5>1
            <6>2. (b + 1) * BlockSize <= t /\ t <= BlockSize
              BY <1>2, <1>7, <3>2, <4>1 DEF t
            <6> QED
              BY <1>4, <1>7, <6>1, <6>2
          <5> QED
            BY <5>1
        <4>3. BlockSize \in Nat /\ BlockSize <= t
          BY <1>2, <3>2, <4>2, AcqAssumption
        <4> QED
          BY <1>2, <1>4, <3>2, <4>1, <4>2, <4>3 DEF t
      <3> QED
        BY <3>1, <3>2
    <2>2. 0 % k = 0
      BY <1>3, DivMod
    <2> QED
      BY <1>3, <1>4, <2>1, <2>2 DEF k, size
  <1>6. CASE N % h = 0
    <2>1. BlockSize % k = 0 /\ BlockSize \in Nat
      <3> DEFINE m == N \div h
      <3>1. m \in Int /\ N = h * m
        BY <1>1, <1>2, <1>6, DivMod
      <3> HIDE DEF m
      <3>2. BlockSize = k * m
        BY <1>1, <1>2, <3>1
      <3> QED
        BY <1>3, <3>1, <3>2, MultipleMod, AcqAssumption
    <2>2. D % k = 0
      <3>1. (b * BlockSize) % k = 0
        BY <1>3, <2>1, ModTimes
      <3> QED
        BY <3>1
    <2>3. size % k = 0
      <3>1. CASE b # T \div N
        BY <1>2, <2>1, <3>1
      <3>2. CASE b = T \div N
        <4>1. (t - D) % k = 0
          <5> HIDE DEF D
          <5> QED
            BY <1>2, <1>3, <1>4, <2>2, ModSum
        <4>2. size = t - D
          BY <1>2, <1>4, <3>2
        <4> QED
          BY <4>1, <4>2
      <3> QED
        BY <3>1, <3>2
    <2> QED
      BY <1>3, <2>2, <2>3 DEF k, size
  <1> QED
    BY <1>5, <1>6 DEF T, N, h

\* A block begins where its first unit is stored.
LEMMA BlockStarts ==
    ASSUME CoreTypes, ClientTypes, NEW c \in Clients, Prepared(c), NEW b \in Nat,
           BlockCode(cl[c].req.chan, b) = ACQ_OK, ShotSamples(params[cl[c].req.chan]) # 0,
           hist[c].units <= Ring(cl[c].req.chan),
           AcqStart(cl[c].req.chan) \in StartAddr[cl[c].req.chan]..(EndMem(cl[c].req.chan) - 1)
    PROVE  LET ch == cl[c].req.chan
               a == BlockAddr(ch, b)
               x == b * BlockSize
           IN  /\ StartAddr[ch] <= a /\ a <= EndMem(ch) /\ a \in Int
               /\ \/ a = AcqStart(ch) + StoredAt(c, x)
                  \/ a = AcqStart(ch) + StoredAt(c, x) - Ring(ch)
               /\ (b * (BlockSize \div SampleSize[ch])) % ShotSamples(params[ch]) \in Nat
               /\ x % ShotUnits(cl[c].req) = 0 =>
                    (b * (BlockSize \div SampleSize[ch])) % ShotSamples(params[ch]) = 0
  <1> DEFINE r == cl[c].req
             ch == r.chan
             p == params[ch]
             s == SampleSize[ch]
             h == r.pre + r.post
             A == ShotAligned(p)
             n == b * (BlockSize \div s)
             q == n \div h
             d == p.preAligned - p.pre
             as == hist[c].units \div r.shots
             F == AcqStart(ch)
             J == StoredAt(c, b * BlockSize)
             conv == q * A + d + (n - q * h)
  <1>1. /\ ch \in Chans /\ s \in Nat \ {0} /\ h \in Nat \ {0} /\ p \in Param
        /\ ShotSamples(p) = h /\ A = p.preAligned + p.postAligned /\ as = A * s
        /\ ShotUnits(r) = h * s /\ Lead(r) = d * s
    BY PreparedFacts DEF ShotAligned
  <1>2. BlockSize \div s \in Nat \ {0} /\ (BlockSize \div s) * s = BlockSize
    BY <1>1, ChannelFacts
  <1>3. n \in Nat /\ n * s = b * BlockSize
    <2> DEFINE N == BlockSize \div s
    <2>1. N \in Nat /\ N * s = BlockSize
      BY <1>2
    <2> HIDE DEF N
    <2>2. b * N \in Nat /\ (b * N) * s = b * (N * s)
      BY <1>1, <2>1, TimesMono
    <2> QED
      BY <2>1, <2>2 DEF N
  <1>4. b * BlockSize \in Nat /\ b * BlockSize < Total(r) * s
    <2>1. LET size == ReplySize(ch, b) IN
          /\ size \in Nat \ {0} /\ b * BlockSize \in Nat /\ b * BlockSize + size <= Total(r) * s
          /\ Total(r) \in Nat \ {0}
      BY BlockFacts
    <2>2. Total(r) * s \in Int
      BY <1>1, <2>1
    <2> QED
      BY <2>1, <2>2
  <1>5. J \in Nat /\ J < hist[c].units
    <2> DEFINE k == ShotUnits(r)
               x == b * BlockSize
               u == hist[c].units
    <2>1. k \in Nat \ {0} /\ x % k \in 0..(k - 1) /\ J \in Nat /\ J + (k - (x % k)) <= u
      BY <1>4, StoredFacts
    <2>2. u \in Nat
      BY DEF ClientTypes, Hist
    <2> HIDE DEF k, x, J, u
    <2> QED
      BY <2>1, <2>2 DEF u
  <1>13. n \in Nat /\ n \in Int /\ h \in Nat \ {0} /\ s \in Nat \ {0}
    BY <1>1, <1>3
  <1>14. (n * s) \div (h * s) = q /\ (n * s) % (h * s) = (n % h) * s
    <2> HIDE DEF n, h, s
    <2>1. (n * s) \div (h * s) = n \div h /\ (n * s) % (h * s) = (n % h) * s
      BY <1>13, DivScale, Zenon
    <2> QED
      BY <2>1
  <1>6. J = conv * s
    <2>1. (n * s) \div (h * s) = q /\ (n * s) % (h * s) = (n % h) * s
      BY <1>14
    <2>2. J = q * as + Lead(r) + (n % h) * s
      BY <1>1, <1>3, <2>1, Zenon DEF StoredAt, Spot
    <2>3. q \in Int /\ n % h = n - q * h
      <3> HIDE DEF n, h
      <3>1. q \in Int /\ n % h \in 0..(h - 1) /\ n = h * q + (n % h)
        BY <1>13, DivMod
      <3> QED
        BY <1>13, <3>1
    <2>4. A \in Int /\ d \in Int /\ (n - q * h) \in Int
      <3>1. p.preAligned \in Int /\ p.postAligned \in Int /\ p.pre \in Int
        BY <1>1 DEF Param
      <3>2. A \in Int /\ d \in Int
        BY <1>1, <3>1
      <3> HIDE DEF n, h, q, A, d
      <3>3. q * h \in Int
        BY <1>13, <2>3
      <3> QED
        BY <1>13, <3>2, <3>3
    <2> HIDE DEF q, A, d, n, h, as, J, s
    <2>5. J = q * (A * s) + d * s + (n - q * h) * s
      BY <1>1, <2>2, <2>3 DEF A, as, d, s, h
    <2> DEFINE e == n - q * h
    <2>6. e \in Int /\ J = q * (A * s) + d * s + e * s
      BY <2>4, <2>5
    <2>7. conv = q * A + d + e
      OBVIOUS
    <2> HIDE DEF e, conv
    <2>8. (q * A + d + e) * s = q * (A * s) + d * s + e * s
      <3>1. q \in Int /\ A \in Int /\ d \in Int /\ e \in Int /\ s \in Int
        BY <1>13, <2>3, <2>4, <2>6
      <3> QED
        BY <3>1, Distribute
    <2> QED
      BY <2>6, <2>7, <2>8
  <1>7. BlockAddr(ch, b) = ReadBlockAddrStart(F, conv * s, StartAddr[ch], EndMem(ch))
    BY <1>1 DEF BlockAddr
  <1>8. n % h \in Nat
    <2> HIDE DEF n, h
    <2> QED
      BY <1>13, ModNat
  <1>9. (n * s) % (h * s) = 0 => n % h = 0
    <2>1. (n * s) % (h * s) = (n % h) * s
      BY <1>14
    <2> HIDE DEF n, h, s
    <2> QED
      BY <1>8, <1>13, <2>1
  <1> HIDE DEF conv, J, F
  <1>10. BlockAddr(ch, b) = IF J <= EndMem(ch) - F THEN F + J ELSE StartAddr[ch] + (J - (EndMem(ch) - F))
    BY <1>6, <1>7 DEF ReadBlockAddrStart
  <1>11. /\ StartAddr[ch] \in Nat /\ EndMem(ch) \in Nat /\ Ring(ch) \in Nat \ {0}
         /\ EndMem(ch) = StartAddr[ch] + Ring(ch) /\ F \in StartAddr[ch]..(EndMem(ch) - 1)
         /\ hist[c].units \in Nat /\ hist[c].units <= Ring(ch)
    BY <1>1, RingFacts DEF F, ClientTypes, Hist
  <1>12. /\ StartAddr[ch] <= BlockAddr(ch, b) /\ BlockAddr(ch, b) <= EndMem(ch) /\ BlockAddr(ch, b) \in Int
         /\ BlockAddr(ch, b) = F + J \/ BlockAddr(ch, b) = F + J - Ring(ch)
    BY <1>5, <1>10, <1>11
  <1> QED
    BY <1>1, <1>3, <1>8, <1>9, <1>12 DEF F, J

-----------------------------------------------------------------------------
(* Reading a block. *)

\* A client whose acquisition is in memory, and the SMIO knows where.
Readable(c) ==
    /\ CoreTypes /\ ClientTypes /\ DOMAIN mem = 0..(MemTop - 1)
    /\ Prepared(c) /\ Fits(c) /\ MemHolds(c, params[cl[c].req.chan].trig)

\* The acquisition begins in the ring, and several shots at its beginning.
LEMMA StartInRing ==
    ASSUME NEW c \in Clients, Readable(c)
    PROVE  LET r == cl[c].req
               ch == r.chan
               size == params[ch].preAligned * SampleSize[ch]
               F == AcqStart(ch)
           IN  /\ ch \in Chans /\ size \in 0..Ring(ch)
               /\ F = Origin(ch, params[ch].trig, size) /\ F \in StartAddr[ch]..(EndMem(ch) - 1)
               /\ r.shots # 1 => F = StartAddr[ch]
  <1> DEFINE r == cl[c].req
             ch == r.chan
             size == params[ch].preAligned * SampleSize[ch]
             t == params[ch].trig
             a == hist[c].units \div r.shots
             u == hist[c].units
  <1>1. /\ ch \in Chans /\ size \in Nat /\ size <= a /\ a \in Nat /\ u = r.shots * a
        /\ r.shots \in Nat \ {0}
    BY PreparedFacts DEF Readable
  <1>2. u <= Ring(ch) /\ t \in StartAddr[ch]..(EndMem(ch) - 1) /\ (r.shots # 1 => t = StartAddr[ch] + size)
    BY DEF Readable, Fits, MemHolds
  <1>3. AcqStart(ch) = Origin(ch, t, size)
    BY <1>1, StartIs DEF Readable
  <1>4. Ring(ch) \in Nat /\ StartAddr[ch] \in Nat
    BY <1>1, RingFacts
  <1> HIDE DEF size, t, a, u
  <1>5. a <= r.shots * a /\ u \in Nat
    BY <1>1
  <1>6. size \in 0..Ring(ch)
    BY <1>1, <1>2, <1>4, <1>5
  <1>7. AcqStart(ch) \in StartAddr[ch]..(EndMem(ch) - 1)
    BY <1>1, <1>2, <1>3, <1>6, OriginFacts
  <1>8. r.shots # 1 => AcqStart(ch) = StartAddr[ch]
    BY <1>2, <1>3, <1>4, <1>6 DEF Origin
  <1> QED
    BY <1>1, <1>3, <1>6, <1>7, <1>8 DEF size, t

\* What an address of the ring holds.
LEMMA MemAt ==
    ASSUME NEW c \in Clients, Readable(c), NEW j \in 0..(hist[c].units - 1),
           NEW a \in StartAddr[cl[c].req.chan]..(EndMem(cl[c].req.chan) - 1),
           \/ a = AcqStart(cl[c].req.chan) + j
           \/ a = AcqStart(cl[c].req.chan) + j - Ring(cl[c].req.chan)
    PROVE  a \in DOMAIN mem /\ mem[a] = <<hist[c].id, j>>
  <1> DEFINE ch == cl[c].req.chan
             F == AcqStart(ch)
             t == params[ch].trig
             size == params[ch].preAligned * SampleSize[ch]
  <1>1. ch \in Chans /\ F = Origin(ch, t, size) /\ F \in StartAddr[ch]..(EndMem(ch) - 1)
    BY StartInRing
  <1>2. \A i \in 0..(hist[c].units - 1) : mem[Wrapped(ch, Origin(ch, t, size) + i)] = <<hist[c].id, i>>
    BY DEF Readable, MemHolds
  <1>3. hist[c].units \in Nat /\ hist[c].units <= Ring(ch)
    BY DEF Readable, Fits, ClientTypes, Hist
  <1>4. Ring(ch) \in Nat /\ EndMem(ch) <= MemTop /\ MemTop \in Nat /\ StartAddr[ch] \in Nat
        /\ EndMem(ch) \in Nat
    BY <1>1, RingFacts
  <1> HIDE DEF F, t, size
  <1>5. j \in 0..(Ring(ch) - 1)
    BY <1>3, <1>4
  <1>6. a = Wrapped(ch, F + j)
    BY <1>1, <1>5, WrappedFacts DEF F
  <1>7. a \in DOMAIN mem
    BY <1>4 DEF Readable
  <1> QED
    BY <1>1, <1>2, <1>6, <1>7

\* Both ways to read a chunk read the same addresses.
LEMMA WaysAreOne ==
    ASSUME NEW at \in Ways, block.addr \in Nat, ChunkSize \in Nat
    PROVE  at = [k \in 1..ChunkSize |-> block.addr + k - 1]
  <1>1. CASE at \in {Bar2[r] : r \in DOMAIN Bar2 \cap {<<block.addr, ChunkSize>>}}
    <2>1. <<block.addr, ChunkSize>> \in DOMAIN Bar2 /\ at = Bar2[<<block.addr, ChunkSize>>]
      BY <1>1
    <2>2. Bar2[<<block.addr, ChunkSize>>] = Bar2Block(block.addr, ChunkSize)
      BY <2>1 DEF Bar2
    <2> QED
      BY <2>1, <2>2, PagesInOrder
  <1>2. CASE at = [k \in 1..ChunkSize |-> block.addr + k - 1]
    BY <1>2
  <1>3. block.pc = "read"
    BY DEF Ways
  <1> QED
    BY <1>1, <1>2, <1>3 DEF Ways

\* The SMIO reads a block for the client.
ReadsFor(c) ==
    /\ Readable(c) /\ Sound(c) /\ Undisturbed(c) /\ BlockSoFar(c)
    /\ cl[c].pc = "wait" /\ block.pc = "read"

\* The facts about a block that is being read.
LEMMA ReadFacts ==
    ASSUME NEW c \in Clients, ReadsFor(c)
    PROVE  LET r == cl[c].req
               ch == r.chan
               b == cl[c].blk
               x == b * BlockSize + Len(block.data)
               k == ShotUnits(r)
               size == ReplySize(ch, b)
           IN  /\ b \in Nat /\ block \in Block /\ ch \in Chans /\ block.chan = ch /\ block.n = b
               /\ Len(block.data) \in Nat /\ Len(block.data) < size /\ size \in Nat \ {0}
               /\ b * BlockSize \in Nat /\ b * BlockSize + size <= Total(r) * SampleSize[ch]
               /\ x \in Nat /\ x < Total(r) * SampleSize[ch] /\ k \in Nat \ {0}
               /\ x % k \in 0..(k - 1)
               /\ StoredAt(c, x) \in Nat /\ StoredAt(c, x) + (k - (x % k)) <= hist[c].units
               /\ hist[c].units \in Nat /\ hist[c].units <= Ring(ch)
               /\ Total(r) * SampleSize[ch] = r.shots * k /\ r.shots \in Nat \ {0}
               /\ block.addr \in Nat /\ StartAddr[ch] <= block.addr /\ block.addr <= EndMem(ch)
               /\ \/ block.addr = AcqStart(ch) + StoredAt(c, x)
                  \/ block.addr = AcqStart(ch) + StoredAt(c, x) - Ring(ch)
               /\ r.shots # 1 => block.off = 0 /\ x % k = 0
  <1> DEFINE r == cl[c].req
             ch == r.chan
             b == cl[c].blk
             D == b * BlockSize
             x == D + Len(block.data)
             k == ShotUnits(r)
             size == ReplySize(ch, b)
             t == Total(r) * SampleSize[ch]
  <1>1. CoreTypes /\ ClientTypes /\ Prepared(c) /\ Fits(c)
    BY DEF ReadsFor, Readable
  <1>2. b \in Nat /\ block \in Block /\ hist[c].units \in Nat
    BY <1>1 DEF ClientTypes, Client, Hist
  <1>3. Len(block.data) \in Nat /\ block.addr \in Int
    BY <1>2 DEF Block
  <1>4. /\ block.chan = ch /\ block.n = b /\ BlockCode(ch, b) = ACQ_OK /\ ShotSamples(params[ch]) # 0
        /\ Len(block.data) < size
        /\ StartAddr[ch] <= block.addr /\ block.addr <= EndMem(ch)
        /\ \/ block.addr = AcqStart(ch) + StoredAt(c, x)
           \/ block.addr = AcqStart(ch) + StoredAt(c, x) - Ring(ch)
        /\ r.shots # 1 => block.off = 0 /\ x % k = 0
    BY DEF ReadsFor, BlockSoFar
  <1>5. size \in Nat \ {0} /\ D \in Nat /\ D + size <= t
    BY <1>1, <1>2, <1>4, BlockFacts
  <1>6. t = r.shots * k /\ r.shots \in Nat \ {0} /\ k \in Nat /\ ch \in Chans
    BY <1>1, PreparedFacts
  <1>7. t \in Nat
    BY <1>6
  <1> HIDE DEF D, size, t
  <1>8. x \in Nat /\ x < t
    BY <1>3, <1>4, <1>5, <1>7
  <1> HIDE DEF x
  <1>9. /\ k \in Nat \ {0} /\ x % k \in 0..(k - 1)
        /\ StoredAt(c, x) \in Nat /\ StoredAt(c, x) + (k - (x % k)) <= hist[c].units
    BY <1>1, <1>8, StoredFacts DEF t
  <1>10. block.addr \in Nat /\ hist[c].units <= Ring(ch)
    <2>1. StartAddr[ch] \in Nat
      BY <1>6, RingFacts
    <2> QED
      BY <1>1, <1>3, <1>4, <2>1 DEF Fits
  <1> QED
    BY <1>2, <1>3, <1>4, <1>5, <1>6, <1>8, <1>9, <1>10 DEF x, D, size, t

\* A chunk ends with the block, the shot or the ring.
LEMMA ChunkFacts ==
    ASSUME NEW c \in Clients, ReadsFor(c)
    PROVE  LET r == cl[c].req
               x == cl[c].blk * BlockSize + Len(block.data)
               k == ShotUnits(r)
           IN  /\ ChunkSize \in Nat /\ block.addr + ChunkSize <= EndMem(r.chan)
               /\ (x % k) + ChunkSize <= k
               /\ Len(block.data) + ChunkSize <= ReplySize(r.chan, cl[c].blk)
               /\ r.shots # 1 => ChunkSize = k
  <1> DEFINE r == cl[c].req
             ch == r.chan
             b == cl[c].blk
             D == b * BlockSize
             len == Len(block.data)
             x == D + len
             k == ShotUnits(r)
             size == ReplySize(ch, b)
             F == AcqStart(ch)
             J == StoredAt(c, x)
             p == params[ch]
  <1>1. /\ b \in Nat /\ ch \in Chans /\ block.chan = ch /\ block.n = b
        /\ len \in Nat /\ len < size /\ size \in Nat \ {0} /\ D \in Nat
        /\ D + size <= r.shots * k
        /\ x \in Nat /\ x < r.shots * k /\ k \in Nat \ {0}
        /\ x % k \in 0..(k - 1) /\ J \in Nat /\ J + (k - (x % k)) <= hist[c].units
        /\ hist[c].units \in Nat /\ hist[c].units <= Ring(ch)
        /\ block.addr \in Nat /\ StartAddr[ch] <= block.addr /\ block.addr <= EndMem(ch)
        /\ (block.addr = F + J \/ block.addr = F + J - Ring(ch))
        /\ r.shots # 1 => block.off = 0 /\ x % k = 0
    BY ReadFacts
  <1>2. /\ StartAddr[ch] \in Nat /\ EndMem(ch) \in Nat /\ Ring(ch) \in Nat \ {0}
        /\ EndMem(ch) = StartAddr[ch] + Ring(ch)
    BY <1>1, RingFacts
  <1>5. /\ len \in Nat /\ size \in Nat /\ D \in Nat /\ k \in Nat \ {0} /\ x \in Nat
        /\ len < size /\ x % k \in 0..(k - 1) /\ x = D + len
    BY <1>1
  <1>6. /\ J \in Nat /\ J < Ring(ch) /\ J + (k - (x % k)) <= Ring(ch) /\ block.addr \in Nat
        /\ StartAddr[ch] <= block.addr
        /\ (block.addr = F + J \/ block.addr = F + J - Ring(ch))
    <2> DEFINE w == x % k
               u == hist[c].units
    <2>1. w \in 0..(k - 1) /\ J \in Nat /\ J + (k - w) <= u /\ u \in Nat /\ u <= Ring(ch)
      BY <1>1
    <2>2. k \in Nat /\ Ring(ch) \in Nat
      BY <1>1, <1>2
    <2>3. /\ block.addr \in Nat /\ StartAddr[ch] <= block.addr
          /\ (block.addr = F + J \/ block.addr = F + J - Ring(ch))
      BY <1>1
    <2> HIDE DEF J, x, F, k, w, u
    <2>4. J < Ring(ch) /\ J + (k - w) <= Ring(ch)
      BY <2>1, <2>2
    <2> QED
      BY <2>1, <2>3, <2>4 DEF w
  <1>3. CASE r.shots = 1
    <2>1. p.shots = 1
      BY <1>3 DEF ReadsFor, Readable, Prepared
    <2>2. ChunkSize = IF size - len > EndMem(ch) - block.addr THEN EndMem(ch) - block.addr ELSE size - len
      BY <1>1, <2>1 DEF ChunkSize
    <2>3. r.shots * k = k /\ D + size <= k /\ x < k
      BY <1>1, <1>3
    <2>4. x % k = x
      <3> HIDE DEF x, k
      <3>1. k \in Nat \ {0} /\ x \in 0..(k - 1)
        BY <1>1, <2>3
      <3> QED
        BY <3>1, DivSmall, Zenon
    <2>5. x = D + len
      OBVIOUS
    <2> HIDE DEF x, D, len, k, size
    <2>6. ChunkSize \in Nat /\ ChunkSize <= size - len /\ block.addr + ChunkSize <= EndMem(ch)
      BY <1>1, <1>2, <2>2
    <2>7. (x % k) + ChunkSize <= k
      BY <1>1, <2>3, <2>4, <2>5, <2>6
    <2>8. len + ChunkSize <= size
      BY <1>5, <2>6
    <2> QED
      BY <1>3, <2>6, <2>7, <2>8 DEF x, D, len, k, size
  <1>4. CASE r.shots # 1
    <2>1. p.shots = r.shots /\ ShotSamples(p) = r.pre + r.post /\ r.pre + r.post \in Nat
          /\ k = (r.pre + r.post) * SampleSize[ch]
      BY PreparedFacts DEF ReadsFor, Readable
    <2>2. ChunkSize = k
      <3>1. ChunkSize = (ShotSamples(p) - block.off) * SampleSize[ch]
        BY <1>1, <1>4, <2>1 DEF ChunkSize
      <3>2. block.off = 0
        BY <1>1, <1>4
      <3> QED
        BY <2>1, <3>1, <3>2
    <2>3. F = StartAddr[ch]
      BY <1>4, StartInRing DEF ReadsFor
    <2>4. block.addr + k <= EndMem(ch)
      <3> HIDE DEF F, J, k, x
      <3>1. block.addr = F + J
        BY <1>2, <1>6, <2>3
      <3>2. x % k = 0
        BY <1>1, <1>4 DEF x, k
      <3>3. J + k <= Ring(ch) /\ J \in Nat /\ k \in Nat
        <4>1. J + (k - (x % k)) <= Ring(ch) /\ J \in Nat /\ k \in Nat
          BY <1>5, <1>6
        <4>2. k - (x % k) = k
          BY <1>5, <3>2
        <4> QED
          BY <4>1, <4>2
      <3>4. block.addr = StartAddr[ch] + J
        BY <2>3, <3>1
      <3> QED
        BY <1>2, <3>3, <3>4
    <2>5. len + k <= size
      <3>1. D % k = 0 /\ size % k = 0
        BY <1>4, WholeShots DEF ReadsFor, Readable, BlockSoFar, Sound, ClientTypes, Client
      <3>2. x % k = 0 /\ x = D + len
        BY <1>1, <1>4
      <3> HIDE DEF D, len, x, k, size
      <3>10. len = x - D /\ x \in Int /\ D \in Int /\ len \in Int /\ size \in Int
        BY <1>5, <3>2
      <3>3. (x - D) % k = 0
        BY <1>5, <3>1, <3>2, <3>10, ModSum
      <3>4. len % k = 0
        BY <3>3, <3>10
      <3>5. (size - len) % k = 0
        BY <1>5, <3>1, <3>4, <3>10, ModSum
      <3> DEFINE g == size - len
                 q == g \div k
      <3>6. g \in Nat \ {0} /\ g % k = 0
        BY <1>1, <3>5
      <3> HIDE DEF g
      <3>7. q \in Int /\ g = k * q
        BY <1>1, <3>6, DivMod
      <3> HIDE DEF q
      <3>8. q >= 1
        <4>1. ASSUME q <= 0 PROVE FALSE
          <5>1. k * q <= 0
            BY <1>1, <3>7, <4>1
          <5> QED
            BY <3>6, <3>7, <5>1
        <4> QED
          BY <3>7, <4>1
      <3>9. k * q >= k
        BY <1>1, <3>7, <3>8
      <3> QED
        BY <1>1, <3>7, <3>9 DEF g
    <2> QED
      BY <1>1, <1>4, <2>2, <2>4, <2>5
  <1> QED
    BY <1>3, <1>4

-----------------------------------------------------------------------------
(* One chunk of a block. *)

\* A chunk holds the next units of the client's request.
LEMMA UnitsRead ==
    ASSUME NEW c \in Clients, ReadsFor(c), NEW at \in Ways
    PROVE  LET x == cl[c].blk * BlockSize + Len(block.data) IN
           /\ ReadMem(at) \in Seq(Unit) /\ Len(ReadMem(at)) = ChunkSize
           /\ \A i \in 1..ChunkSize : ReadMem(at)[i] = <<hist[c].id, StoredAt(c, x + i - 1)>>
  <1> DEFINE r == cl[c].req
             ch == r.chan
             x == cl[c].blk * BlockSize + Len(block.data)
             k == ShotUnits(r)
             n == ChunkSize
             F == AcqStart(ch)
             J == StoredAt(c, x)
             u == hist[c].units
             w == x % k
  <1>1. /\ n \in Nat /\ block.addr + n <= EndMem(ch) /\ w + n <= k
    BY ChunkFacts
  <1>2. /\ x \in Nat /\ x < Total(r) * SampleSize[ch] /\ k \in Nat \ {0} /\ w \in 0..(k - 1)
        /\ J \in Nat /\ J + (k - w) <= u /\ u \in Nat /\ ch \in Chans
        /\ block.addr \in Nat /\ StartAddr[ch] <= block.addr
        /\ (block.addr = F + J \/ block.addr = F + J - Ring(ch))
    BY ReadFacts
  <1>3. at = [i \in 1..n |-> block.addr + i - 1]
    BY <1>1, <1>2, WaysAreOne
  <1>4. /\ Readable(c) /\ CoreTypes /\ ClientTypes /\ Prepared(c)
    BY DEF ReadsFor, Readable
  <1>5. ReadMem(at) \in Seq(Unit)
    BY <1>4, ChunkIsSeq
  <1>6. DOMAIN ReadMem(at) = 1..n /\ Len(ReadMem(at)) = n
    <2>1. DOMAIN ReadMem(at) = 1..n
      BY <1>3 DEF ReadMem
    <2> QED
      BY <1>1, <1>5, <2>1
  <1>7. \A i \in Nat : w + i < k => StoredAt(c, x + i) = J + i
    <2> HIDE DEF w, J, x, k
    <2> QED
      BY <1>2, <1>4, StoredFacts DEF w, k, J
  <1>8. /\ StartAddr[ch] \in Nat /\ EndMem(ch) \in Nat /\ Ring(ch) \in Nat /\ F \in Nat
        /\ EndMem(ch) = StartAddr[ch] + Ring(ch)
    <2>1. F \in StartAddr[ch]..(EndMem(ch) - 1)
      BY <1>4, StartInRing
    <2> HIDE DEF F
    <2>2. ch \in Chans
      BY <1>2
    <2>3. /\ StartAddr[ch] \in Nat /\ EndMem(ch) \in Nat /\ Ring(ch) \in Nat
          /\ EndMem(ch) = StartAddr[ch] + Ring(ch)
      BY <2>2, RingFacts
    <2> QED
      BY <2>1, <2>3
  <1> HIDE DEF x, k, n, F, J, u, w
  <1>9. ASSUME NEW i \in 1..n
        PROVE  ReadMem(at)[i] = <<hist[c].id, StoredAt(c, x + i - 1)>>
    <2> DEFINE a == block.addr + i - 1
               j == J + (i - 1)
    <2>1. i - 1 \in Nat /\ w + (i - 1) < k
      BY <1>1, <1>2
    <2>2. StoredAt(c, x + i - 1) = j
      <3>1. x + i - 1 = x + (i - 1)
        BY <1>2
      <3> QED
        BY <1>7, <2>1, <3>1
    <2>3. j \in 0..(u - 1)
      BY <1>2, <2>1
    <2>4. a \in StartAddr[ch]..(EndMem(ch) - 1)
      BY <1>1, <1>2, <1>8
    <2>5. a = F + j \/ a = F + j - Ring(ch)
      BY <1>2, <1>8, <2>1
    <2> HIDE DEF a, j
    <2>6. a \in DOMAIN mem /\ mem[a] = <<hist[c].id, j>>
      BY <1>4, <2>3, <2>4, <2>5, MemAt DEF u, F
    <2>7. ReadMem(at)[i] = IF a \in DOMAIN mem THEN mem[a] ELSE <<0, 0>>
      BY <1>3 DEF ReadMem, a
    <2> QED
      BY <2>2, <2>6, <2>7
  <1> QED
    BY <1>5, <1>6, <1>9 DEF x, n

\* The next chunk begins where the next unit is stored, at the beginning of the ring again if this one
\* ended with the ring.
LEMMA NextChunk ==
    ASSUME NEW c \in Clients, ReadsFor(c),
           Len(block.data) + ChunkSize < ReplySize(cl[c].req.chan, cl[c].blk)
    PROVE  LET r == cl[c].req
               ch == r.chan
               p == params[ch]
               x == cl[c].blk * BlockSize + (Len(block.data) + ChunkSize)
               jump == IF p.shots = 1 THEN 0
                       ELSE (ShotAligned(p) - ShotSamples(p)) * SampleSize[ch]
               a == NextAddr(block.addr + ChunkSize + jump)
           IN  /\ a \in Int /\ StartAddr[ch] <= a /\ a <= EndMem(ch)
               /\ a = AcqStart(ch) + StoredAt(c, x) \/ a = AcqStart(ch) + StoredAt(c, x) - Ring(ch)
               /\ r.shots # 1 => x % ShotUnits(r) = 0
  <1> DEFINE r == cl[c].req
             ch == r.chan
             p == params[ch]
             D == cl[c].blk * BlockSize
             len == Len(block.data)
             x == D + len
             n == ChunkSize
             y == D + (len + n)
             k == ShotUnits(r)
             F == AcqStart(ch)
             J == StoredAt(c, x)
             u == hist[c].units
             w == x % k
             size == ReplySize(ch, cl[c].blk)
             t == Total(r) * SampleSize[ch]
             al == u \div r.shots
             jump == IF p.shots = 1 THEN 0 ELSE (ShotAligned(p) - ShotSamples(p)) * SampleSize[ch]
             a == block.addr + n + jump
             E == EndMem(ch)
             S == StartAddr[ch]
             R == Ring(ch)
  <1>1. /\ n \in Nat /\ block.addr + n <= E /\ w + n <= k /\ (r.shots # 1 => n = k)
    BY ChunkFacts
  <1>2. /\ x \in Nat /\ x < t /\ k \in Nat \ {0} /\ w \in 0..(k - 1)
        /\ J \in Nat /\ J + (k - w) <= u /\ u \in Nat /\ u <= R /\ ch \in Chans
        /\ block.addr \in Nat /\ S <= block.addr /\ block.chan = ch
        /\ (block.addr = F + J \/ block.addr = F + J - R)
        /\ t = r.shots * k /\ r.shots \in Nat \ {0}
        /\ D \in Nat /\ len \in Nat /\ size \in Nat /\ D + size <= t
        /\ (r.shots # 1 => w = 0)
    BY ReadFacts
  <1>3. /\ CoreTypes /\ ClientTypes /\ Prepared(c)
    BY DEF ReadsFor, Readable
  <1>4. /\ S \in Nat /\ E \in Nat /\ R \in Nat /\ E = S + R
        /\ F \in S..(E - 1) /\ (r.shots # 1 => F = S)
    <2>1. F \in S..(E - 1) /\ (r.shots # 1 => F = S)
      BY StartInRing DEF ReadsFor
    <2> HIDE DEF F
    <2>2. ch \in Chans
      BY <1>2
    <2>3. S \in Nat /\ E \in Nat /\ R \in Nat /\ E = S + R
      BY <2>2, RingFacts
    <2> QED
      BY <2>1, <2>3
  <1>5. \A i \in Nat : w + i < k => StoredAt(c, x + i) = J + i
    <2> HIDE DEF w, J, x, k
    <2> QED
      BY <1>2, <1>3, StoredFacts DEF w, k, J, t
  <1>6. w = 0 => StoredAt(c, x + k) = J + al /\ (x + k) % k = 0
    <2> HIDE DEF J, x, k
    <2> QED
      BY <1>2, <1>3, StoredFacts DEF w, k, J, t
  <1>11. /\ t \in Nat /\ D \in Nat /\ len \in Nat /\ size \in Nat /\ D + size <= t
         /\ n \in Nat /\ len + n < size
    <2>1. t \in Nat
      <3>1. t = r.shots * k /\ r.shots \in Nat /\ k \in Nat
        BY <1>2
      <3> HIDE DEF t, k
      <3> QED
        BY <3>1
    <2>2. D \in Nat /\ len \in Nat /\ size \in Nat /\ D + size <= t
      BY <1>2
    <2> QED
      BY <1>1, <2>1, <2>2
  <1>7. y = x + n /\ y \in Nat /\ y < t
    <2> HIDE DEF D, len, n, size, t
    <2> QED
      BY <1>11
  <1>12. /\ x \in Nat /\ k \in Nat \ {0} /\ w \in 0..(k - 1) /\ J \in Nat /\ J + (k - w) <= u
         /\ u \in Nat /\ u <= R /\ block.addr \in Nat /\ S <= block.addr
         /\ (block.addr = F + J \/ block.addr = F + J - R)
         /\ n \in Nat /\ block.addr + n <= E /\ w + n <= k
    BY <1>1, <1>2
  <1>8. NextAddr(a) = IF a >= E THEN S + (E - a) ELSE a
    BY <1>2 DEF NextAddr
  <1>9. CASE r.shots = 1
    <2>1. p.shots = 1 /\ jump = 0
      BY <1>3, <1>9 DEF Prepared
    <2>2. t = k
      BY <1>2, <1>9
    <2>9. x < k /\ y < k
      BY <1>2, <1>7, <2>2
    <2>3. w = x
      <3> HIDE DEF x, k
      <3>1. 0 \in Int /\ x \in Int /\ x \in 0..(k - 1) /\ x = k * 0 + x /\ k \in Nat \ {0}
        BY <1>12, <2>9
      <3>2. x % k = x
        BY <3>1, DivUnique
      <3> QED
        BY <3>2 DEF w
    <2> HIDE DEF x, y, k, J, w, t, n, jump, F, E, S, R, u
    <2>4. StoredAt(c, y) = J + n
      <3>1. w + n < k
        BY <1>7, <1>12, <2>3, <2>9
      <3> QED
        BY <1>5, <1>7, <1>12, <3>1
    <2>5. a = block.addr + n
      BY <1>12, <2>1
    <2>6. J + n < R
      BY <1>12, <1>7, <1>4, <2>3, <2>9
    <2> HIDE DEF a
    <2>7. a \in Nat /\ a <= E /\ S <= a /\ (a = F + (J + n) \/ a = F + (J + n) - R)
      BY <1>12, <1>4, <2>5
    <2>8. /\ NextAddr(a) \in Int /\ S <= NextAddr(a) /\ NextAddr(a) <= E
          /\ NextAddr(a) = F + (J + n) \/ NextAddr(a) = F + (J + n) - R
      BY <1>12, <1>4, <1>8, <2>6, <2>7
    <2>10. /\ NextAddr(a) \in Int /\ S <= NextAddr(a) /\ NextAddr(a) <= E
           /\ NextAddr(a) = F + StoredAt(c, y) \/ NextAddr(a) = F + StoredAt(c, y) - R
      BY <2>4, <2>8
    <2> QED
      BY <1>9, <2>10 DEF a, y, F, E, S, R, jump, n
  <1>10. CASE r.shots # 1
    <2>1. n = k /\ w = 0 /\ F = S
      BY <1>1, <1>2, <1>4, <1>10
    <2>2. jump = al - k /\ al \in Nat
      <3> DEFINE s == SampleSize[ch]
                 A == p.preAligned + p.postAligned
                 h == r.pre + r.post
      <3>1. /\ p.shots = r.shots /\ ShotAligned(p) = A /\ ShotSamples(p) = h /\ al = A * s /\ k = h * s
            /\ h \in Nat /\ s \in Nat /\ p \in Param /\ al \in Nat
        BY <1>3, PreparedFacts
      <3>2. A \in Nat
        <4>1. p \in Param
          BY <3>1
        <4> HIDE DEF p
        <4>2. p.preAligned \in Nat /\ p.postAligned \in Nat
          BY <4>1 DEF Param
        <4> QED
          BY <4>2
      <3>3. jump = (A - h) * s
        BY <1>10, <3>1
      <3> HIDE DEF A, h, s, al, jump
      <3>4. (A - h) * s = A * s - h * s
        BY <3>1, <3>2
      <3> QED
        BY <3>1, <3>3, <3>4
    <2>3. StoredAt(c, y) = J + al /\ y % k = 0
      BY <1>6, <1>7, <2>1
    <2>4. StoredAt(c, y) < u
      <3>1. k \in Nat \ {0} /\ y % k \in 0..(k - 1) /\ StoredAt(c, y) \in Nat
            /\ StoredAt(c, y) + (k - (y % k)) <= u
        <4> HIDE DEF y
        <4> QED
          BY <1>3, <1>7, StoredFacts DEF t
      <3> DEFINE z == StoredAt(c, y)
                 v == y % k
      <3>4. k \in Nat /\ u \in Nat
        BY <1>12
      <3> HIDE DEF z, v, k, u
      <3>2. v \in 0..(k - 1) /\ z \in Nat /\ z + (k - v) <= u
        BY <3>1 DEF z, v
      <3>3. z < u
        BY <3>2, <3>4
      <3> QED
        BY <3>3 DEF z
    <2> HIDE DEF x, y, k, J, w, t, n, jump, F, E, S, R, u, al
    <2>5. block.addr = F + J
      BY <1>12, <1>4, <2>1
    <2>6. a = S + (J + al) /\ J + al < R /\ J + al \in Nat
      <3>1. S \in Nat /\ J \in Nat /\ al \in Nat /\ k \in Nat /\ u \in Nat /\ u <= R /\ R \in Nat
        BY <1>12, <1>4, <2>2
      <3>2. a = (S + J) + k + (al - k)
        BY <2>1, <2>2, <2>5
      <3>3. J + al < u
        BY <2>3, <2>4
      <3>4. J + al \in Nat
        BY <3>1
      <3>5. J + al < R
        BY <3>1, <3>3
      <3> HIDE DEF a
      <3>6. a = S + (J + al)
        BY <3>1, <3>2
      <3> QED
        BY <3>4, <3>5, <3>6
    <2> HIDE DEF a
    <2>7. NextAddr(a) = a /\ a < E /\ S <= a /\ a \in Nat
      <3>1. S \in Nat /\ E \in Nat /\ R \in Nat /\ E = S + R
        BY <1>4
      <3>2. J + al \in Nat /\ a = S + (J + al) /\ J + al < R
        BY <2>6
      <3>3. a < E
        BY <3>1, <3>2
      <3>4. S <= a
        BY <3>1, <3>2
      <3>5. a \in Nat
        BY <3>1, <3>2
      <3>6. NextAddr(a) = a
        <4>1. ~(a >= E)
          BY <3>1, <3>3, <3>5
        <4> QED
          BY <1>8, <4>1, Zenon
      <3> QED
        BY <3>3, <3>4, <3>5, <3>6
    <2>8. /\ NextAddr(a) \in Int /\ S <= NextAddr(a) /\ NextAddr(a) <= E
          /\ NextAddr(a) = F + StoredAt(c, y)
      <3>1. E \in Nat /\ a <= E
        BY <1>4, <2>7
      <3>2. S + (J + al) = F + StoredAt(c, y)
        BY <2>1, <2>3
      <3> QED
        BY <2>6, <2>7, <3>1, <3>2
    <2> QED
      BY <1>10, <2>3, <2>8 DEF a, y, F, E, S, R, jump, n, k
  <1> QED
    BY <1>9, <1>10

-----------------------------------------------------------------------------
(* Acquisitions: the memory is prepared, filled and read by their owners. *)

\* The SMIO and the core know client c's acquisition as long as nobody disturbed it.
OwnedBy(c) ==
    Live(c) => Prepared(c) /\ (~hist[c].known => Current(c)) /\ (hist[c].known => Known(c))

\* The invariant about memory: every acquisition that was left alone is still where its
\* client will read it.
MemInv == AInv /\ Basic /\ \A c \in Clients : OwnedBy(c)

-----------------------------------------------------------------------------
(* Whose samples the memory holds. *)

\* What the history of a client is compared with stays as it is.
SameHist(d) ==
    /\ cl'[d].req = cl[d].req
    /\ hist'[d].id = hist[d].id /\ hist'[d].units = hist[d].units
    /\ hist'[d].known = hist[d].known /\ hist'[d].disturbed = hist[d].disturbed

\* What the core acquired, or is to acquire, stays as it is.
SameCore ==
    /\ params' = params /\ curr' = curr /\ mem' = mem /\ nacq' = nacq
    /\ fpga'.id = fpga.id /\ fpga'.chan = fpga.chan /\ fpga'.pre = fpga.pre /\ fpga'.post = fpga.post
    /\ fpga'.shots = fpga.shots /\ fpga'.done = fpga.done /\ fpga'.trigPos = fpga.trigPos
    /\ fpga'.state = fpga.state \/ fpga'.state = "idle"

\* A client whose acquisition, channel and history stay as they are.
LEMMA OwnedStays ==
    ASSUME NEW d \in Clients, OwnedBy(d), SameCore, SameHist(d)
    PROVE  OwnedBy(d)'
  <1>1. Live(d)' => Live(d)
    BY DEF SameHist, Live
  <1>2. Fits(d)' <=> Fits(d)
    BY DEF SameHist, Fits
  <1>3. Prepared(d) => Prepared(d)'
    BY DEF SameHist, SameCore, Prepared
  <1>4. Current(d) => Current(d)'
    <2>1. ASSUME Current(d), fpga'.done, Fits(d)' PROVE MemHolds(d, fpga.trigPos)'
      <3>1. MemHolds(d, fpga.trigPos) /\ fpga'.trigPos = fpga.trigPos
        BY <1>2, <2>1 DEF Current, SameCore
      <3> QED
        BY <3>1 DEF SameHist, SameCore, MemHolds
    <2> QED
      BY <2>1 DEF Current, SameHist, SameCore
  <1>5. Known(d) => Known(d)'
    <2>1. ASSUME Known(d), Fits(d)' PROVE MemHolds(d, params[cl[d].req.chan].trig)'
      <3>1. MemHolds(d, params[cl[d].req.chan].trig)
        BY <1>2, <2>1 DEF Known
      <3> QED
        BY <3>1 DEF SameHist, SameCore, MemHolds
    <2> QED
      BY <2>1 DEF Known, SameHist, SameCore
  <1> QED
    BY <1>1, <1>3, <1>4, <1>5 DEF OwnedBy, SameHist

\* A step after which every client has the acquisition it had, or none.
LEMMA QuietOwned ==
    ASSUME MemInv, SameCore,
           \A d \in Clients : (SameHist(d) \/ hist'[d].id = 0) /\ (hist'[d].ready => hist'[d].known)
    PROVE  Basic' /\ \A d \in Clients : OwnedBy(d)'
  <1>1. Basic'
    <2>1. fpga'.chan = curr' /\ (fpga'.done => fpga'.state = "idle") /\ DOMAIN mem' = 0..(MemTop - 1)
      BY DEF MemInv, Basic, SameCore
    <2>2. ASSUME NEW d \in Clients PROVE hist'[d].id <= nacq'
      <3>1. hist[d].id <= nacq /\ nacq' = nacq /\ nacq \in Nat
        BY DEF MemInv, Basic, SameCore, AInv, CoreTypes
      <3>2. SameHist(d) \/ hist'[d].id = 0
        OBVIOUS
      <3>3. CASE SameHist(d)
        BY <3>1, <3>3 DEF SameHist
      <3>4. CASE hist'[d].id = 0
        BY <3>1, <3>4
      <3> QED
        BY <3>2, <3>3, <3>4
    <2>3. \A d \in Clients : hist'[d].ready => hist'[d].known
      OBVIOUS
    <2> QED
      BY <2>1, <2>2, <2>3 DEF Basic
  <1>2. ASSUME NEW d \in Clients PROVE OwnedBy(d)'
    <2>1. CASE SameHist(d)
      BY <2>1, OwnedStays DEF MemInv
    <2>2. CASE hist'[d].id = 0
      BY <2>2 DEF OwnedBy, Live
    <2>3. SameHist(d) \/ hist'[d].id = 0
      OBVIOUS
    <2> QED
      BY <2>1, <2>2, <2>3
  <1> QED
    BY <1>1, <1>2

\* An acquisition that is accepted: the core is prepared for it, and the others that are
\* not disturbed are known and in other memory.
LEMMA AcquireOwned ==
    ASSUME MemInv, AInv', NEW c \in Clients, NEW r \in Requests[c], AcqFull(c, r),
           DataAcquireCode(r) = ACQ_OK
    PROVE  Basic' /\ \A d \in Clients : OwnedBy(d)'
  <1> DEFINE p == [params[r.chan] EXCEPT !.pre = r.pre, !.post = r.post, !.shots = r.shots,
                       !.preAligned = AlignedPre(r), !.postAligned = AlignedPost(r)]
             u == (AlignedPre(r) + AlignedPost(r)) * r.shots * SampleSize[r.chan]
             s == SampleSize[r.chan]
  <1>1. r \in Reqs /\ CoreTypes /\ ClientTypes /\ Basic
    BY DEF Reqs, MemInv, AInv
  <1>2. r.chan \in Chans /\ r.pre \in Nat /\ r.post \in Nat /\ r.shots \in Nat /\ r.shots >= 1
    BY <1>1, AcceptedFacts, ReqFacts
  <1>3. /\ params' = [params EXCEPT ![r.chan] = p] /\ curr' = r.chan /\ nacq' = nacq + 1
        /\ mem' = mem /\ fpga'.id = nacq + 1 /\ fpga'.chan = r.chan /\ ~fpga'.done
        /\ fpga'.pre = AlignedPre(r) /\ fpga'.post = AlignedPost(r)
        /\ fpga'.shots = r.shots % ShotsMod
    BY <1>1 DEF AcqFull, DataAcquire, CoreTypes, Core
  <1>4. /\ cl'[c].req = r /\ hist'[c].id = nacq + 1 /\ hist'[c].units = u
        /\ hist'[c].known = FALSE /\ hist'[c].ready = FALSE
    <2>1. cl'[c].req = r
      BY <1>1 DEF AcqFull, ClientTypes, NewClient
    <2>2. hist'[c] = [NoHist EXCEPT !.id = nacq + 1, !.units = u]
      BY DEF AcqFull, Started
    <2> HIDE DEF u
    <2> QED
      BY <2>1, <2>2 DEF NoHist
  <1>5. ASSUME NEW d \in Clients \ {c}
        PROVE  /\ cl'[d] = cl[d] /\ hist'[d].id = hist[d].id /\ hist'[d].units = hist[d].units
               /\ hist'[d].known = hist[d].known /\ hist'[d].ready = hist[d].ready
               /\ hist'[d].disturbed = (hist[d].disturbed
                    \/ (hist[d].id # 0 /\ (~hist[d].known \/ SharesMemory(cl[d].req.chan, r.chan))))
    BY <1>1 DEF AcqFull, Started, ClientTypes, Hist
  <1>6. nacq \in Nat
    BY <1>1 DEF CoreTypes
  <1>7. Basic'
    <2>1. ASSUME NEW d \in Clients PROVE hist'[d].id <= nacq' /\ (hist'[d].ready => hist'[d].known)
      <3>1. CASE d = c
        BY <1>3, <1>4, <1>6, <3>1
      <3>2. CASE d # c
        <4>1. hist[d].id <= nacq /\ (hist[d].ready => hist[d].known) /\ hist[d].id \in Nat
          BY <1>1 DEF Basic, ClientTypes, Hist
        <4> QED
          BY <1>3, <1>5, <1>6, <3>2, <4>1
      <3> QED
        BY <3>1, <3>2
    <2> QED
      BY <1>1, <1>3, <2>1 DEF Basic
  <1>8. params' \in [Chans -> Param] /\ params'[r.chan] = p
    BY <1>1, <1>2, <1>3 DEF CoreTypes, AInv
  <1>9. /\ p.pre = r.pre /\ p.post = r.post /\ p.shots = r.shots
        /\ p.preAligned = AlignedPre(r) /\ p.postAligned = AlignedPost(r)
    BY <1>1, <1>2 DEF CoreTypes, Param
  <1>10. OwnedBy(c)'
    <2>1. AlignedPre(r) > 0 /\ AlignedPre(r) \in Nat /\ AlignedPre(r) >= r.pre /\ AlignedPost(r) >= r.post
          /\ (AlignedPre(r) - r.pre) * s = Lead(r)
      <3>1. /\ AlignedPre(r) \in Nat /\ AlignedPre(r) >= r.pre /\ AlignedPost(r) >= r.post
        BY <1>1, <1>2, AlignedFacts
      <3>2. Alignment(r.chan) \in Nat \ {0} /\ s \in Nat \ {0} /\ Alignment(r.chan) * s = Payload
        <4>1. Alignment(r.chan) \in Nat \ {0} /\ s \in Nat \ {0} /\ Payload \in Nat /\ Payload % s = 0
              /\ Alignment(r.chan) = Payload \div s
          BY <1>2, ChannelFacts, AcqAssumption DEF Alignment
        <4>2. Payload = s * (Payload \div s)
          BY <4>1, DivMod
        <4> HIDE DEF s
        <4> QED
          BY <4>1, <4>2
      <3>3. CASE r.pre = 0
        <4>1. AlignedPre(r) = Alignment(r.chan) /\ Lead(r) = Payload
          BY <3>3 DEF AlignedPre, Lead
        <4> QED
          BY <3>1, <3>2, <3>3, <4>1
      <3>4. CASE r.pre # 0
        <4>1. AlignedPre(r) = AlignValue(r.pre, Alignment(r.chan))
              /\ Lead(r) = (AlignedPre(r) - r.pre) * s
          BY <3>4 DEF AlignedPre, Lead
        <4> QED
          BY <1>2, <3>1, <3>4, <4>1
      <3> QED
        BY <3>3, <3>4
    <2>2. Prepared(c)'
      <3> HIDE DEF p, u
      <3>1. hist'[c].units = (p.preAligned + p.postAligned) * r.shots * s
        BY <1>4, <1>9 DEF u
      <3> QED
        BY <1>2, <1>4, <1>8, <1>9, <2>1, <3>1 DEF Prepared
    <2>3. Current(c)'
      <3> HIDE DEF p, u
      <3> QED
        BY <1>3, <1>4, <1>8, <1>9 DEF Current
    <2> QED
      BY <1>4, <2>2, <2>3 DEF OwnedBy
  <1>11. ASSUME NEW d \in Clients \ {c} PROVE OwnedBy(d)'
    <2> SUFFICES ASSUME Live(d)' PROVE Prepared(d)' /\ hist'[d].known /\ Known(d)'
      BY DEF OwnedBy
    <2>1. Live(d) /\ hist[d].known /\ ~SharesMemory(cl[d].req.chan, r.chan)
      BY <1>5 DEF Live
    <2>2. Prepared(d) /\ Known(d) /\ hist'[d].known
      BY <1>5, <2>1 DEF MemInv, OwnedBy
    <2>3. cl[d].req.chan \in Chans
      BY <2>2 DEF Prepared
    <2>4. cl[d].req.chan # r.chan
      BY <2>1, <2>3, SharesOwn
    <2>5. params'[cl[d].req.chan] = params[cl[d].req.chan]
      <3> HIDE DEF p
      <3> QED
        BY <1>1, <1>3, <2>3, <2>4 DEF CoreTypes
    <2>6. Prepared(d)'
      BY <1>5, <2>2, <2>5 DEF Prepared
    <2>7. ASSUME Fits(d)' PROVE MemHolds(d, params[cl[d].req.chan].trig)'
      <3>1. Fits(d)
        BY <1>5, <2>7 DEF Fits
      <3>2. MemHolds(d, params[cl[d].req.chan].trig)
        BY <2>2, <3>1 DEF Known
      <3>3. mem' = mem /\ cl'[d] = cl[d] /\ hist'[d].id = hist[d].id /\ hist'[d].units = hist[d].units
        BY <1>3, <1>5
      <3> HIDE DEF p, u
      <3> QED
        BY <2>5, <3>2, <3>3 DEF MemHolds
    <2>8. Known(d)'
      BY <1>3, <1>5, <2>1, <2>7 DEF Known
    <2> QED
      BY <2>2, <2>6, <2>8
  <1> QED
    BY <1>7, <1>10, <1>11

\* The acquisition is complete: the trigger address that is read belongs to the one that was
\* current, and to the channel.
LEMMA PollOwned ==
    ASSUME MemInv, NEW c \in Clients, Poll(c), CompleteStatus = ACQ_OK
    PROVE  Basic' /\ \A d \in Clients : OwnedBy(d)'
  <1>1. /\ CoreTypes /\ ClientTypes /\ Basic
    BY DEF MemInv, AInv
  <1>2. /\ curr' = curr /\ fpga' = fpga /\ mem' = mem /\ nacq' = nacq
        /\ params' = [params EXCEPT ![curr].trig = fpga.trigPos]
    BY DEF Poll, CheckDataAcquire
  <1>3. fpga.done
    BY DEF CompleteStatus, ACQ_OK, ACQ_NOT_COMPLETED, ACQ_FC_FULL
  <1>4. ASSUME NEW e \in Chans
        PROVE  /\ params'[e].pre = params[e].pre /\ params'[e].post = params[e].post
               /\ params'[e].shots = params[e].shots
               /\ params'[e].preAligned = params[e].preAligned
               /\ params'[e].postAligned = params[e].postAligned
               /\ params'[e].trig = IF e = curr THEN fpga.trigPos ELSE params[e].trig
    BY <1>1, <1>2 DEF CoreTypes, Param
  <1>5. ASSUME NEW d \in Clients
        PROVE  /\ cl'[d].req = cl[d].req
               /\ hist'[d].id = hist[d].id /\ hist'[d].units = hist[d].units
               /\ hist'[d].disturbed = hist[d].disturbed
               /\ hist'[d].known = (hist[d].known \/ (hist[d].id # 0 /\ hist[d].id = fpga.id))
               /\ hist'[d].ready => hist[d].ready \/ hist'[d].known
    <2> DEFINE known(e) == hist[e].known \/ (hist[e].id # 0 /\ hist[e].id = fpga.id)
    <2>1. Learnt(c)
      BY DEF Poll
    <2>2. cl'[d].req = cl[d].req
      <3>1. cl' = [cl EXCEPT ![c] = IF cl[c].req.chan \in Chans THEN OpenCurve(c)
                       ELSE [cl[c] EXCEPT !.pc = "idle", !.result = "error"]]
        BY DEF Poll
      <3>2. cl[c] \in Client /\ OpenCurve(c).req = cl[c].req
        BY <1>1 DEF ClientTypes, OpenCurve, Client
      <3> QED
        BY <1>1, <3>1, <3>2 DEF ClientTypes, Client
    <2>3. hist'[d] = [hist[d] EXCEPT !.known = known(d), !.ready = IF d = c THEN known(c) ELSE @]
      BY <2>1 DEF Learnt
    <2>4. hist[d] \in Hist
      BY <1>1 DEF ClientTypes
    <2> HIDE DEF known
    <2>5. /\ hist'[d].id = hist[d].id /\ hist'[d].units = hist[d].units
          /\ hist'[d].disturbed = hist[d].disturbed /\ hist'[d].known = known(d)
          /\ hist'[d].ready = IF d = c THEN known(c) ELSE hist[d].ready
      BY <2>3, <2>4 DEF Hist
    <2>6. hist'[d].ready => hist[d].ready \/ hist'[d].known
      BY <2>5
    <2> QED
      BY <2>2, <2>5, <2>6 DEF known
  <1>6. Basic'
    <2>1. ASSUME NEW d \in Clients PROVE hist'[d].id <= nacq' /\ (hist'[d].ready => hist'[d].known)
      <3>1. hist[d].id <= nacq /\ (hist[d].ready => hist[d].known)
        BY <1>1 DEF Basic
      <3> QED
        BY <1>2, <1>5, <3>1
    <2> QED
      BY <1>1, <1>2, <2>1 DEF Basic
  <1>7. ASSUME NEW d \in Clients PROVE OwnedBy(d)'
    <2> DEFINE ch == cl[d].req.chan
    <2> SUFFICES ASSUME Live(d)' PROVE Prepared(d)' /\ hist'[d].known /\ Known(d)'
      BY DEF OwnedBy
    <2>1. Live(d) /\ Prepared(d)
      BY <1>5 DEF Live, MemInv, OwnedBy
    <2>2. ch \in Chans /\ cl'[d].req = cl[d].req
      BY <1>5, <2>1 DEF Prepared
    <2>3. Prepared(d)'
      BY <1>4, <1>5, <2>1, <2>2 DEF Prepared
    <2>4. Fits(d)' => Fits(d)
      BY <1>5 DEF Fits
    <2>5. ASSUME NEW t, MemHolds(d, t), params'[ch].trig = t
          PROVE  MemHolds(d, params[ch].trig)'
      <3>1. params'[ch].preAligned = params[ch].preAligned
        BY <1>4, <2>2
      <3>2. mem' = mem /\ hist'[d].id = hist[d].id /\ hist'[d].units = hist[d].units
        BY <1>2, <1>5
      <3> QED
        BY <2>2, <2>5, <3>1, <3>2 DEF MemHolds
    <2>6. CASE hist[d].known
      <3>1. Known(d)
        BY <2>1, <2>6 DEF MemInv, OwnedBy
      <3>2. params'[ch].trig = params[ch].trig
        <4>1. CASE curr = ch /\ fpga.trigPos = params[ch].trig
          BY <1>4, <2>2, <4>1
        <4>2. CASE ~SharesMemory(ch, curr)
          <5>1. ch # curr
            BY <2>2, <4>2, SharesOwn
          <5> QED
            BY <1>4, <2>2, <5>1
        <4> QED
          BY <3>1, <4>1, <4>2 DEF Known
      <3>3. Fits(d)' => MemHolds(d, params[ch].trig)'
        <4> SUFFICES ASSUME Fits(d)' PROVE MemHolds(d, params[ch].trig)'
          OBVIOUS
        <4>1. PICK t : t = params[ch].trig
          OBVIOUS
        <4>2. MemHolds(d, params[ch].trig)
          BY <2>4, <3>1 DEF Known
        <4>3. MemHolds(d, t)
          BY <4>1, <4>2
        <4> QED
          BY <2>5, <3>2, <4>1, <4>3
      <3>4. Known(d)'
        BY <1>2, <1>5, <2>2, <3>1, <3>2, <3>3 DEF Known
      <3>5. hist'[d].known
        BY <1>5, <2>6
      <3> QED
        BY <2>3, <3>4, <3>5
    <2>7. CASE ~hist[d].known
      <3>1. Current(d)
        BY <2>1, <2>7 DEF MemInv, OwnedBy
      <3>2. hist[d].id # 0 /\ hist[d].id = fpga.id /\ curr = ch
        BY <2>1, <3>1 DEF Live, Current
      <3>3. hist'[d].known
        BY <1>5, <3>2
      <3>4. params'[ch].trig = fpga.trigPos
        BY <1>4, <2>2, <3>2
      <3>5. Fits(d)' => MemHolds(d, params[ch].trig)'
        <4> SUFFICES ASSUME Fits(d)' PROVE MemHolds(d, params[ch].trig)'
          OBVIOUS
        <4>1. PICK t : t = fpga.trigPos
          OBVIOUS
        <4>2. MemHolds(d, fpga.trigPos)
          BY <1>3, <2>4, <3>1 DEF Current
        <4>3. MemHolds(d, t)
          BY <4>1, <4>2
        <4> QED
          BY <2>5, <3>4, <4>1, <4>3
      <3>6. Known(d)'
        BY <1>2, <1>3, <1>5, <2>2, <3>2, <3>4, <3>5 DEF Known
      <3> QED
        BY <2>3, <3>3, <3>6
    <2> QED
      BY <2>6, <2>7
  <1> QED
    BY <1>6, <1>7

\* The ring of another channel that shares no memory is left alone.
LEMMA HoldsStill ==
    ASSUME MemInv, NEW d \in Clients, Prepared(d), Fits(d), NEW t, MemHolds(d, t), NEW first,
           ~SharesMemory(cl[d].req.chan, fpga.chan), fpga.chan \in Chans, NEW j \in 0..(hist[d].units - 1),
           NEW a, a = Wrapped(cl[d].req.chan, Origin(cl[d].req.chan, t,
                          params[cl[d].req.chan].preAligned * SampleSize[cl[d].req.chan]) + j)
    PROVE  Stored(first)[a] = mem[a]
  <1> DEFINE ch == cl[d].req.chan
             size == params[ch].preAligned * SampleSize[ch]
             u == hist[d].units
             n == cl[d].req.shots
             al == u \div n
             f == Origin(ch, t, size)
             S == StartAddr[ch]
             E == EndMem(ch)
             R == Ring(ch)
  <1>1. CoreTypes /\ ClientTypes /\ DOMAIN mem = 0..(MemTop - 1)
    BY DEF MemInv, AInv, Basic
  <1>2. ch \in Chans /\ size \in Nat /\ size <= al /\ al \in Nat /\ u = n * al /\ n \in Nat \ {0}
    BY <1>1, PreparedFacts
  <1>3. u <= R /\ t \in S..(E - 1)
    BY DEF Fits, MemHolds
  <1>4. /\ S \in Nat /\ E \in Nat /\ R \in Nat \ {0} /\ E = S + R /\ E = EndAddr[ch]
        /\ E <= MemTop /\ MemTop \in Nat
    BY <1>2, RingFacts
  <1>5. /\ StartAddr[fpga.chan] \in Nat /\ EndMem(fpga.chan) \in Nat
        /\ EndMem(fpga.chan) = EndAddr[fpga.chan]
    BY RingFacts
  <1> HIDE DEF size, u, n, al, f, S, E, R
  <1>6. al <= n * al /\ u \in Nat
    BY <1>2
  <1>7. size \in 0..R
    BY <1>2, <1>3, <1>4, <1>6
  <1>8. f \in S..(E - 1)
    BY <1>2, <1>3, <1>7, OriginFacts DEF f, S, E, R
  <1>9. j \in 0..(u - 1)
    BY DEF u
  <1>10. j \in 0..(R - 1)
    BY <1>3, <1>4, <1>6, <1>9
  <1>11. a \in S..(E - 1)
    <2>1. a = Wrapped(ch, f + j)
      BY DEF f, size
    <2> QED
      BY <1>2, <1>8, <1>10, <2>1, WrappedFacts, SMTT(30) DEF S, E, R
  <1>12. a \in DOMAIN mem
    BY <1>1, <1>2, <1>11, RingsApart, Zenon DEF S, E
  <1>13. a \notin StartAddr[fpga.chan]..(EndMem(fpga.chan) - 1)
    BY <1>2, <1>11, RingsApart, Zenon DEF S, E
  <1> QED
    BY <1>12, <1>13, StoredElsewhere

\* The core is through with the acquisition of the client that started it.
LEMMA HoldsNow ==
    ASSUME MemInv, NEW d \in Clients, Prepared(d), Fits(d), Current(d),
           NEW t \in TriggerPositions
    PROVE  LET ch == cl[d].req.chan
               size == params[ch].preAligned * SampleSize[ch]
           IN  /\ fpga.pre * SampleSize[fpga.chan] = size
               /\ t \in StartAddr[ch]..(EndMem(ch) - 1)
               /\ cl[d].req.shots # 1 => t = StartAddr[ch] + size
               /\ \A j \in 0..(hist[d].units - 1) :
                     Stored(t - size)[Wrapped(ch, Origin(ch, t, size) + j)] = <<hist[d].id, j>>
  <1> DEFINE ch == cl[d].req.chan
             p == params[ch]
             s == SampleSize[ch]
             size == p.preAligned * s
             u == hist[d].units
             n == cl[d].req.shots
             al == u \div n
             S == StartAddr[ch]
             E == EndMem(ch)
             R == Ring(ch)
  <1>1. CoreTypes /\ ClientTypes /\ DOMAIN mem = 0..(MemTop - 1) /\ fpga.chan = curr
    BY DEF MemInv, AInv, Basic
  <1>2. /\ ch \in Chans /\ size \in Nat \ {0} /\ size <= al /\ al \in Nat /\ u = n * al
        /\ n \in Nat \ {0} /\ al = (p.preAligned + p.postAligned) * s /\ s \in Nat \ {0}
        /\ p \in Param
    BY <1>1, PreparedFacts
  <1>3. /\ fpga.id = hist[d].id /\ curr = ch /\ fpga.pre = p.preAligned
        /\ fpga.post = p.postAligned /\ fpga.shots = n % ShotsMod
    BY DEF Current
  <1>4. u <= R /\ n < ShotsMod /\ ShotsMod \in Nat
    BY AcqAssumption DEF Fits
  <1>5. S \in Nat /\ E \in Nat /\ R \in Nat \ {0} /\ E = S + R
    BY <1>2, RingFacts
  <1>6. fpga.shots = n
    <2> HIDE DEF n
    <2>1. 0 \in Int /\ n \in Int /\ n \in 0..(ShotsMod - 1) /\ n = ShotsMod * 0 + n
          /\ ShotsMod \in Nat \ {0}
      BY <1>2, <1>4
    <2>2. n % ShotsMod = n
      BY <2>1, DivUnique
    <2> QED
      BY <1>3, <2>2
  <1>7. AcqUnits = u
    <2>1. p.preAligned \in Nat /\ p.postAligned \in Nat
      <3> HIDE DEF p
      <3> QED
        BY <1>2 DEF Param
    <2> DEFINE A == p.preAligned + p.postAligned
    <2>2. AcqUnits = A * n * s
      BY <1>1, <1>3, <1>6 DEF AcqUnits
    <2>3. A \in Nat /\ u = n * (A * s) /\ n \in Nat /\ s \in Nat
      BY <1>2, <2>1
    <2> HIDE DEF A, n, s, u
    <2> QED
      BY <2>2, <2>3
  <1>8. fpga.pre * SampleSize[fpga.chan] = size
    BY <1>1, <1>3
  <1> HIDE DEF size, u, n, al, S, E, R, p
  <1>9. al <= n * al /\ u \in Nat /\ (n # 1 => 2 * al <= n * al)
    BY <1>2
  <1>10. size \in 0..R /\ (n # 1 => size < R)
    BY <1>2, <1>4, <1>5, <1>9
  <1>11. size % R \in 0..(R - 1) /\ (n # 1 => size % R = size)
    <2>1. size % R \in 0..(R - 1)
      <3>1. size \in Int /\ R \in Nat \ {0}
        BY <1>2, <1>5
      <3> QED
        BY <3>1, DivMod
    <2>2. ASSUME n # 1 PROVE size % R = size
      <3>1. 0 \in Int /\ size \in Int /\ size \in 0..(R - 1) /\ size = R * 0 + size
        BY <1>5, <1>10, <2>2
      <3> QED
        BY <1>5, <3>1, DivUnique
    <2> QED
      BY <2>1, <2>2
  <1>12. t = S + (size % R) \/ (n = 1 /\ t \in S..(E - 1))
    <2>1. \/ t \in {S + (size % R)}
          \/ fpga.shots = 1 /\ t \in {a \in S..(E - 1) : (a - S) % Payload = 0}
      BY <1>1, <1>3, <1>8, Zenon DEF TriggerPositions, S, E, R
    <2> QED
      BY <1>6, <2>1
  <1>13. t \in S..(E - 1) /\ (n # 1 => t = S + size)
    BY <1>5, <1>11, <1>12
  <1>14. ASSUME NEW j \in 0..(u - 1)
         PROVE  Stored(t - size)[Wrapped(ch, Origin(ch, t, size) + j)] = <<hist[d].id, j>>
    <2>1. fpga.chan = ch /\ AcqUnits \in 0..Ring(ch) /\ j \in 0..(AcqUnits - 1)
      BY <1>1, <1>3, <1>4, <1>5, <1>7, <1>9 DEF R
    <2>2. t \in StartAddr[ch]..(EndMem(ch) - 1) /\ size \in 0..Ring(ch)
      BY <1>10, <1>13 DEF S, E, R
    <2> QED
      BY <1>1, <1>2, <1>3, <2>1, <2>2, StoredHolds, SMTT(30)
  <1> QED
    BY <1>8, <1>13, <1>14 DEF size, u, n, S, E, p

\* The core stores the samples of the current acquisition, in the memory of its channel.
LEMMA CompleteOwned ==
    ASSUME MemInv, FpgaComplete, UNCHANGED <<cl, hist>>
    PROVE  Basic' /\ \A d \in Clients : OwnedBy(d)'
  <1> DEFINE pre == fpga.pre * SampleSize[fpga.chan]
  <1>1. /\ CoreTypes /\ ClientTypes /\ Basic /\ fpga \in Core /\ fpga.chan \in Chans
    BY DEF MemInv, AInv, CoreTypes, Core
  <1>2. PICK t \in TriggerPositions :
           /\ fpga' = [fpga EXCEPT !.state = "idle", !.done = TRUE, !.full = FALSE,
                                   !.trigPos = t]
           /\ mem' = Stored(t - pre)
    BY DEF FpgaComplete
  <1>3. /\ fpga.state = "acquiring" /\ params' = params /\ curr' = curr /\ nacq' = nacq
        /\ cl' = cl /\ hist' = hist
    BY DEF FpgaComplete
  <1>4. /\ fpga'.id = fpga.id /\ fpga'.chan = fpga.chan /\ fpga'.pre = fpga.pre
        /\ fpga'.post = fpga.post /\ fpga'.shots = fpga.shots /\ fpga'.done
        /\ fpga'.trigPos = t /\ fpga'.state = "idle"
    BY <1>1, <1>2 DEF Core
  <1>5. ~fpga.done
    BY <1>1, <1>3 DEF Basic
  <1>6. DOMAIN mem' = DOMAIN mem
    BY <1>2 DEF Stored
  <1>7. Basic'
    BY <1>1, <1>3, <1>4, <1>6 DEF Basic
  <1>8. ASSUME NEW d \in Clients PROVE OwnedBy(d)'
    <2> DEFINE ch == cl[d].req.chan
               size == params[ch].preAligned * SampleSize[ch]
    <2> SUFFICES ASSUME Live(d)'
                 PROVE  /\ Prepared(d)' /\ (~hist'[d].known => Current(d)')
                        /\ (hist'[d].known => Known(d)')
      BY DEF OwnedBy
    <2>1. Live(d) /\ Prepared(d)
      BY <1>3 DEF Live, MemInv, OwnedBy
    <2>2. Prepared(d)'
      BY <1>3, <2>1 DEF Prepared
    <2>3. Fits(d)' <=> Fits(d)
      BY <1>3 DEF Fits
    <2>4. CASE hist[d].known
      <3>1. Known(d)
        BY <2>1, <2>4 DEF MemInv, OwnedBy
      <3>2. ~SharesMemory(ch, curr) /\ ~SharesMemory(ch, fpga.chan)
        BY <1>1, <1>5, <3>1 DEF Known, Basic
      <3>3. ASSUME Fits(d) PROVE MemHolds(d, params[ch].trig)'
        <4>1. PICK y : y = params[ch].trig
          OBVIOUS
        <4>2. MemHolds(d, params[ch].trig)
          BY <3>1, <3>3 DEF Known
        <4>3. MemHolds(d, y)
          BY <4>1, <4>2
        <4>4. ASSUME NEW j \in 0..(hist[d].units - 1)
              PROVE  mem'[Wrapped(ch, Origin(ch, y, size) + j)] = <<hist[d].id, j>>
          <5>1. PICK a : a = Wrapped(ch, Origin(ch, y, size) + j)
            OBVIOUS
          <5>2. Stored(t - pre)[a] = mem[a]
            <6>1. PICK first : first = t - pre
              OBVIOUS
            <6>2. /\ Prepared(d) /\ Fits(d) /\ MemHolds(d, y)
                  /\ fpga.chan \in Chans /\ ~SharesMemory(ch, fpga.chan)
              BY <1>1, <2>1, <3>2, <3>3, <4>3
            <6>3. Stored(first)[a] = mem[a]
              BY <5>1, <6>2, HoldsStill, SMTT(30)
            <6> QED
              BY <6>1, <6>3
          <5>3. mem[a] = <<hist[d].id, j>>
            BY <4>3, <5>1 DEF MemHolds
          <5> QED
            BY <1>2, <5>1, <5>2, <5>3
        <4> QED
          BY <1>3, <4>1, <4>3, <4>4 DEF MemHolds
      <3>4. Known(d)'
        BY <1>3, <2>3, <3>2, <3>3 DEF Known
      <3> QED
        BY <1>3, <2>2, <2>4, <3>4
    <2>5. CASE ~hist[d].known
      <3>1. Current(d)
        BY <2>1, <2>5 DEF MemInv, OwnedBy
      <3>2. ASSUME Fits(d) PROVE MemHolds(d, fpga.trigPos)'
        <4>1. /\ pre = size
              /\ t \in StartAddr[ch]..(EndMem(ch) - 1)
              /\ cl[d].req.shots # 1 => t = StartAddr[ch] + size
              /\ \A j \in 0..(hist[d].units - 1) :
                    Stored(t - size)[Wrapped(ch, Origin(ch, t, size) + j)] = <<hist[d].id, j>>
          BY <2>1, <3>1, <3>2, HoldsNow
        <4>2. mem' = Stored(t - size)
          BY <1>2, <4>1
        <4> QED
          BY <1>3, <1>4, <4>1, <4>2 DEF MemHolds
      <3>3. Current(d)'
        BY <1>3, <1>4, <2>3, <3>1, <3>2 DEF Current
      <3> QED
        BY <1>3, <2>2, <2>5, <3>3
    <2> QED
      BY <2>4, <2>5
  <1> QED
    BY <1>7, <1>8

\* The other steps of the clients leave the acquisitions alone.
LEMMA OtherOwned ==
    ASSUME MemInv, AInv', NEW c \in Clients,
           \/ AcqGetCurve(c) \/ Control(c) \/ PollTimeout(c) \/ AskBlock(c)
           \/ ServeBlock(c) \/ ServeBlockFails(c)
           \/ Poll(c) /\ CompleteStatus # ACQ_OK
           \/ \E r \in Requests[c] : AcqFull(c, r) /\ DataAcquireCode(r) # ACQ_OK
    PROVE  Basic' /\ \A d \in Clients : OwnedBy(d)'
  <1>1. /\ CoreTypes /\ ClientTypes /\ Basic /\ fpga \in Core
        /\ \A d \in Clients : cl[d] \in Client /\ hist[d] \in Hist
    BY DEF MemInv, AInv, CoreTypes, ClientTypes
  <1> DEFINE quiet == SameCore /\ \A d \in Clients : (SameHist(d) \/ hist'[d].id = 0)
                                                    /\ (hist'[d].ready => hist'[d].known)
  <1>2. SUFFICES quiet
    BY QuietOwned
  <1>3. \A d \in Clients : hist[d].ready => hist[d].known
    BY <1>1 DEF Basic
  <1>4. CASE AcqGetCurve(c)
    <2>1. UNCHANGED <<params, curr, block, fpga, mem, nacq>>
      BY <1>4 DEF AcqGetCurve, acqVars
    <2>2. \A d \in Clients : cl'[d].req = cl[d].req
      <3>1. cl' = [cl EXCEPT ![c] = [OpenCurve(c) EXCEPT !.ops = @ + 1, !.result = "none"]]
        BY <1>4 DEF AcqGetCurve
      <3>2. [OpenCurve(c) EXCEPT !.ops = @ + 1, !.result = "none"].req = cl[c].req
        BY <1>1 DEF OpenCurve, Client
      <3> QED
        BY <1>1, <3>1, <3>2 DEF ClientTypes
    <2>3. /\ \A d \in Clients \ {c} : hist'[d] = hist[d]
          /\ hist'[c] = [hist[c] EXCEPT !.failed = FALSE, !.ready = hist[c].known]
      BY <1>1, <1>4 DEF AcqGetCurve, ClientTypes
    <2>4. /\ hist'[c].id = hist[c].id /\ hist'[c].units = hist[c].units
          /\ hist'[c].known = hist[c].known /\ hist'[c].disturbed = hist[c].disturbed
          /\ hist'[c].ready = hist[c].known
      BY <1>1, <2>3 DEF Hist
    <2> QED
      BY <1>3, <2>1, <2>2, <2>3, <2>4 DEF SameCore, SameHist
  <1>5. CASE Control(c)
    <2>1. UNCHANGED <<params, curr, block, mem, nacq, hist>>
      BY <1>5 DEF Control, CfgTrigger, SwTrig, FsmStop
    <2>2. \A d \in Clients : cl'[d].req = cl[d].req
      BY <1>1, <1>5 DEF Control, ClientTypes, Client
    <2> DEFINE same == /\ fpga'.id = fpga.id /\ fpga'.chan = fpga.chan /\ fpga'.pre = fpga.pre
                       /\ fpga'.post = fpga.post /\ fpga'.shots = fpga.shots
                       /\ fpga'.done = fpga.done /\ fpga'.trigPos = fpga.trigPos
                       /\ fpga'.state = fpga.state \/ fpga'.state = "idle"
    <2>3. same
      <3>1. ASSUME NEW x, fpga' = [fpga EXCEPT !.trigger = x] PROVE same
        BY <1>1, <3>1 DEF Core
      <3>2. CASE \E x \in TrigTypes[c] : CfgTrigger(x)
        BY <3>1, <3>2 DEF CfgTrigger
      <3>3. CASE SwTrig
        BY <1>1, <3>3 DEF SwTrig, Core
      <3>4. CASE FsmStop
        BY <1>1, <3>4 DEF FsmStop, Core
      <3> QED
        BY <1>5, <3>2, <3>3, <3>4 DEF Control
    <2> QED
      BY <1>3, <2>1, <2>2, <2>3 DEF SameCore, SameHist
  <1>6. CASE PollTimeout(c)
    <2>1. UNCHANGED <<params, curr, block, fpga, mem, nacq, hist>>
      BY <1>6 DEF PollTimeout, acqVars
    <2>2. \A d \in Clients : cl'[d].req = cl[d].req
      <3>1. cl' = [cl EXCEPT ![c] = [cl[c] EXCEPT !.pc = "idle", !.result = "timeout"]]
        BY <1>1, <1>6 DEF PollTimeout, ClientTypes
      <3> QED
        BY <1>1, <3>1 DEF ClientTypes, Client
    <2> QED
      BY <1>3, <2>1, <2>2 DEF SameCore, SameHist
  <1>7. ASSUME NEW code, NEW data PROVE BlockReply(c, code, data).req = cl[c].req
    BY <1>1 DEF BlockReply, Client
  <1>8. CASE AskBlock(c)
    <2>1. UNCHANGED <<params, curr, fpga, mem, nacq, hist>>
      BY <1>8 DEF AskBlock, GetDataBlock
    <2>2. \A d \in Clients : cl'[d].req = cl[d].req
      <3>1. [cl[c] EXCEPT !.pc = "wait"].req = cl[c].req
        BY <1>1 DEF Client
      <3> QED
        BY <1>1, <1>7, <1>8, <3>1 DEF AskBlock, ClientTypes
    <2> QED
      BY <1>3, <2>1, <2>2 DEF SameCore, SameHist
  <1>9. CASE ServeBlock(c)
    <2>1. PICK at \in Ways :
            /\ ReadChunk(at)
            /\ cl' = IF BlockDone(at)
                     THEN [cl EXCEPT ![c] = BlockReply(c, ACQ_OK, BlockData(at))] ELSE cl
      BY <1>9 DEF ServeBlock
    <2>2. UNCHANGED <<params, curr, fpga, mem, nacq, hist>>
      BY <1>9, <2>1 DEF ServeBlock, ReadChunk
    <2>3. BlockReply(c, ACQ_OK, BlockData(at)).req = cl[c].req
      BY <1>1 DEF BlockReply, Client
    <2>4. \A d \in Clients : cl'[d].req = cl[d].req
      BY <1>1, <2>1, <2>3 DEF ClientTypes
    <2> QED
      BY <1>3, <2>2, <2>4 DEF SameCore, SameHist
  <1>10. CASE ServeBlockFails(c)
    <2>1. UNCHANGED <<params, curr, fpga, mem, nacq>>
      BY <1>10 DEF ServeBlockFails, ReadFails
    <2>2. \A d \in Clients : cl'[d].req = cl[d].req
      BY <1>1, <1>7, <1>10 DEF ServeBlockFails, ClientTypes
    <2>3. /\ \A d \in Clients \ {c} : hist'[d] = hist[d]
          /\ hist'[c] = [hist[c] EXCEPT !.failed = TRUE]
      BY <1>1, <1>10 DEF ServeBlockFails, ClientTypes
    <2>4. /\ hist'[c].id = hist[c].id /\ hist'[c].units = hist[c].units
          /\ hist'[c].known = hist[c].known /\ hist'[c].disturbed = hist[c].disturbed
          /\ hist'[c].ready = hist[c].ready
      BY <1>1, <2>3 DEF Hist
    <2> QED
      BY <1>3, <2>1, <2>2, <2>3, <2>4 DEF SameCore, SameHist
  <1>11. CASE Poll(c) /\ CompleteStatus # ACQ_OK
    BY <1>3, <1>11 DEF Poll, CheckDataAcquire, SameCore, SameHist
  <1>12. ASSUME NEW r \in Requests[c], AcqFull(c, r), DataAcquireCode(r) # ACQ_OK
         PROVE  quiet
    <2>1. UNCHANGED <<params, curr, fpga, mem, nacq>>
      BY <1>12 DEF AcqFull, DataAcquire
    <2>2. \A d \in Clients \ {c} : cl'[d] = cl[d] /\ hist'[d] = hist[d]
      BY <1>1, <1>12 DEF AcqFull, ClientTypes
    <2>4. hist' = [hist EXCEPT ![c] = NoHist]
      BY <1>12 DEF AcqFull
    <2>3. hist'[c].id = 0 /\ ~hist'[c].ready
      BY <1>1, <2>4 DEF ClientTypes, NoHist
    <2> QED
      BY <1>3, <2>1, <2>2, <2>3 DEF SameCore, SameHist
  <1> QED
    BY <1>4, <1>5, <1>6, <1>8, <1>9, <1>10, <1>11, <1>12

\* Nobody has acquired anything at the start.
LEMMA InitMemInv == ClientInit => MemInv
  <1> SUFFICES ASSUME ClientInit PROVE MemInv
    OBVIOUS
  <1>1. AInv
    BY InitAInv
  <1>2. Basic
    <2>1. curr \in Chans /\ nacq = 0
      BY DEF ClientInit, AcqInit
    <2>2. fpga.chan = curr /\ ~fpga.done /\ DOMAIN mem = 0..(MemTop - 1)
      BY DEF ClientInit, AcqInit
    <2>3. \A c \in Clients : hist[c].id = 0 /\ ~hist[c].ready
      BY DEF ClientInit, NoHist
    <2> QED
      BY <2>1, <2>2, <2>3 DEF Basic
  <1>3. \A c \in Clients : OwnedBy(c)
    BY DEF ClientInit, NoHist, OwnedBy, Live
  <1> QED
    BY <1>1, <1>2, <1>3 DEF MemInv

\* Every step keeps who owns what.
LEMMA NextMemInv ==
    ASSUME MemInv, [ClientNext]_allVars
    PROVE  MemInv'
  <1>1. AInv'
    BY NextAInv DEF MemInv
  <1> DEFINE owned == Basic' /\ \A d \in Clients : OwnedBy(d)'
  <1>2. SUFFICES owned
    BY <1>1 DEF MemInv
  <1>3. ASSUME NEW c \in Clients, NEW r \in Requests[c], AcqFull(c, r) PROVE owned
    <2>1. CASE DataAcquireCode(r) = ACQ_OK
      BY <1>1, <1>3, <2>1, AcquireOwned
    <2>2. CASE DataAcquireCode(r) # ACQ_OK
      BY <1>1, <1>3, <2>2, OtherOwned
    <2> QED
      BY <2>1, <2>2
  <1>4. ASSUME NEW c \in Clients, AcqGetCurve(c) \/ Control(c) PROVE owned
    BY <1>1, <1>4, OtherOwned
  <1>5. ASSUME NEW c \in Clients, Steps(c) PROVE owned
    <2>1. CASE Poll(c) /\ CompleteStatus = ACQ_OK
      BY <2>1, PollOwned
    <2>2. CASE ~(Poll(c) /\ CompleteStatus = ACQ_OK)
      <3>1. \/ PollTimeout(c) \/ AskBlock(c) \/ ServeBlock(c) \/ ServeBlockFails(c)
            \/ Poll(c) /\ CompleteStatus # ACQ_OK
        BY <1>5, <2>2 DEF Steps
      <3> QED
        BY <1>1, <3>1, OtherOwned
    <2> QED
      BY <2>1, <2>2
  <1>6. CASE Fpga
    <2>1. UNCHANGED <<cl, hist>>
      BY <1>6 DEF Fpga, clVars
    <2>2. CASE FpgaComplete
      BY <2>1, <2>2, CompleteOwned
    <2>3. CASE FpgaFull
      <3>1. SameCore
        <4>1. fpga \in Core
          BY DEF MemInv, AInv, CoreTypes
        <4> QED
          BY <2>3, <4>1 DEF FpgaFull, SameCore, Core
      <3>2. \A d \in Clients : SameHist(d) /\ (hist'[d].ready => hist'[d].known)
        BY <2>1 DEF SameHist, MemInv, Basic
      <3> QED
        BY <3>1, <3>2, QuietOwned
    <2> QED
      BY <1>6, <2>2, <2>3 DEF Fpga
  <1>7. CASE UNCHANGED allVars
    <2>1. UNCHANGED <<params, curr, block, fpga, mem, nacq, cl, hist>>
      BY <1>7 DEF allVars, acqVars, clVars
    <2>2. SameCore
      BY <2>1 DEF SameCore
    <2>3. \A d \in Clients : SameHist(d) /\ (hist'[d].ready => hist'[d].known)
      BY <2>1 DEF SameHist, MemInv, Basic
    <2> QED
      BY <2>2, <2>3, QuietOwned
  <1> QED
    BY <1>3, <1>4, <1>5, <1>6, <1>7 DEF ClientNext

-----------------------------------------------------------------------------
(* Curves: what is copied is what was acquired. *)

\* A curve that was read successfully is the client's own.
OwnCurve(c) ==
    cl[c].result = "success" /\ Undisturbed(c) /\ Sound(c) => cl[c].curve = Expected(c)

\* What a client has of its curve.
CurveOf(c) == CurveSoFar(c) /\ BlockSoFar(c) /\ OwnCurve(c)

\* The invariant about curves.
CurveInv == MemInv /\ \A c \in Clients : CurveOf(c)

-----------------------------------------------------------------------------
(* What a client has read. *)

\* An undisturbed acquisition that fits the ring can be read.
LEMMA UndisturbedReadable ==
    ASSUME MemInv, NEW c \in Clients, Undisturbed(c), Sound(c)
    PROVE  Readable(c)
  <1>1. Live(c) /\ hist[c].known /\ Fits(c)
    BY DEF MemInv, Basic, Undisturbed, Sound, Live, Fits
  <1>2. Prepared(c) /\ Known(c)
    BY <1>1 DEF MemInv, OwnedBy
  <1> QED
    BY <1>1, <1>2 DEF MemInv, AInv, Basic, Known, Readable

\* A client that takes no step has what it had.
LEMMA CurveStays ==
    ASSUME NEW d \in Clients, CurveOf(d), KeptClient(d),
           cl[d].pc # "wait" \/ (block' = block /\ params' = params)
    PROVE  CurveOf(d)'
  <1>1. Undisturbed(d)' => Undisturbed(d)
    BY DEF KeptClient, Undisturbed
  <1>2. Sound(d)' <=> Sound(d)
    BY DEF KeptClient, Sound
  <1>3. cl'[d] = cl[d] /\ hist'[d].id = hist[d].id /\ hist'[d].units = hist[d].units
    BY DEF KeptClient
  <1>4. ASSUME NEW x PROVE StoredAt(d, x)' = StoredAt(d, x)
    BY <1>3 DEF StoredAt
  <1>5. CurveSoFar(d)'
    <2> SUFFICES ASSUME cl'[d].pc \in {"curve", "wait"}, Undisturbed(d)', Sound(d)'
                 PROVE  LET r == cl'[d].req IN
                        /\ Len(cl'[d].curve) = cl'[d].blk * BlockSize
                        /\ cl'[d].room = Total(r) * SampleSize[r.chan] - cl'[d].blk * BlockSize
                        /\ \A i \in 1..Len(cl'[d].curve) :
                             cl'[d].curve[i] = <<hist'[d].id, StoredAt(d, i - 1)'>>
      BY DEF CurveSoFar
    <2>1. LET r == cl[d].req IN
          /\ Len(cl[d].curve) = cl[d].blk * BlockSize
          /\ cl[d].room = Total(r) * SampleSize[r.chan] - cl[d].blk * BlockSize
          /\ \A i \in 1..Len(cl[d].curve) :
               cl[d].curve[i] = <<hist[d].id, StoredAt(d, i - 1)>>
      BY <1>1, <1>2, <1>3, Zenon DEF CurveOf, CurveSoFar
    <2> QED
      BY <1>3, <1>4, <2>1
  <1>6. BlockSoFar(d)'
    <2> SUFFICES ASSUME cl'[d].pc = "wait", block'.pc = "read" PROVE BlockSoFar(d)'
      BY DEF BlockSoFar
    <2>1. block' = block /\ params' = params /\ cl[d].pc = "wait" /\ block.pc = "read"
      BY <1>3
    <2>2. BlockSoFar(d)
      BY DEF CurveOf
    <2> DEFINE ch == cl[d].req.chan
               b == cl[d].blk
    <2>3. /\ BlockCode(ch, b)' = BlockCode(ch, b) /\ ReplySize(ch, b)' = ReplySize(ch, b)
          /\ AcqStart(ch)' = AcqStart(ch) /\ ShotSamples(params[ch])' = ShotSamples(params[ch])
      BY <1>3, <2>1 DEF BlockCode, BlockValid, ShotSamples, ReplySize, AcqStart, ShotAligned
    <2> QED
      BY <1>1, <1>2, <1>3, <1>4, <2>1, <2>2, <2>3, SMTT(30) DEF BlockSoFar
  <1>7. OwnCurve(d)'
    <2>1. Expected(d)' = Expected(d)
      BY <1>3 DEF Expected
    <2> QED
      BY <1>1, <1>2, <1>3, <2>1 DEF CurveOf, OwnCurve
  <1> QED
    BY <1>5, <1>6, <1>7 DEF CurveOf

\* A client that is not reading, and did not just succeed.
LEMMA NotReading ==
    ASSUME NEW c \in Clients, cl'[c].pc \in {"idle", "poll"}, cl'[c].result # "success"
    PROVE  CurveOf(c)'
  BY DEF CurveOf, CurveSoFar, BlockSoFar, OwnCurve

\* A client that begins to read has read nothing.
LEMMA Opened ==
    ASSUME NEW c \in Clients, cl'[c].pc = "curve", cl'[c].result # "success",
           cl'[c].blk = 0, cl'[c].curve = <<>>, cl'[c].req \in Reqs, cl'[c].req.chan \in Chans,
           cl'[c].room = Total(cl'[c].req) * SampleSize[cl'[c].req.chan]
    PROVE  CurveOf(c)'
  <1>1. Len(cl'[c].curve) = 0 /\ cl'[c].blk * BlockSize = 0
    BY AcqAssumption
  <1>2. Total(cl'[c].req) * SampleSize[cl'[c].req.chan] \in Nat
    BY CurveBegins
  <1>3. CurveSoFar(c)'
    BY <1>1, <1>2 DEF CurveSoFar
  <1> QED
    BY <1>3 DEF CurveOf, BlockSoFar, OwnCurve

\* One sequence after another.
LEMMA Joined ==
    ASSUME NEW S, NEW s \in Seq(S), NEW q \in Seq(S), NEW m \in Nat, m = Len(s), NEW n \in Nat, n = Len(q)
    PROVE  /\ s \o q \in Seq(S) /\ Len(s \o q) = m + n
           /\ \A i \in 1..(m + n) : (s \o q)[i] = IF i <= m THEN s[i] ELSE q[i - m]
  OBVIOUS

\* The last chunk ends the block: the client gets the units of the block, all of them.
LEMMA BlockReplied ==
    ASSUME MemInv, NEW c \in Clients, CurveSoFar(c), ReadsFor(c), NEW at \in Ways, BlockDone(at)
    PROVE  LET v == BlockReply(c, ACQ_OK, BlockData(at))
               r == cl[c].req
               size == ReplySize(r.chan, cl[c].blk)
               D == cl[c].blk * BlockSize
               t == Total(r) * SampleSize[r.chan]
           IN  /\ v.curve \in Seq(Unit) /\ Len(v.curve) = D + size
               /\ v.room = t - (D + size) /\ v.blk = cl[c].blk + 1
               /\ \A i \in 1..(D + size) : v.curve[i] = <<hist[c].id, StoredAt(c, i - 1)>>
  <1> DEFINE r == cl[c].req
             size == ReplySize(r.chan, cl[c].blk)
             b == cl[c].blk
             D == b * BlockSize
             t == Total(r) * SampleSize[r.chan]
             data == BlockData(at)
             chunk == ReadMem(at)
             len == Len(block.data)
             n == ChunkSize
             v == BlockReply(c, ACQ_OK, data)
             m == IF Len(data) > cl[c].room THEN cl[c].room ELSE Len(data)
             copy == cl[c].curve \o SubSeq(data, 1, m)
  <1>1. /\ cl[c] \in Client /\ cl[c].curve \in Seq(Unit) /\ cl[c].room \in Nat /\ b \in Nat
        /\ block \in Block /\ block.data \in Seq(Unit)
    BY ReadFacts DEF MemInv, AInv, ClientTypes, Client, Block
  <1>2. chunk \in Seq(Unit) /\ Len(chunk) = n
    BY UnitsRead
  <1>3. \A i \in 1..n : chunk[i] = <<hist[c].id, StoredAt(c, (D + len) + i - 1)>>
    BY UnitsRead
  <1>4. len + n <= size /\ n \in Nat
    BY ChunkFacts
  <1>5. size \in Nat /\ D \in Nat /\ D + size <= t /\ len \in Nat
    BY ReadFacts
  <1>6. t \in Nat
    <2>1. t = r.shots * ShotUnits(r) /\ r.shots \in Nat /\ ShotUnits(r) \in Nat
      BY ReadFacts
    <2> HIDE DEF t
    <2> QED
      BY <2>1
  <1>7. /\ Len(cl[c].curve) = D /\ cl[c].room = t - D
        /\ \A i \in 1..D : cl[c].curve[i] = <<hist[c].id, StoredAt(c, i - 1)>>
    <2>1. cl[c].pc = "wait" /\ Undisturbed(c) /\ Sound(c)
      BY DEF ReadsFor
    <2> QED
      BY <2>1, Zenon DEF CurveSoFar
  <1>8. \A i \in 1..len : block.data[i] = <<hist[c].id, StoredAt(c, D + i - 1)>>
    BY DEF ReadsFor, BlockSoFar
  <1>9. data \in Seq(Unit) /\ Len(data) = len + n
        /\ \A i \in 1..(len + n) : data[i] = IF i <= len THEN block.data[i] ELSE chunk[i - len]
    <2> HIDE DEF chunk, n
    <2>1. data = block.data \o chunk
      BY DEF BlockData, chunk
    <2> HIDE DEF data
    <2>2. block.data \in Seq(Unit) /\ chunk \in Seq(Unit) /\ len = Len(block.data) /\ n = Len(chunk)
          /\ len \in Nat /\ n \in Nat
      BY <1>1, <1>2, <1>4, <1>5
    <2> HIDE DEF len
    <2> QED
      BY <2>1, <2>2, Joined
  <1>10. Len(data) = size
    <2>1. Len(data) >= size
      BY <1>1 DEF BlockDone, ReadsFor, BlockSoFar
    <2> HIDE DEF data, size, len, n
    <2> QED
      BY <1>4, <1>5, <1>9, <2>1
  <1>11. m = size
    <2> HIDE DEF data, size, t, D
    <2> QED
      BY <1>5, <1>6, <1>7, <1>10
  <1>12. v = [cl[c] EXCEPT !.curve = copy, !.room = cl[c].room - m, !.blk = b + 1,
                           !.pc = IF b = Total(r) \div PerBlock(r) THEN "idle" ELSE "curve",
                           !.result = IF b = Total(r) \div PerBlock(r) THEN "success"
                                      ELSE cl[c].result]
    BY <1>1 DEF BlockReply, Client
  <1> HIDE DEF v, m, copy, data, chunk, size, t, D, len, n
  <1>13. v.curve = copy /\ v.room = cl[c].room - m /\ v.blk = b + 1
    BY <1>1, <1>12 DEF Client
  <1>14. SubSeq(data, 1, m) = data
    BY <1>9, <1>10, <1>11
  <1>15. copy = cl[c].curve \o data
    BY <1>14 DEF copy
  <1>16. copy \in Seq(Unit) /\ Len(copy) = D + size
         /\ \A i \in 1..(D + size) : copy[i] = IF i <= D THEN cl[c].curve[i] ELSE data[i - D]
    <2>1. /\ cl[c].curve \in Seq(Unit) /\ data \in Seq(Unit) /\ D = Len(cl[c].curve) /\ size = Len(data)
          /\ D \in Nat /\ size \in Nat
      BY <1>1, <1>5, <1>7, <1>9, <1>10
    <2> QED
      BY <1>15, <2>1, Joined
  <1>17. ASSUME NEW i \in 1..(D + size) PROVE copy[i] = <<hist[c].id, StoredAt(c, i - 1)>>
    <2>1. CASE i <= D
      <3>1. i \in 1..D
        BY <1>5, <2>1
      <3>2. copy[i] = cl[c].curve[i]
        BY <1>16, <2>1
      <3> QED
        BY <1>7, <3>1, <3>2
    <2>2. CASE i > D /\ i - D <= len
      <3>1. i - D \in 1..len /\ i - D \in 1..(len + n) /\ D + (i - D) - 1 = i - 1
        BY <1>4, <1>5, <2>2
      <3>2. copy[i] = data[i - D] /\ data[i - D] = block.data[i - D]
        BY <1>5, <1>9, <1>16, <2>2, <3>1
      <3> QED
        BY <1>8, <3>1, <3>2
    <2>3. CASE i > D /\ i - D > len
      <3>1. (i - D) - len \in 1..n /\ i - D \in 1..(len + n) /\ (D + len) + ((i - D) - len) - 1 = i - 1
        BY <1>4, <1>5, <1>9, <1>10, <2>3
      <3>2. copy[i] = data[i - D] /\ data[i - D] = chunk[(i - D) - len]
        BY <1>5, <1>9, <1>16, <2>3, <3>1
      <3> QED
        BY <1>3, <3>1, <3>2
    <2> QED
      BY <1>5, <2>1, <2>2, <2>3
  <1>18. v.room = t - (D + size)
    BY <1>5, <1>6, <1>7, <1>11, <1>13
  <1> QED
    BY <1>13, <1>16, <1>17, <1>18 DEF v, data, size, t, D

\* The SMIO begins with a block where its first unit is stored.
LEMMA AskBlockCurve ==
    ASSUME CurveInv, NEW c \in Clients, AskBlock(c)
    PROVE  CurveOf(c)'
  <1> DEFINE r == cl[c].req
             ch == r.chan
             b == cl[c].blk
             D == b * BlockSize
  <1>1. /\ MemInv /\ AInv /\ CoreTypes /\ ClientTypes /\ cl[c] \in Client /\ cl[c].pc = "curve"
        /\ CurveOf(c) /\ cl[c].result = "none"
    BY DEF CurveInv, MemInv, AInv, ClientTypes, AskBlock, CallInv
  <1>2. UNCHANGED <<params, curr, fpga, mem, nacq, hist>>
    BY DEF AskBlock, GetDataBlock
  <1>3. CASE BlockCode(ch, b) # ACQ_OK
    <2>1. cl' = [cl EXCEPT ![c] = BlockReply(c, ACQ_OOR, <<>>)]
      BY <1>3 DEF AskBlock
    <2>2. ACQ_OOR # ACQ_OK
      BY DEF ACQ_OOR, ACQ_OK
    <2>3. cl'[c] = [cl[c] EXCEPT !.pc = "idle", !.result = "error"]
      BY <1>1, <2>1, <2>2 DEF ClientTypes, BlockReply
    <2>4. cl'[c].pc = "idle" /\ cl'[c].result = "error"
      BY <1>1, <2>3 DEF Client
    <2> QED
      BY <2>4, NotReading
  <1>4. CASE BlockCode(ch, b) = ACQ_OK
    <2>1. cl' = [cl EXCEPT ![c] = [cl[c] EXCEPT !.pc = "wait"]]
      BY <1>1, <1>4 DEF AskBlock, ClientTypes
    <2>2. /\ cl'[c].pc = "wait" /\ cl'[c].req = r /\ cl'[c].blk = b /\ cl'[c].curve = cl[c].curve
          /\ cl'[c].room = cl[c].room /\ cl'[c].result = "none"
      BY <1>1, <2>1 DEF ClientTypes, Client
    <2>3. /\ Undisturbed(c)' <=> Undisturbed(c)
          /\ Sound(c)' <=> Sound(c)
          /\ \A x : StoredAt(c, x)' = StoredAt(c, x)
      BY <1>2, <2>2 DEF Undisturbed, Sound, StoredAt
    <2>4. CurveSoFar(c)'
      <3> SUFFICES ASSUME Undisturbed(c), Sound(c)
                   PROVE  /\ Len(cl'[c].curve) = cl'[c].blk * BlockSize
                          /\ cl'[c].room = Total(r) * SampleSize[ch] - cl'[c].blk * BlockSize
                          /\ \A i \in 1..Len(cl'[c].curve) :
                               cl'[c].curve[i] = <<hist[c].id, StoredAt(c, i - 1)>>
        BY <1>2, <2>2, <2>3 DEF CurveSoFar
      <3>1. /\ Len(cl[c].curve) = cl[c].blk * BlockSize
            /\ cl[c].room = Total(r) * SampleSize[ch] - cl[c].blk * BlockSize
            /\ \A i \in 1..Len(cl[c].curve) : cl[c].curve[i] = <<hist[c].id, StoredAt(c, i - 1)>>
        BY <1>1 DEF CurveOf, CurveSoFar
      <3> QED
        BY <2>2, <3>1
    <2>5. OwnCurve(c)'
      BY <2>2 DEF OwnCurve
    <2>6. BlockSoFar(c)'
      <3> SUFFICES ASSUME block'.pc = "read" PROVE BlockSoFar(c)'
        BY DEF BlockSoFar
      <3>1. ShotSamples(params[ch]) # 0
            /\ block' = [pc |-> "read", chan |-> ch, n |-> b, addr |-> BlockAddr(ch, b),
                         off |-> (b * (BlockSize \div SampleSize[ch])) % ShotSamples(params[ch]),
                         data |-> <<>>]
        BY <1>4 DEF AskBlock, GetDataBlock, NoBlock
      <3>2. /\ block'.chan = ch /\ block'.n = b /\ block'.addr = BlockAddr(ch, b)
            /\ block'.off = (b * (BlockSize \div SampleSize[ch])) % ShotSamples(params[ch])
            /\ block'.data = <<>> /\ Len(block'.data) = 0
        BY <3>1
      <3>3. BlockCode(ch, b)' = ACQ_OK /\ ShotSamples(params'[ch]) # 0
            /\ ReplySize(ch, b)' = ReplySize(ch, b) /\ AcqStart(ch)' = AcqStart(ch)
        BY <1>2, <1>4, <2>2, <3>1 DEF BlockCode, BlockValid, ShotSamples, ReplySize, AcqStart, ShotAligned
      <3>4. ASSUME Undisturbed(c), Sound(c)
            PROVE  /\ ReplySize(ch, b) \in Nat \ {0} /\ D \in Nat
                   /\ StartAddr[ch] <= BlockAddr(ch, b) /\ BlockAddr(ch, b) <= EndMem(ch)
                   /\ \/ BlockAddr(ch, b) = AcqStart(ch) + StoredAt(c, D)
                      \/ BlockAddr(ch, b) = AcqStart(ch) + StoredAt(c, D) - Ring(ch)
                   /\ r.shots # 1 => block'.off = 0 /\ D % ShotUnits(r) = 0
        <4>1. Readable(c)
          BY <1>1, <3>4, UndisturbedReadable
        <4>2. Prepared(c) /\ b \in Nat /\ hist[c].units <= Ring(ch)
          BY <1>1, <4>1 DEF Readable, Fits, Client
        <4>3. AcqStart(ch) \in StartAddr[ch]..(EndMem(ch) - 1)
          BY <4>1, StartInRing
        <4>4. ReplySize(ch, b) \in Nat \ {0} /\ D \in Nat
          BY <1>1, <1>4, <3>1, <4>2, BlockFacts
        <4>5. /\ StartAddr[ch] <= BlockAddr(ch, b) /\ BlockAddr(ch, b) <= EndMem(ch)
              /\ \/ BlockAddr(ch, b) = AcqStart(ch) + StoredAt(c, D)
                 \/ BlockAddr(ch, b) = AcqStart(ch) + StoredAt(c, D) - Ring(ch)
              /\ D % ShotUnits(r) = 0 => block'.off = 0
          BY <1>1, <1>4, <3>1, <3>2, <4>2, <4>3, BlockStarts
        <4>6. ASSUME r.shots # 1 PROVE D % ShotUnits(r) = 0
          <5>1. Total(r) <= PerBlock(r) \/ PerBlock(r) % (r.pre + r.post) = 0
            BY <3>4, <4>6 DEF Sound
          <5> QED
            BY <1>1, <1>4, <3>1, <4>2, <5>1, WholeShots
        <4> QED
          BY <4>4, <4>5, <4>6
      <3> DEFINE now == cl'[c].blk * BlockSize + Len(block'.data)
      <3>5. Undisturbed(c) /\ Sound(c) => now = D
        <4> SUFFICES ASSUME Undisturbed(c), Sound(c) PROVE now = D
          OBVIOUS
        <4>1. now = D + 0 /\ D \in Nat
          BY <2>2, <3>2, <3>4
        <4> HIDE DEF now, D
        <4> QED
          BY <4>1
      <3>6. Undisturbed(c) /\ Sound(c) =>
              /\ 0 < ReplySize(ch, b)
              /\ StartAddr[ch] <= block'.addr /\ block'.addr <= EndMem(ch)
              /\ \/ block'.addr = AcqStart(ch) + StoredAt(c, now)
                 \/ block'.addr = AcqStart(ch) + StoredAt(c, now) - Ring(ch)
              /\ r.shots # 1 => block'.off = 0 /\ now % ShotUnits(r) = 0
        <4> SUFFICES ASSUME Undisturbed(c), Sound(c)
                     PROVE  /\ 0 < ReplySize(ch, b)
                            /\ StartAddr[ch] <= block'.addr /\ block'.addr <= EndMem(ch)
                            /\ \/ block'.addr = AcqStart(ch) + StoredAt(c, D)
                               \/ block'.addr = AcqStart(ch) + StoredAt(c, D) - Ring(ch)
                            /\ r.shots # 1 => block'.off = 0 /\ D % ShotUnits(r) = 0
          BY <3>5
        <4>1. 0 < ReplySize(ch, b)
          BY <3>4
        <4> QED
          BY <3>2, <3>4, <4>1
      <3>7. 1..Len(block'.data) = {}
        BY <3>2
      <3>8. hist' = hist
        BY <1>2
      <3> QED
        BY <2>2, <2>3, <3>2, <3>3, <3>6, <3>7, <3>8 DEF BlockSoFar, StoredAt
    <2> QED
      BY <2>4, <2>5, <2>6 DEF CurveOf
  <1> QED
    BY <1>3, <1>4

\* The SMIO reads on.
LEMMA ReadOnCurve ==
    ASSUME CurveInv, NEW c \in Clients, cl[c].pc = "wait", NEW at \in Ways, ReadChunk(at), ~BlockDone(at),
           cl' = cl, hist' = hist
    PROVE  CurveOf(c)'
  <1> DEFINE r == cl[c].req
             ch == r.chan
             p == params[ch]
             b == cl[c].blk
             D == b * BlockSize
             len == Len(block.data)
             n == ChunkSize
             data == BlockData(at)
             chunk == ReadMem(at)
             jump == IF p.shots = 1 THEN 0
                     ELSE (ShotAligned(p) - ShotSamples(p)) * SampleSize[ch]
             addr == NextAddr(block.addr + n + jump)
             y == D + (len + n)
  <1>1. /\ MemInv /\ AInv /\ CoreTypes /\ ClientTypes /\ cl[c] \in Client /\ block \in Block
        /\ CurveOf(c) /\ cl[c].result = "none"
    BY DEF CurveInv, MemInv, AInv, ClientTypes, CallInv
  <1>2. UNCHANGED <<params, curr, fpga, mem, nacq>> /\ block.pc = "read"
    BY DEF ReadChunk
  <1>3. /\ block.chan = ch /\ block.n = b /\ BlockCode(ch, b) = ACQ_OK /\ ShotSamples(params[ch]) # 0
    BY <1>1, <1>2 DEF CurveOf, BlockSoFar
  <1>4. block' = [block EXCEPT !.data = data, !.off = 0, !.addr = addr]
    BY <1>3 DEF ReadChunk
  <1>5. /\ block'.pc = "read" /\ block'.chan = ch /\ block'.n = b
        /\ block'.data = data /\ block'.off = 0 /\ block'.addr = addr
    <2> HIDE DEF data, addr
    <2> QED
      BY <1>1, <1>2, <1>3, <1>4 DEF Block
  <1>6. /\ Undisturbed(c)' <=> Undisturbed(c)
        /\ Sound(c)' <=> Sound(c)
        /\ \A x : StoredAt(c, x)' = StoredAt(c, x)
    BY DEF Undisturbed, Sound, StoredAt
  <1>7. CurveSoFar(c)' /\ OwnCurve(c)'
    BY <1>1, <1>6 DEF CurveOf, CurveSoFar, OwnCurve
  <1>8. BlockCode(ch, b)' = ACQ_OK /\ ShotSamples(params'[ch]) # 0
        /\ ReplySize(ch, b)' = ReplySize(ch, b) /\ AcqStart(ch)' = AcqStart(ch)
    BY <1>2, <1>3 DEF BlockCode, BlockValid, ShotSamples, ReplySize, AcqStart, ShotAligned
  <1>9. ASSUME Undisturbed(c), Sound(c)
        PROVE  /\ Len(data) = len + n /\ len + n < ReplySize(ch, b) /\ len + n \in Nat
               /\ \A i \in 1..(len + n) : data[i] = <<hist[c].id, StoredAt(c, D + i - 1)>>
               /\ StartAddr[ch] <= addr /\ addr <= EndMem(ch)
               /\ \/ addr = AcqStart(ch) + StoredAt(c, y)
                  \/ addr = AcqStart(ch) + StoredAt(c, y) - Ring(ch)
               /\ r.shots # 1 => y % ShotUnits(r) = 0
    <2>1. ReadsFor(c)
      BY <1>1, <1>2, <1>9, UndisturbedReadable DEF ReadsFor, CurveOf
    <2>2. chunk \in Seq(Unit) /\ Len(chunk) = n
          /\ \A i \in 1..n : chunk[i] = <<hist[c].id, StoredAt(c, (D + len) + i - 1)>>
      BY <2>1, UnitsRead
    <2>3. n \in Nat
      BY <2>1, ChunkFacts
    <2>4. len \in Nat /\ ReplySize(ch, b) \in Nat /\ D \in Nat
      BY <2>1, ReadFacts
    <2>5. \A i \in 1..len : block.data[i] = <<hist[c].id, StoredAt(c, D + i - 1)>>
      BY <2>1 DEF ReadsFor, BlockSoFar
    <2>6. /\ Len(data) = len + n
          /\ \A i \in 1..(len + n) : data[i] = IF i <= len THEN block.data[i] ELSE chunk[i - len]
      <3>1. /\ block.data \in Seq(Unit) /\ chunk \in Seq(Unit) /\ len = Len(block.data) /\ n = Len(chunk)
            /\ len \in Nat /\ n \in Nat
        BY <1>1, <2>2, <2>3, <2>4 DEF Block
      <3>2. data = block.data \o chunk
        BY DEF BlockData
      <3> HIDE DEF len, n, data, chunk
      <3> QED
        BY <3>1, <3>2, Joined
    <2>7. len + n < ReplySize(ch, b)
      <3>1. ~(Len(data) >= ReplySize(ch, b))
        BY <1>3 DEF BlockDone
      <3> HIDE DEF len, n, data
      <3> QED
        BY <2>3, <2>4, <2>6, <3>1
    <2>8. /\ StartAddr[ch] <= addr /\ addr <= EndMem(ch)
          /\ addr = AcqStart(ch) + StoredAt(c, y) \/ addr = AcqStart(ch) + StoredAt(c, y) - Ring(ch)
          /\ r.shots # 1 => y % ShotUnits(r) = 0
      BY <2>1, <2>7, NextChunk
    <2> HIDE DEF len, n, D, data, chunk, addr, y
    <2>9. ASSUME NEW i \in 1..(len + n) PROVE data[i] = <<hist[c].id, StoredAt(c, D + i - 1)>>
      <3>1. CASE i <= len
        <4>1. i \in 1..len
          BY <2>3, <2>4, <3>1
        <4> QED
          BY <2>5, <2>6, <3>1, <4>1
      <3>2. CASE ~(i <= len)
        <4>1. i - len \in 1..n /\ (D + len) + (i - len) - 1 = D + i - 1
          BY <2>3, <2>4, <3>2
        <4> QED
          BY <2>2, <2>6, <3>2, <4>1
      <3> QED
        BY <3>1, <3>2
    <2> QED
      BY <2>3, <2>4, <2>6, <2>7, <2>8, <2>9
  <1>10. BlockSoFar(c)'
    <2> DEFINE now == cl'[c].blk * BlockSize + Len(block'.data)
    <2>1. Undisturbed(c) /\ Sound(c) =>
              /\ Len(data) < ReplySize(ch, b)
              /\ \A i \in 1..Len(data) : data[i] = <<hist[c].id, StoredAt(c, D + i - 1)>>
              /\ StartAddr[ch] <= addr /\ addr <= EndMem(ch)
              /\ \/ addr = AcqStart(ch) + StoredAt(c, now)
                 \/ addr = AcqStart(ch) + StoredAt(c, now) - Ring(ch)
              /\ r.shots # 1 => now % ShotUnits(r) = 0
      <3> SUFFICES ASSUME Undisturbed(c), Sound(c)
                   PROVE  /\ Len(data) < ReplySize(ch, b)
                          /\ \A i \in 1..Len(data) : data[i] = <<hist[c].id, StoredAt(c, D + i - 1)>>
                          /\ StartAddr[ch] <= addr /\ addr <= EndMem(ch)
                          /\ \/ addr = AcqStart(ch) + StoredAt(c, now)
                             \/ addr = AcqStart(ch) + StoredAt(c, now) - Ring(ch)
                          /\ r.shots # 1 => now % ShotUnits(r) = 0
        <4> HIDE DEF data, addr, now
        <4> QED
          OBVIOUS
      <3>1. Len(data) = len + n
        BY <1>9
      <3>2. now = y
        BY <1>5, <3>1
      <3> HIDE DEF now, y, data, addr, len, n
      <3> QED
        BY <1>9, <3>1, <3>2
    <2> HIDE DEF data, addr
    <2> QED
      BY <1>5, <1>6, <1>8, <2>1 DEF BlockSoFar, StoredAt
  <1> QED
    BY <1>7, <1>10 DEF CurveOf

\* The client has the block: all of the curve, if it was the last one.
LEMMA ReplyCurve ==
    ASSUME CurveInv, NEW c \in Clients, cl[c].pc = "wait", NEW at \in Ways, ReadChunk(at), BlockDone(at),
           cl' = [cl EXCEPT ![c] = BlockReply(c, ACQ_OK, BlockData(at))], hist' = hist
    PROVE  CurveOf(c)'
  <1> DEFINE r == cl[c].req
             ch == r.chan
             b == cl[c].blk
             last == b = Total(r) \div PerBlock(r)
             v == BlockReply(c, ACQ_OK, BlockData(at))
             size == ReplySize(ch, b)
             D == b * BlockSize
             t == Total(r) * SampleSize[ch]
  <1>1. /\ MemInv /\ AInv /\ CoreTypes /\ ClientTypes /\ cl[c] \in Client
        /\ CurveOf(c) /\ cl[c].result = "none" /\ block.pc = "read"
    BY DEF CurveInv, MemInv, AInv, ClientTypes, CallInv, ReadChunk
  <1>2. cl'[c] = v
    BY <1>1 DEF ClientTypes
  <1>3. v.req = r /\ v.pc = (IF last THEN "idle" ELSE "curve")
        /\ v.result = IF last THEN "success" ELSE "none"
    BY <1>1 DEF BlockReply, Client
  <1>4. /\ Undisturbed(c)' <=> Undisturbed(c)
        /\ Sound(c)' <=> Sound(c)
        /\ \A x : StoredAt(c, x)' = StoredAt(c, x)
    BY <1>2, <1>3 DEF Undisturbed, Sound, StoredAt
  <1>5. block.chan = ch /\ block.n = b /\ BlockCode(ch, b) = ACQ_OK /\ ShotSamples(params[ch]) # 0
    BY <1>1 DEF CurveOf, BlockSoFar
  <1> HIDE DEF v
  <1>6. BlockSoFar(c)'
    BY <1>2, <1>3 DEF BlockSoFar
  <1>7. CASE ~(Undisturbed(c) /\ Sound(c))
    BY <1>4, <1>6, <1>7 DEF CurveOf, CurveSoFar, OwnCurve
  <1>8. CASE Undisturbed(c) /\ Sound(c)
    <2>1. ReadsFor(c)
      BY <1>1, <1>8, UndisturbedReadable DEF ReadsFor, CurveOf
    <2>2. /\ v.curve \in Seq(Unit) /\ Len(v.curve) = D + size
          /\ v.room = t - (D + size) /\ v.blk = b + 1
          /\ \A i \in 1..(D + size) : v.curve[i] = <<hist[c].id, StoredAt(c, i - 1)>>
      BY <1>1, <2>1, BlockReplied DEF CurveOf, v
    <2>3. Prepared(c) /\ b \in Nat
      BY <1>1, <2>1 DEF ReadsFor, Readable, Client
    <2>4. /\ last => D + size = t
          /\ ~last => size = BlockSize
      BY <1>1, <1>5, <2>3, BlockFacts
    <2>5. CASE last
      <3>1. v.pc = "idle" /\ v.result = "success"
        BY <1>3, <2>5
      <3>2. v.curve = Expected(c)
        <4> DEFINE k == ShotUnits(r)
                   al == hist[c].units \div r.shots
                   pad == AlignValue(r.pre, Alignment(ch)) - r.pre
                   pre == IF r.pre = 0 THEN Payload ELSE pad * SampleSize[ch]
        <4>1. Expected(c) = [i \in 1..t |-> <<hist[c].id, ((i - 1) \div k) * al + pre + ((i - 1) % k)>>]
          BY Zenon DEF Expected, ShotUnits
        <4>2. pre = Lead(r)
          BY Zenon DEF Lead
        <4>3. \A i : StoredAt(c, i - 1) = ((i - 1) \div k) * al + Lead(r) + ((i - 1) % k)
          BY Zenon DEF StoredAt, Spot
        <4> HIDE DEF k, al, pre, t, D, size
        <4>4. Expected(c) = [i \in 1..t |-> <<hist[c].id, StoredAt(c, i - 1)>>]
          BY <4>1, <4>2, <4>3
        <4>5. v.curve \in Seq(Unit) /\ Len(v.curve) = t
              /\ \A i \in 1..t : v.curve[i] = <<hist[c].id, StoredAt(c, i - 1)>>
          BY <2>2, <2>4, <2>5
        <4>6. v.curve = [i \in 1..t |-> v.curve[i]]
          BY <4>5
        <4> QED
          BY <4>4, <4>5, <4>6
      <3>3. Expected(c)' = Expected(c)
        <4>1. cl'[c].req = cl[c].req /\ hist'[c] = hist[c]
          BY <1>2, <1>3
        <4> QED
          BY <4>1 DEF Expected
      <3>4. CurveSoFar(c)' /\ OwnCurve(c)'
        BY <1>2, <3>1, <3>2, <3>3 DEF CurveSoFar, OwnCurve
      <3> QED
        BY <1>6, <3>4 DEF CurveOf
    <2>6. CASE ~last
      <3>1. v.pc = "curve" /\ v.result = "none"
        BY <1>3, <2>6
      <3>2. D + size = (b + 1) * BlockSize /\ D + size \in Nat
        <4>1. BlockSize \in Nat /\ b \in Nat /\ size = BlockSize
          BY <2>3, <2>4, <2>6, AcqAssumption
        <4> HIDE DEF size
        <4> QED
          BY <4>1
      <3>3. /\ Len(v.curve) = v.blk * BlockSize /\ v.room = t - v.blk * BlockSize
            /\ \A i \in 1..Len(v.curve) : v.curve[i] = <<hist[c].id, StoredAt(c, i - 1)>>
        <4> HIDE DEF D, size, t
        <4> QED
          BY <2>2, <3>2
      <3>4. CurveSoFar(c)'
        BY <1>2, <1>3, <1>4, <3>3 DEF CurveSoFar
      <3>5. OwnCurve(c)'
        BY <1>2, <3>1 DEF OwnCurve
      <3> QED
        BY <1>6, <3>4, <3>5 DEF CurveOf
    <2> QED
      BY <2>5, <2>6
  <1> QED
    BY <1>7, <1>8

\* Nobody waits for a block while the SMIO serves another request.
LEMMA OthersCurve ==
    ASSUME CurveInv, NEW c \in Clients,
           \A d \in Clients \ {c} : KeptClient(d),
           block.pc = "idle" \/ cl[c].pc = "wait" \/ (block' = block /\ params' = params)
    PROVE  \A d \in Clients \ {c} : CurveOf(d)'
  <1> SUFFICES ASSUME NEW d \in Clients \ {c} PROVE CurveOf(d)'
    OBVIOUS
  <1>1. OneReader /\ CurveOf(d)
    BY DEF CurveInv, MemInv, AInv
  <1>2. cl[d].pc # "wait" \/ (block' = block /\ params' = params)
    BY <1>1 DEF OneReader
  <1> QED
    BY <1>1, <1>2, CurveStays

\* A client begins to read its curve.
LEMMA OpenCurveOf ==
    ASSUME ClientTypes, NEW c \in Clients, cl[c].req.chan \in Chans, NEW ops \in Nat,
           cl' = [cl EXCEPT ![c] = [OpenCurve(c) EXCEPT !.ops = ops, !.result = "none"]]
    PROVE  CurveOf(c)'
  <1>1. cl[c] \in Client /\ cl[c].req \in Reqs
    BY DEF ClientTypes, Client
  <1> DEFINE room == Total(cl[c].req) * SampleSize[cl[c].req.chan]
             u == [cl[c] EXCEPT !.pc = "curve", !.blk = 0, !.curve = <<>>, !.room = room]
             v == [u EXCEPT !.ops = ops, !.result = "none"]
  <1>2. cl'[c] = v
    BY DEF OpenCurve, ClientTypes
  <1>3. u.pc = "curve" /\ u.blk = 0 /\ u.curve = <<>> /\ u.req = cl[c].req /\ u.room = room
        /\ DOMAIN u = DOMAIN cl[c]
    <2> HIDE DEF room
    <2> QED
      BY <1>1 DEF Client
  <1>4. DOMAIN cl[c] = {"pc", "req", "blk", "room", "curve", "result", "ops"}
    BY <1>1 DEF Client
  <1>5. /\ v.pc = "curve" /\ v.result = "none" /\ v.blk = 0 /\ v.curve = <<>>
        /\ v.req = cl[c].req /\ v.room = room
    <2> HIDE DEF room, u
    <2> QED
      BY <1>3, <1>4
  <1>6. /\ cl'[c].pc = "curve" /\ cl'[c].result = "none" /\ cl'[c].blk = 0 /\ cl'[c].curve = <<>>
        /\ cl'[c].req = cl[c].req /\ cl'[c].room = Total(cl[c].req) * SampleSize[cl[c].req.chan]
    <2> HIDE DEF v
    <2> QED
      BY <1>2, <1>5
  <1> QED
    BY <1>1, <1>6, Opened

\* Every step keeps the curves.
LEMMA NextCurveInv ==
    ASSUME CurveInv, [ClientNext]_allVars
    PROVE  CurveInv'
  <1>1. MemInv' /\ AInv'
    BY NextMemInv DEF CurveInv, MemInv
  <1>2. /\ MemInv /\ AInv /\ ClientTypes /\ ClientTypes'
        /\ \A d \in Clients : CurveOf(d) /\ cl[d] \in Client /\ cl'[d] \in Client /\ hist[d] \in Hist
    BY <1>1 DEF CurveInv, MemInv, AInv, ClientTypes
  <1> DEFINE curves == \A d \in Clients : CurveOf(d)'
  <1>3. SUFFICES curves
    BY <1>1 DEF CurveInv
  <1>4. ASSUME NEW c \in Clients, CurveOf(c)', \A d \in Clients \ {c} : KeptClient(d),
               block.pc = "idle" \/ cl[c].pc = "wait" \/ (block' = block /\ params' = params)
        PROVE  curves
    BY <1>4, OthersCurve
  <1>5. ASSUME NEW c \in Clients, NEW r \in Requests[c], AcqFull(c, r) PROVE curves
    <2>1. block.pc = "idle" /\ cl' = [cl EXCEPT ![c] = [NewClient EXCEPT !.pc = "poll", !.req = r,
                                                          !.ops = cl[c].ops + 1]]
      BY <1>5 DEF AcqFull, DataAcquire
    <2>2. cl'[c].pc = "poll" /\ cl'[c].result = "none"
      BY <1>2, <2>1 DEF ClientTypes, NewClient
    <2>3. ASSUME NEW d \in Clients \ {c} PROVE KeptClient(d)
      <3>1. cl'[d] = cl[d]
        BY <1>2, <2>1 DEF ClientTypes
      <3>2. CASE DataAcquireCode(r) = ACQ_OK
        <4>1. hist'[d] = [hist[d] EXCEPT !.disturbed = @ \/ (hist[d].id # 0
                  /\ (~hist[d].known \/ SharesMemory(cl[d].req.chan, r.chan)))]
          BY <1>5, <3>2 DEF AcqFull, Started
        <4> QED
          BY <1>2, <3>1, <4>1 DEF Hist, KeptClient
      <3>3. CASE DataAcquireCode(r) # ACQ_OK
        <4>1. hist' = [hist EXCEPT ![c] = NoHist]
          BY <1>5, <3>3 DEF AcqFull
        <4> QED
          BY <1>2, <3>1, <4>1 DEF ClientTypes, KeptClient
      <3> QED
        BY <3>2, <3>3
    <2> QED
      BY <1>4, <2>1, <2>2, <2>3, NotReading
  <1>6. ASSUME NEW c \in Clients, AcqGetCurve(c) PROVE curves
    <2>1. /\ cl' = [cl EXCEPT ![c] = [OpenCurve(c) EXCEPT !.ops = OpenCurve(c).ops + 1, !.result = "none"]]
          /\ cl[c].req.chan \in Chans /\ block' = block /\ params' = params
      BY <1>2, <1>6 DEF AcqGetCurve, acqVars, OpenCurve, Client
    <2>2. OpenCurve(c).ops + 1 \in Nat
      BY <1>2 DEF OpenCurve, Client
    <2>3. CurveOf(c)'
      BY <1>2, <2>1, <2>2, OpenCurveOf
    <2>4. \A d \in Clients \ {c} : cl'[d] = cl[d] /\ hist'[d] = hist[d]
      BY <1>2, <1>6, <2>1 DEF AcqGetCurve, ClientTypes
    <2> QED
      BY <1>4, <2>1, <2>3, <2>4 DEF KeptClient
  <1>7. ASSUME NEW c \in Clients, Control(c) PROVE curves
    <2>1. /\ block.pc = "idle" /\ hist' = hist /\ cl[c].pc = "idle"
          /\ cl' = [cl EXCEPT ![c] = [cl[c] EXCEPT !.ops = cl[c].ops + 1]]
      BY <1>2, <1>7 DEF Control, CanCall, CfgTrigger, SwTrig, FsmStop, ClientTypes
    <2>2. /\ cl'[c].pc = "idle" /\ cl'[c].req = cl[c].req /\ cl'[c].curve = cl[c].curve
          /\ cl'[c].result = cl[c].result
      BY <1>2, <2>1 DEF ClientTypes, Client
    <2>3. CurveOf(c)'
      <3>1. OwnCurve(c)'
        <4>1. Expected(c)' = Expected(c)
          BY <2>1, <2>2 DEF Expected
        <4>2. (Undisturbed(c)' <=> Undisturbed(c)) /\ (Sound(c)' <=> Sound(c))
          BY <2>1, <2>2 DEF Undisturbed, Sound
        <4> QED
          BY <1>2, <2>2, <4>1, <4>2 DEF CurveOf, OwnCurve
      <3> QED
        BY <2>2, <3>1 DEF CurveOf, CurveSoFar, BlockSoFar
    <2>4. \A d \in Clients \ {c} : cl'[d] = cl[d]
      BY <1>2, <2>1 DEF ClientTypes
    <2> QED
      BY <1>4, <2>1, <2>3, <2>4 DEF KeptClient
  <1>8. ASSUME NEW c \in Clients, Poll(c) PROVE curves
    <2>1. block.pc = "idle" /\ cl[c].pc = "poll" /\ cl[c].result = "none"
      BY <1>2, <1>8 DEF Poll, CheckDataAcquire, AInv, CallInv
    <2>2. CASE CompleteStatus # ACQ_OK
      <3>1. cl' = cl /\ hist' = hist
        BY <1>8, <2>2 DEF Poll
      <3> QED
        BY <1>4, <2>1, <3>1, NotReading DEF KeptClient
    <2>3. CASE CompleteStatus = ACQ_OK
      <3>1. /\ Learnt(c)
            /\ cl' = [cl EXCEPT ![c] = IF cl[c].req.chan \in Chans THEN OpenCurve(c)
                         ELSE [cl[c] EXCEPT !.pc = "idle", !.result = "error"]]
        BY <1>8, <2>3 DEF Poll
      <3>2. CurveOf(c)'
        <4>1. CASE cl[c].req.chan \in Chans
          <5>1. OpenCurve(c) = [OpenCurve(c) EXCEPT !.ops = cl[c].ops, !.result = "none"]
            BY <1>2, <2>1 DEF OpenCurve, Client
          <5>2. cl' = [cl EXCEPT ![c] = [OpenCurve(c) EXCEPT !.ops = cl[c].ops, !.result = "none"]]
            BY <3>1, <4>1, <5>1
          <5>3. cl[c].ops \in Nat
            BY <1>2 DEF Client
          <5> QED
            BY <1>2, <4>1, <5>2, <5>3, OpenCurveOf
        <4>2. CASE cl[c].req.chan \notin Chans
          <5>1. cl'[c].pc = "idle" /\ cl'[c].result = "error"
            BY <1>2, <3>1, <4>2 DEF ClientTypes, Client
          <5> QED
            BY <5>1, NotReading
        <4> QED
          BY <4>1, <4>2
      <3>3. ASSUME NEW d \in Clients \ {c} PROVE KeptClient(d)
        <4> DEFINE known(e) == hist[e].known \/ (hist[e].id # 0 /\ hist[e].id = fpga.id)
        <4>1. hist'[d] = [hist[d] EXCEPT !.known = known(d), !.ready = hist[d].ready]
          BY <1>2, <3>1 DEF Learnt, Hist
        <4>2. cl'[d] = cl[d]
          BY <1>2, <3>1 DEF ClientTypes
        <4> HIDE DEF known
        <4> QED
          BY <1>2, <4>1, <4>2 DEF Hist, KeptClient
      <3> QED
        BY <1>4, <2>1, <3>2, <3>3
    <2> QED
      BY <2>2, <2>3
  <1>9. ASSUME NEW c \in Clients, PollTimeout(c) PROVE curves
    <2>1. /\ block' = block /\ params' = params /\ hist' = hist
          /\ cl' = [cl EXCEPT ![c] = [cl[c] EXCEPT !.pc = "idle", !.result = "timeout"]]
      BY <1>2, <1>9 DEF PollTimeout, acqVars, ClientTypes
    <2>2. cl'[c].pc = "idle" /\ cl'[c].result = "timeout"
      BY <1>2, <2>1 DEF ClientTypes, Client
    <2>3. \A d \in Clients \ {c} : cl'[d] = cl[d]
      BY <1>2, <2>1 DEF ClientTypes
    <2> QED
      BY <1>4, <2>1, <2>2, <2>3, NotReading DEF KeptClient
  <1>10. ASSUME NEW c \in Clients, AskBlock(c) PROVE curves
    <2>1. block.pc = "idle" /\ hist' = hist /\ \A d \in Clients \ {c} : cl'[d] = cl[d]
      BY <1>2, <1>10 DEF AskBlock, GetDataBlock, ClientTypes
    <2>2. CurveOf(c)'
      BY <1>10, AskBlockCurve
    <2> QED
      BY <1>4, <2>1, <2>2 DEF KeptClient
  <1>11. ASSUME NEW c \in Clients, ServeBlock(c) PROVE curves
    <2>1. PICK at \in Ways :
            /\ ReadChunk(at)
            /\ cl' = IF BlockDone(at)
                     THEN [cl EXCEPT ![c] = BlockReply(c, ACQ_OK, BlockData(at))] ELSE cl
      BY <1>11 DEF ServeBlock
    <2>2. cl[c].pc = "wait" /\ hist' = hist
      BY <1>11 DEF ServeBlock
    <2>3. \A d \in Clients \ {c} : cl'[d] = cl[d]
      BY <1>2, <2>1 DEF ClientTypes
    <2>4. CurveOf(c)'
      <3>1. CASE BlockDone(at)
        BY <2>1, <2>2, <3>1, ReplyCurve
      <3>2. CASE ~BlockDone(at)
        BY <2>1, <2>2, <3>2, ReadOnCurve
      <3> QED
        BY <3>1, <3>2
    <2> QED
      BY <1>4, <2>2, <2>3, <2>4 DEF KeptClient
  <1>12. ASSUME NEW c \in Clients, ServeBlockFails(c) PROVE curves
    <2>1. cl[c].pc = "wait" /\ cl' = [cl EXCEPT ![c] = BlockReply(c, ACQ_COULD_NOT_READ, <<>>)]
      BY <1>12 DEF ServeBlockFails
    <2>2. cl'[c].pc = "idle" /\ cl'[c].result = "error"
      <3>1. ACQ_COULD_NOT_READ # ACQ_OK
        BY DEF ACQ_COULD_NOT_READ, ACQ_OK
      <3>2. cl'[c] = [cl[c] EXCEPT !.pc = "idle", !.result = "error"]
        BY <1>2, <2>1, <3>1 DEF ClientTypes, BlockReply
      <3> QED
        BY <1>2, <3>2 DEF Client
    <2>3. \A d \in Clients \ {c} : cl'[d] = cl[d] /\ hist'[d] = hist[d]
      BY <1>2, <1>12, <2>1 DEF ServeBlockFails, ClientTypes
    <2> QED
      BY <1>4, <2>1, <2>2, <2>3, NotReading DEF KeptClient
  <1>13. ASSUME UNCHANGED <<params, block, cl, hist>> PROVE curves
    <2>1. \A d \in Clients : KeptClient(d)
      BY <1>13 DEF KeptClient
    <2> QED
      BY <1>2, <1>13, <2>1, CurveStays
  <1>14. CASE Fpga
    BY <1>13, <1>14 DEF Fpga, clVars, FpgaComplete, FpgaFull
  <1>15. CASE UNCHANGED allVars
    BY <1>13, <1>15 DEF allVars, acqVars, clVars
  <1> QED
    BY <1>5, <1>6, <1>7, <1>8, <1>9, <1>10, <1>11, <1>12, <1>14, <1>15 DEF ClientNext, Steps

\* Nobody has read anything at the start.
LEMMA InitCurveInv == ClientInit => CurveInv
  <1> SUFFICES ASSUME ClientInit PROVE CurveInv
    OBVIOUS
  <1>1. \A c \in Clients : CurveOf(c)
    BY DEF ClientInit, NewClient, CurveOf, CurveSoFar, BlockSoFar, OwnCurve
  <1> QED
    BY <1>1, InitMemInv DEF CurveInv

-----------------------------------------------------------------------------
(* The theorems. *)

\* The inductive invariant holds for any number of clients and channels, and any
\* sizes of blocks, pages and payloads.
THEOREM AcqAInv == ClientSpec => []AInv
  BY InitAInv, NextAInv, PTL DEF ClientSpec

\* The state of SMIO, core and clients keeps its type: a block is read for one
\* client at a time, and no more is copied than the caller has room for.
THEOREM AcqTypes == ClientSpec => []AcqTypeOK
  <1>1. AInv => AcqTypeOK
    <2> SUFFICES ASSUME AInv PROVE AcqTypeOK
      OBVIOUS
    <2>1. params \in [Chans -> Param] /\ curr \in Chans /\ nacq \in 0..MaxAcq
          /\ fpga.id <= nacq /\ fpga \in Core
      BY DEF AInv, CoreTypes
    <2>2. fpga.state \in {"idle", "acquiring"} /\ fpga.trigger \in Triggers \cup {"none"}
      BY <2>1 DEF Core
    <2>3. block.pc \in {"idle", "read", "dead"}
      BY DEF AInv, ClientTypes, Block
    <2>4. ASSUME NEW c \in Clients
          PROVE  /\ cl[c].pc \in {"idle", "poll", "curve", "wait"} /\ cl[c].room >= 0
                 /\ cl[c].result \in {"none", "success", "error", "timeout"}
                 /\ cl[c].pc = "wait" => block.pc # "idle"
      <3>1. cl[c] \in Client /\ (cl[c].pc = "wait" => block.pc # "idle")
        BY DEF AInv, ClientTypes, OneReader
      <3> QED
        BY <3>1 DEF Client
    <2> QED
      BY <2>1, <2>2, <2>3, <2>4 DEF AcqTypeOK, Param
  <1> QED
    BY <1>1, AcqAInv, PTL

\* An acquisition runs with the trigger it was prepared for, whatever triggers other
\* clients configure, fire or stop meanwhile.
THEOREM TriggerOfAcquisition == ClientSpec => []TriggerMatches
  <1>1. AInv => TriggerMatches
    BY DEF AInv
  <1> QED
    BY <1>1, AcqAInv, PTL

\* A client whose acquisition nobody disturbed is refused a block only after a full
\* last one, for every request that fits the ring.
THEOREM RefusedOnlyWhenFull == ClientSpec => []CurveFailsOnlyWhenFull
  <1>1. AInv => CurveFailsOnlyWhenFull
    BY DEF AInv, RefusedWhenFull, CurveFailsOnlyWhenFull
  <1> QED
    BY <1>1, AcqAInv, PTL

\* Whoever started an acquisition owns what its channel's memory holds, until it is
\* disturbed: the parameters the SMIO keeps for the channel are those of the request; while
\* the core runs it, it runs with these; once the SMIO has read the trigger address, the ring
\* holds every unit of it around that address, whatever other channels acquire, other
\* clients ask and the triggers do meanwhile.
THEOREM AcquisitionsAreOwned == ClientSpec => []MemInv
  BY InitMemInv, NextMemInv, PTL DEF ClientSpec

\* A curve that halcs_get_curve read successfully consists of the samples asked for: those
\* of the client's own acquisition, without the alignment padding, in order, shot after
\* shot, across the end of the ring and the pages of PCIe, for any number of clients and
\* channels, and any sizes of blocks, pages, payloads, samples and rings.
THEOREM CurvesAreOwn == ClientSpec => []CurveIsOwn
  <1>1. ClientSpec => []CurveInv
    BY InitCurveInv, NextCurveInv, PTL DEF ClientSpec
  <1>2. CurveInv => CurveIsOwn
    BY DEF CurveInv, CurveOf, OwnCurve, CurveIsOwn
  <1> QED
    BY <1>1, <1>2, PTL
=============================================================================
