-------------------------- MODULE ParamCallsProofs --------------------------
(****************************************************************************)
(* Proofs about the parameters, for any set of SMIOs, any number of calls   *)
(* and failures and any moment at which clients are first served.  The      *)
(* tables are not unfolded: what they have in common is in ParamTables.     *)
(****************************************************************************)
EXTENDS ParamTables, FiniteSetTheorems, TLAPS

-----------------------------------------------------------------------------
(* Dispatch.                                                                *)

\* The codes of the first i operations are i codes.
LEMMA FirstCodes ==
    ASSUME NEW s \in DOMAIN Ops, NEW i \in DOMAIN Ops[s]
    PROVE  Cardinality({Number(s, j) : j \in 1..i}) = i
  <1> DEFINE T == {Number(s, j) : j \in 1..i}
             f == [j \in 1..i |-> Number(s, j)]
  <1>1. i \in Nat /\ i >= 1 /\ \A j \in 1..i : j \in DOMAIN Ops[s]
    BY TablesAreComplete
  <1>2. \A j, k \in 1..i : Number(s, j) = Number(s, k) => j = k
    BY <1>1, CodesAreDistinct
  <1>3. f \in Bijection(1..i, T)
    BY <1>2 DEF Bijection, Injection, Surjection, IsInjective
  <1>4. ExistsBijection(1..i, T)
    BY <1>3 DEF ExistsBijection
  <1>5. IsFiniteSet(1..i) /\ Cardinality(1..i) = i
    BY <1>1, FS_Interval
  <1> QED
    BY <1>4, <1>5, FS_Bijection

\* disp_table_insert_all inserts every operation, and the lookup finds it under its code.
LEMMA DispatchFinds ==
    ASSUME NEW s \in DOMAIN Ops, NEW i \in DOMAIN Ops[s]
    PROVE  Number(s, i) \in DOMAIN Dispatch[s] /\ Dispatch[s][Number(s, i)] = i
  <1> DEFINE in == {k \in DOMAIN Ops[s] : Cardinality({Number(s, j) : j \in 1..k}) = k}
  <1>1. in = DOMAIN Ops[s]
    BY FirstCodes
  <1>2. Dispatch[s] = [n \in {Number(s, k) : k \in in} |-> CHOOSE k \in in : Number(s, k) = n]
    BY DEF Dispatch
  <1> HIDE DEF in
  <1>3. Number(s, i) \in {Number(s, k) : k \in in}
    BY <1>1
  <1>4. Dispatch[s][Number(s, i)] = CHOOSE k \in in : Number(s, k) = Number(s, i)
    BY <1>2, <1>3
  <1>5. \A k \in in : Number(s, k) = Number(s, i) => k = i
    BY <1>1, CodesAreDistinct
  <1>6. (CHOOSE k \in in : Number(s, k) = Number(s, i)) = i
    BY <1>1, <1>5
  <1> QED
    BY <1>2, <1>3, <1>4, <1>6


\* What a client library, or a configuration thread, may ask of an SMIO.
IsOffered(s, q) ==
    \E f \in Offers[s] : /\ q.lib = f.lib /\ q.rw = f.o.rw /\ q.op = f.o.op
                         /\ q.args = f.o.args /\ q.ret = f.o.ret

\* Whatever is offered is dispatched to the function of its name, with the sizes that it expects.
LEMMA OfferIsHandled ==
    ASSUME NEW s \in DOMAIN Ops, NEW q, IsOffered(s, q)
    PROVE  /\ Known(s, q) /\ Desc(s, q).args = q.args
           /\ q.rw = "get" => Desc(s, q).ret = q.ret
           /\ Func(s, q) = q.op \/ <<q.op, Func(s, q)>> \in Renamed
           /\ \E i \in DOMAIN Ops[s] : Number(s, i) = Codes[q.lib][q.op] /\ Func(s, q) = Funcs[s][i]
  <1>1. PICK f \in Offers[s] : /\ q.lib = f.lib /\ q.rw = f.o.rw /\ q.op = f.o.op
                               /\ q.args = f.o.args /\ q.ret = f.o.ret
    BY DEF IsOffered
  <1>2. PICK i \in DOMAIN Ops[s] :
            /\ Number(s, i) = Codes[f.lib][f.o.op]
            /\ Descs[s][Ops[s][i]].args = f.o.args
            /\ f.o.rw = "get" => Descs[s][Ops[s][i]].ret = f.o.ret
            /\ Funcs[s][i] = f.o.op \/ <<f.o.op, Funcs[s][i]>> \in Renamed
    BY CallsAreExported
  <1>3. Codes[q.lib][q.op] = Number(s, i)
    BY <1>1, <1>2
  <1>4. Known(s, q) /\ Handler(s, q) = i
    BY <1>3, DispatchFinds DEF Known, Handler
  <1>5. Func(s, q) = Funcs[s][i] /\ Desc(s, q) = Descs[s][Ops[s][i]]
    BY <1>4 DEF Func, Desc
  <1>6. Func(s, q) = q.op \/ <<q.op, Func(s, q)>> \in Renamed
    BY <1>1, <1>2, <1>5
  <1>7. Desc(s, q).args = q.args /\ (q.rw = "get" => Desc(s, q).ret = q.ret)
    BY <1>1, <1>2, <1>5
  <1> QED
    BY <1>3, <1>4, <1>5, <1>6, <1>7

-----------------------------------------------------------------------------
(* Registers and fields.                                                    *)

\* The register of a channel is one of the SMIO's, and the function works on it.
LEMMA AddressIsKnown ==
    ASSUME NEW s \in DOMAIN Ops, NEW f \in DOMAIN Params[s], NEW c \in 0..(Params[s][f].num - 1)
    PROVE  /\ Address(s, Params[s][f], c) \in DOMAIN OnRegister[s]
           /\ f \in OnRegister[s][Address(s, Params[s][f], c)]
  <1> DEFINE a == Address(s, Params[s][f], c)
  <1>1. a \in Places(s, f)
    BY DEF Places
  <1>2. s \in DOMAIN Params
    BY TablesAreComplete
  <1>3. OnRegister[s] = [b \in UNION {Places(s, g) : g \in DOMAIN Params[s]} |->
                            {g \in DOMAIN Params[s] : b \in Places(s, g)}]
    BY <1>2 DEF OnRegister
  <1> HIDE DEF a
  <1>4. a \in UNION {Places(s, g) : g \in DOMAIN Params[s]}
    BY <1>1
  <1> QED
    BY <1>1, <1>3, <1>4 DEF a

\* Two channels of a parameter have two registers.
LEMMA ChannelsAreApart ==
    ASSUME NEW s \in DOMAIN Ops, NEW f \in DOMAIN Params[s],
           NEW c \in 0..(Params[s][f].num - 1), NEW d \in 0..(Params[s][f].num - 1),
           Address(s, Params[s][f], c) = Address(s, Params[s][f], d)
    PROVE  c = d
  <1> DEFINE p == Params[s][f]
             base == Addrs[s][<<p.reg, p.first>>]
  <1>1. p.num \in Nat \ {0} /\ p.offset \in Nat /\ (p.num > 1 => p.offset > 0) /\ base \in Nat
    BY ParamsHaveChannels
  <1>2. base + c * p.offset = base + d * p.offset
    BY DEF Address
  <1>3. c \in Int /\ d \in Int /\ 0 <= c /\ 0 <= d /\ c < p.num /\ d < p.num
    BY <1>1
  <1>4. \A x, y, o \in Int : o > 0 /\ x * o = y * o => x = y
    OBVIOUS
  <1> HIDE DEF p, base
  <1>5. CASE p.num > 1
    <2>1. c * p.offset \in Int /\ d * p.offset \in Int
      BY <1>1, <1>3
    <2>2. c * p.offset = d * p.offset
      BY <1>1, <1>2, <2>1
    <2> QED
      BY <1>1, <1>3, <1>4, <1>5, <2>2
  <1>6. CASE ~(p.num > 1)
    BY <1>1, <1>3, <1>6
  <1> QED
    BY <1>5, <1>6

\* SET_PARAM writes a word of 32 bits if it read one.
LEMMA InsertInWord ==
    ASSUME NEW s \in DOMAIN Ops, NEW f \in DOMAIN Params[s], NEW w \in SUBSET AllBits, NEW v
    PROVE  Insert(s, Params[s][f], w, v) \subseteq AllBits
  BY FieldsAreRuns DEF Insert

\* SET_PARAM changes no bit that neither the mask nor the macros of the parameter name.
LEMMA InsertTouches ==
    ASSUME NEW s, NEW p, NEW w, NEW v
    PROVE  Insert(s, p, w, v) \ Touched(s, p) = w \ Touched(s, p)
  BY DEF Insert, Touched

\* Where the macros move the mask, SET_PARAM changes no bit outside the mask.
LEMMA InsertInMask ==
    ASSUME NEW s, NEW p, NEW w, NEW v, p.wide = {}
    PROVE  Insert(s, p, w, v) \ Mask(s, p) = w \ Mask(s, p)
  BY DEF Insert, Moved

\* GET_PARAM looks at no other bits.
LEMMA ExtractLooksAt ==
    ASSUME NEW s, NEW p, NEW w, NEW x, w \cap Touched(s, p) = x \cap Touched(s, p)
    PROVE  Extract(s, p, w) = Extract(s, p, x)
  <1>1. w \cap Mask(s, p) = x \cap Mask(s, p) /\ w \cap Moved(s, p) = x \cap Moved(s, p)
    BY DEF Touched
  <1> QED
    BY <1>1 DEF Extract

\* A SET of one parameter is not seen by a GET of another whose bits are its own.
LEMMA SetLeavesOthers ==
    ASSUME NEW s, NEW p, NEW g, NEW w, NEW v, Touched(s, p) \cap Touched(s, g) = {}
    PROVE  Extract(s, g, Insert(s, p, w, v)) = Extract(s, g, w)
  <1>1. Insert(s, p, w, v) \cap Touched(s, g) = w \cap Touched(s, g)
    BY InsertTouches
  <1> QED
    BY <1>1, ExtractLooksAt

\* A GET after a SET of a value the field has room for returns the value.
LEMMA SetThenGet ==
    ASSUME NEW s \in DOMAIN Ops, NEW f \in DOMAIN Params[s] \ Sticky, NEW w, NEW v,
           Fits(s, Params[s][f], v)
    PROVE  Extract(s, Params[s][f], Insert(s, Params[s][f], w, v)) = v
  <1> DEFINE p == Params[s][f]
             m == Mask(s, p)
  <1>1. m # {} /\ p.wide = {} /\ Moved(s, p) = m
    BY FieldsAreRuns DEF Moved
  <1>2. CASE p.single
    <2>1. v = {} \/ v = {0}
      BY <1>2 DEF Fits
    <2>2. CASE v = {}
      <3>1. Insert(s, p, w, v) \cap m = {}
        BY <1>2, <2>2 DEF Insert
      <3> QED
        BY <1>2, <2>2, <3>1 DEF Extract
    <2>3. CASE v = {0}
      <3>1. Insert(s, p, w, v) \cap m # {}
        BY <1>1, <1>2, <2>3 DEF Insert
      <3> QED
        BY <1>2, <2>3, <3>1 DEF Extract
    <2> QED
      BY <2>1, <2>2, <2>3
  <1>3. CASE ~p.single
    <2>1. PICK lo \in AllBits, hi \in AllBits : lo <= hi /\ m = lo..hi
      BY <1>1, FieldsAreRuns
    <2>2. lo \in Int /\ hi \in Int
      BY DEF AllBits
    <2>3. Cardinality(m) = hi - lo + 1
      BY <2>1, <2>2, FS_Interval
    <2>4. Min(m) = lo
      <3>1. lo \in m /\ \A y \in m : lo =< y
        BY <2>1, <2>2
      <3>2. \A x \in m : (\A y \in m : x =< y) => x = lo
        BY <2>1, <2>2
      <3> QED
        BY <3>1, <3>2 DEF Min
    <2>5. v \subseteq 0..(hi - lo)
      BY <1>1, <1>3, <2>2, <2>3 DEF Fits
    <2> HIDE DEF p, m
    <2>6. Insert(s, p, w, v) = (w \ m) \cup (Up(v, lo) \cap m)
      BY <1>1, <1>3, <2>4 DEF Insert, m
    <2>7. Up(v, lo) \subseteq m
      BY <2>1, <2>2, <2>5 DEF Up
    <2>8. Insert(s, p, w, v) \cap m = Up(v, lo)
      BY <2>6, <2>7
    <2>9. Extract(s, p, Insert(s, p, w, v)) = Down(Up(v, lo), lo)
      BY <1>1, <1>3, <2>4, <2>8 DEF Extract, m
    <2>10. Down(Up(v, lo), lo) = v
      <3>1. \A b \in v : b \in Int /\ (b + lo) - lo = b
        BY <2>2, <2>5
      <3> QED
        BY <3>1 DEF Up, Down
    <2> QED
      BY <2>9, <2>10 DEF p
  <1> QED
    BY <1>2, <1>3

-----------------------------------------------------------------------------
(* The inductive invariant.                                                 *)

Chans(f) == 0..(Params[smio][f].num - 1)

\* The registers are those of the SMIO's parameters, and words of 32 bits.
RegsOK ==
    /\ smio \in Smios
    /\ regs \in [DOMAIN OnRegister[smio] -> SUBSET AllBits]
    /\ events \in 0..MaxEvents

\* Value v of key k is a value of a channel of a parameter, and a GET of it would return it if the
\* registers were rg.
HoldsIn(rg, k, v) ==
    \E f \in DOMAIN Params[smio] : \E c \in Chans(f) :
        /\ k = <<f, c>>
        /\ v \subseteq AllBits
        /\ \/ f \in Shared \cup Sticky
           \/ Extract(smio, Params[smio][f], rg[Address(smio, Params[smio][f], c)]) = v

HeldOK == \A k \in DOMAIN held : HoldsIn(regs, k, held[k])

\* The configuration is at one of its defaults while it runs.  client_err says that a default failed;
\* and unless it may be lost, a failure is still in client_err, and was not tested yet.
CfgOK ==
    /\ cfg \in [at : 1..(Len(Defaults[smio]) + 1), cerr : BOOLEAN, failed : BOOLEAN,
                end : {"running", "success", "error", "none"}]
    /\ cfg.end = "running" => cfg.at \in DOMAIN Defaults[smio]
    /\ cfg.cerr => cfg.failed
    /\ cfg.end = "error" => cfg.failed
    /\ smio \notin LosesErrors =>
          /\ cfg.end = "success" => ~cfg.failed
          /\ cfg.end = "running" /\ cfg.failed =>
                cfg.cerr /\ cfg.at > 1 /\ ~Defaults[smio][cfg.at - 1].test

PInv == RegsOK /\ HeldOK /\ CfgOK

-----------------------------------------------------------------------------
(* One request.                                                             *)

\* A call of a library or of the configuration, on a channel that is a number.
GoodCall(q) ==
    /\ IsOffered(smio, q)
    /\ IsParam(smio, q) => q.chan \in Nat

\* A served request to a parameter is for one of its channels.
LEMMA ServedChannel ==
    ASSUME NEW q, smio \in DOMAIN Ops, GoodCall(q), OnParam(q)
    PROVE  Func(smio, q) \in DOMAIN Params[smio] /\ q.chan \in Chans(Func(smio, q))
  <1>1. Func(smio, q) \in DOMAIN Params[smio] /\ q.chan \in Nat
    BY DEF GoodCall, OnParam, IsParam
  <1>2. q.chan <= Params[smio][Func(smio, q)].num - 1 /\ Params[smio][Func(smio, q)].num \in Nat
    BY <1>1, ParamsHaveChannels DEF OnParam, ParamOf
  <1> QED
    BY <1>1, <1>2 DEF Chans

\* The bound on events is kept.
LEMMA EventsBounded ==
    ASSUME NEW q, NEW n \in 0..1, Event(q, n), events \in 0..MaxEvents
    PROVE  /\ events' \in 0..MaxEvents
           /\ q.by # "client" => events' = events + n
  <1> DEFINE k == IF q.by = "client" /\ q.rw = "set" THEN 1 ELSE n
  <1>1. events + k <= MaxEvents /\ events' = events + k
    BY DEF Event
  <1>2. k \in 0..1 /\ (q.by # "client" => k = n)
    OBVIOUS
  <1> HIDE DEF k
  <1> QED
    BY <1>1, <1>2, BoundsAssumption

\* Whatever a request does, the bound on events is kept.
LEMMA RequestBounded ==
    ASSUME NEW q, Request(q), events \in 0..MaxEvents
    PROVE  events' \in 0..MaxEvents
  <1>1. Event(q, 0) \/ Event(q, 1)
    BY DEF Request, Refuse, ChipCall, InvalidChannel, GetParam, SetRejected, SetParam, SetWriteFails,
           SetReadFails, NoFault, Fault
  <1> QED
    BY <1>1, EventsBounded

\* Only the SETs of parameters change registers or what is held.
LEMMA OthersLeaveRegisters ==
    ASSUME NEW q, Request(q), ~SetParam(q), ~SetWriteFails(q), ~SetReadFails(q)
    PROVE  UNCHANGED <<regs, held>>
  BY DEF Request, Refuse, ChipCall, InvalidChannel, GetParam, SetRejected

\* A word that is read from an unchanged register is the same.
LEMMA HoldsStill ==
    ASSUME NEW k, NEW v, HoldsIn(regs, k, v),
           \A f \in DOMAIN Params[smio] : \A c \in Chans(f) :
              k = <<f, c>> => regs'[Address(smio, Params[smio][f], c)] = regs[Address(smio, Params[smio][f], c)]
    PROVE  HoldsIn(regs', k, v)
  BY DEF HoldsIn

\* HeldOK after a step, from what holds of every key.
LEMMA HeldFromKeys ==
    ASSUME smio' = smio, \A k \in DOMAIN held' : HoldsIn(regs', k, held'[k])
    PROVE  HeldOK'
  BY DEF HeldOK, HoldsIn, Chans

\* The SET of a parameter.
LEMMA SetParamKeeps ==
    ASSUME NEW q, smio' = smio, smio \in DOMAIN Ops, RegsOK, HeldOK, GoodCall(q), SetParam(q)
    PROVE  regs' \in [DOMAIN OnRegister[smio] -> SUBSET AllBits] /\ HeldOK'
  <1> DEFINE F == Func(smio, q)
             C == q.chan
             p == Params[smio][F]
             a == Address(smio, p, C)
             w == regs[a]
  <1>1. OnParam(q) /\ InLimits(p, q.val)
        /\ regs' = [regs EXCEPT ![a] = Insert(smio, p, regs[a], q.val)]
        /\ held' = IF Fits(smio, p, q.val) THEN Remember(<<F, C>>, q.val) ELSE Forget({<<F, C>>})
    BY DEF SetParam, ParamOf
  <1>2. F \in DOMAIN Params[smio] /\ C \in Chans(F)
    BY <1>1, ServedChannel
  <1>3. a \in DOMAIN OnRegister[smio] /\ F \in OnRegister[smio][a]
    BY <1>2, AddressIsKnown DEF Chans
  <1>4. regs \in [DOMAIN OnRegister[smio] -> SUBSET AllBits]
    BY DEF RegsOK
  <1>5. Insert(smio, p, w, q.val) \subseteq AllBits
    BY <1>2, <1>3, <1>4, InsertInWord
  <1>6. p.limit \in 0..32 /\ q.val \subseteq 0..(p.limit - 1)
    BY <1>1, <1>2, ParamsHaveChannels DEF InLimits
  <1>7. q.val \subseteq AllBits
    BY <1>6 DEF AllBits
  <1> HIDE DEF F, C, p, a, w
  <1>8. regs' \in [DOMAIN OnRegister[smio] -> SUBSET AllBits]
    BY <1>1, <1>3, <1>4, <1>5 DEF w
  <1>9. regs'[a] = Insert(smio, p, w, q.val) /\ \A b \in DOMAIN OnRegister[smio] \ {a} : regs'[b] = regs[b]
    BY <1>1, <1>3, <1>4 DEF w
  <1>10. ASSUME NEW k \in DOMAIN held, k # <<F, C>>
         PROVE  HoldsIn(regs', k, held[k])
    <2>1. PICK g \in DOMAIN Params[smio] : \E d \in Chans(g) :
                 /\ k = <<g, d>> /\ held[k] \subseteq AllBits
                 /\ \/ g \in Shared \cup Sticky
                    \/ Extract(smio, Params[smio][g], regs[Address(smio, Params[smio][g], d)]) = held[k]
      BY DEF HeldOK, HoldsIn
    <2>2. PICK d \in Chans(g) :
                 /\ k = <<g, d>> /\ held[k] \subseteq AllBits
                 /\ \/ g \in Shared \cup Sticky
                    \/ Extract(smio, Params[smio][g], regs[Address(smio, Params[smio][g], d)]) = held[k]
      BY <2>1
    <2> DEFINE b == Address(smio, Params[smio][g], d)
    <2>3. b \in DOMAIN OnRegister[smio] /\ g \in OnRegister[smio][b]
      BY AddressIsKnown DEF Chans
    <2>4. CASE b # a
      <3>1. regs'[b] = regs[b]
        BY <1>9, <2>3, <2>4
      <3> QED
        BY <2>2, <3>1 DEF HoldsIn
    <2>5. CASE b = a
      <3>1. g # F
        <4>1. SUFFICES ASSUME g = F PROVE FALSE
          OBVIOUS
        <4>2. d = C
          BY <1>2, <2>5, <4>1, ChannelsAreApart DEF Chans, p, a
        <4> QED
          BY <1>10, <2>2, <4>1, <4>2
      <3>2. CASE g \in Shared \cup Sticky
        BY <2>2, <3>2 DEF HoldsIn
      <3>3. CASE g \notin Shared \cup Sticky
        <4>1. Touched(smio, p) \cap Touched(smio, Params[smio][g]) = {}
          BY <1>3, <2>3, <2>5, <3>1, <3>3, FieldsAreApart DEF p
        <4>2. Extract(smio, Params[smio][g], regs'[a]) = Extract(smio, Params[smio][g], regs[a])
          BY <1>9, <4>1, SetLeavesOthers DEF w
        <4> QED
          BY <2>2, <2>5, <3>3, <4>2 DEF HoldsIn
      <3> QED
        BY <3>2, <3>3
    <2> QED
      BY <2>4, <2>5
  <1>11. ASSUME Fits(smio, p, q.val)
         PROVE  HoldsIn(regs', <<F, C>>, q.val)
    <2>1. CASE F \in Sticky
      BY <1>2, <1>7, <2>1 DEF HoldsIn
    <2>2. CASE F \notin Sticky
      <3>1. Extract(smio, p, Insert(smio, p, w, q.val)) = q.val
        BY <1>2, <1>11, <2>2, SetThenGet DEF p
      <3>2. Extract(smio, Params[smio][F], regs'[Address(smio, Params[smio][F], C)]) = q.val
        BY <1>9, <3>1 DEF a, p
      <3> QED
        BY <1>2, <1>7, <3>2 DEF HoldsIn
    <2> QED
      BY <2>1, <2>2
  <1>12. \A k \in DOMAIN held' :
            \/ k \in DOMAIN held /\ k # <<F, C>> /\ held'[k] = held[k]
            \/ Fits(smio, p, q.val) /\ k = <<F, C>> /\ held'[k] = q.val
    <2>1. CASE Fits(smio, p, q.val)
      BY <1>1, <2>1 DEF Remember
    <2>2. CASE ~Fits(smio, p, q.val)
      BY <1>1, <2>2 DEF Forget
    <2> QED
      BY <2>1, <2>2
  <1>13. \A k \in DOMAIN held' : HoldsIn(regs', k, held'[k])
    BY <1>10, <1>11, <1>12
  <1> QED
    BY <1>8, <1>13, HeldFromKeys

\* Forgetting keys while no register changes.
LEMMA ForgetKeeps ==
    ASSUME smio' = smio, HeldOK, regs' = regs,
           held' = held \/ \E ks : held' = Forget(ks)
    PROVE  HeldOK'
  <1>1. \A k \in DOMAIN held' : k \in DOMAIN held /\ held'[k] = held[k]
    BY DEF Forget
  <1>2. \A k \in DOMAIN held' : HoldsIn(regs', k, held'[k])
    BY <1>1 DEF HeldOK
  <1> QED
    BY <1>2, HeldFromKeys

\* The SET of a parameter whose write fails: the register keeps its word.
LEMMA SetWriteFailsKeeps ==
    ASSUME NEW q, smio' = smio, HeldOK, SetWriteFails(q)
    PROVE  regs' = regs /\ HeldOK'
  <1>1. regs' = regs /\ (held' = held \/ held' = Forget({<<Func(smio, q), q.chan>>}))
    BY DEF SetWriteFails
  <1> QED
    BY <1>1, ForgetKeeps

\* The SET of a parameter whose read fails: nothing is known any more of the fields of its register,
\* and the other registers keep their words.
LEMMA SetReadFailsKeeps ==
    ASSUME NEW q, smio' = smio, smio \in DOMAIN Ops, RegsOK, HeldOK, GoodCall(q), SetReadFails(q)
    PROVE  regs' \in [DOMAIN OnRegister[smio] -> SUBSET AllBits] /\ HeldOK'
  <1> DEFINE F == Func(smio, q)
             C == q.chan
             p == Params[smio][F]
             a == Address(smio, p, C)
             ks == {k \in DOMAIN held : Address(smio, Params[smio][k[1]], k[2]) = a}
  <1>1. OnParam(q) /\ held' = Forget(ks)
        /\ \E junk \in {{}, AllBits} : regs' = [regs EXCEPT ![a] = Insert(smio, p, junk, q.val)]
    BY DEF SetReadFails, ParamOf
  <1>2. F \in DOMAIN Params[smio] /\ C \in Chans(F)
    BY <1>1, ServedChannel
  <1>3. a \in DOMAIN OnRegister[smio]
    BY <1>2, AddressIsKnown DEF Chans
  <1>4. regs \in [DOMAIN OnRegister[smio] -> SUBSET AllBits]
    BY DEF RegsOK
  <1>5. PICK junk \in SUBSET AllBits : regs' = [regs EXCEPT ![a] = Insert(smio, p, junk, q.val)]
    BY <1>1
  <1>6. Insert(smio, p, junk, q.val) \subseteq AllBits
    BY <1>2, InsertInWord
  <1>7. \A k \in DOMAIN held' : k \in DOMAIN held /\ k \notin ks /\ held'[k] = held[k]
    BY <1>1 DEF Forget
  <1>8. ASSUME NEW k \in DOMAIN held, k \notin ks
        PROVE  HoldsIn(regs', k, held[k])
    <2>1. ASSUME NEW f \in DOMAIN Params[smio], NEW c \in Chans(f), k = <<f, c>>
          PROVE  regs'[Address(smio, Params[smio][f], c)] = regs[Address(smio, Params[smio][f], c)]
      <3>1. Address(smio, Params[smio][f], c) # a
        BY <1>8, <2>1
      <3>2. Address(smio, Params[smio][f], c) \in DOMAIN OnRegister[smio]
        BY AddressIsKnown DEF Chans
      <3> HIDE DEF a
      <3> QED
        BY <1>4, <1>5, <3>1, <3>2
    <2>2. HoldsIn(regs, k, held[k])
      BY DEF HeldOK
    <2> QED
      BY <2>1, <2>2, HoldsStill
  <1> HIDE DEF F, C, p, a, ks
  <1>9. \A k \in DOMAIN held' : HoldsIn(regs', k, held'[k])
    BY <1>7, <1>8
  <1>10. regs' \in [DOMAIN OnRegister[smio] -> SUBSET AllBits]
    BY <1>3, <1>4, <1>5, <1>6
  <1> QED
    BY <1>9, <1>10, HeldFromKeys

\* No request makes a register more than a word, or a held value one that a GET would not return.
LEMMA RequestKeeps ==
    ASSUME NEW q, smio' = smio, smio \in DOMAIN Ops, RegsOK, HeldOK, GoodCall(q), Request(q)
    PROVE  RegsOK' /\ HeldOK'
  <1>1. events' \in 0..MaxEvents
    BY RequestBounded DEF RegsOK
  <1>2. regs' \in [DOMAIN OnRegister[smio] -> SUBSET AllBits] /\ HeldOK'
    <2>1. CASE SetParam(q)
      BY <2>1, SetParamKeeps
    <2>2. CASE SetWriteFails(q)
      BY <2>2, SetWriteFailsKeeps DEF RegsOK
    <2>3. CASE SetReadFails(q)
      BY <2>3, SetReadFailsKeeps
    <2>4. CASE ~SetParam(q) /\ ~SetWriteFails(q) /\ ~SetReadFails(q)
      <3>1. regs' = regs /\ held' = held
        BY <2>4, OthersLeaveRegisters
      <3> QED
        BY <3>1, ForgetKeeps DEF RegsOK
    <2> QED
      BY <2>1, <2>2, <2>3, <2>4
  <1> QED
    BY <1>1, <1>2 DEF RegsOK

-----------------------------------------------------------------------------
(* What a request answers.                                                  *)

\* Whatever is asked, the answer repeats the request, and is for its function and room unless refused.
LEMMA RequestAnswers ==
    ASSUME NEW q, smio \in DOMAIN Ops, GoodCall(q), Request(q)
    PROVE  /\ reply'.rw = q.rw /\ reply'.op = q.op /\ reply'.chan = q.chan /\ reply'.ret = q.ret
           /\ reply'.func = Func(smio, q) /\ reply'.room = Desc(smio, q).ret
           /\ reply'.code \notin {"none", "no_func", "inv_args"}
  <1>1. Known(smio, q) /\ Desc(smio, q).args = q.args
    BY OfferIsHandled DEF GoodCall
  <1>2. ~Refuse(q)
    BY <1>1 DEF Refuse
  <1>3. PICK code, val : /\ Answer(q, Func(smio, q), code, val, Desc(smio, q).ret)
                         /\ code \in {"ok", "error", "inv", "garbage", "eagain", "usr_err", "lost", "spoilt"}
    BY <1>2 DEF Request, ChipCall, InvalidChannel, GetParam, SetRejected, SetParam, SetWriteFails, SetReadFails
  <1> QED
    BY <1>3 DEF Answer

\* A call of a library reaches the function it is named after.
LEMMA RequestReaches ==
    ASSUME NEW q, smio \in DOMAIN Ops, GoodCall(q), Request(q)
    PROVE  CallsReachTheirFunction'
  <1>1. /\ reply'.rw = q.rw /\ reply'.op = q.op /\ reply'.ret = q.ret
        /\ reply'.func = Func(smio, q) /\ reply'.room = Desc(smio, q).ret
        /\ reply'.code \notin {"none", "no_func", "inv_args"}
    BY RequestAnswers
  <1>2. /\ q.rw = "get" => Desc(smio, q).ret = q.ret
        /\ Func(smio, q) = q.op \/ <<q.op, Func(smio, q)>> \in Renamed
    BY OfferIsHandled DEF GoodCall
  <1> QED
    BY <1>1, <1>2 DEF CallsReachTheirFunction

\* Only a SET of a parameter changes a register and answers with success.
LEMMA SuccessIsSet ==
    ASSUME NEW q, Request(q), regs' # regs, reply'.code = "ok"
    PROVE  SetParam(q)
  <1>1. SetParam(q) \/ SetWriteFails(q) \/ SetReadFails(q)
    BY OthersLeaveRegisters
  <1>2. ~SetWriteFails(q)
    BY DEF SetWriteFails
  <1>3. ~SetReadFails(q)
    BY DEF SetReadFails, Answer
  <1> QED
    BY <1>1, <1>2, <1>3

\* A SET stays in the field of the channel that the register map gives to it.
LEMMA RequestStaysInField ==
    ASSUME NEW q, smio \in DOMAIN Ops, RegsOK, GoodCall(q), Request(q)
    PROVE  SetStaysInItsField
  <1> SUFFICES ASSUME regs' # regs, reply'.code = "ok"
               PROVE  LET p == Params[smio][reply'.func]
                          a == Addrs[smio][<<p.reg, p.first + reply'.chan>>]
                      IN /\ \A b \in DOMAIN regs \ {a} : regs'[b] = regs[b]
                         /\ regs[a] \ OwnBits(p, reply'.chan) = regs'[a] \ OwnBits(p, reply'.chan) \/ p.wide # {}
                         /\ \A f \in OnRegister[smio][a] \ {reply'.func} :
                               \/ {f, reply'.func} \subseteq Shared
                               \/ Extract(smio, Params[smio][f], regs[a]) = Extract(smio, Params[smio][f], regs'[a])
    BY DEF SetStaysInItsField
  <1> DEFINE F == Func(smio, q)
             C == q.chan
             p == Params[smio][F]
             a == Address(smio, p, C)
  <1>1. SetParam(q)
    BY SuccessIsSet
  <1>2. OnParam(q) /\ regs' = [regs EXCEPT ![a] = Insert(smio, p, regs[a], q.val)]
    BY <1>1 DEF SetParam, ParamOf
  <1>3. reply'.func = F /\ reply'.chan = C
    BY RequestAnswers
  <1>4. F \in DOMAIN Params[smio] /\ C \in Chans(F)
    BY <1>2, ServedChannel
  <1>5. a \in DOMAIN OnRegister[smio] /\ F \in OnRegister[smio][a]
    BY <1>4, AddressIsKnown DEF Chans
  <1>6. Addrs[smio][<<p.reg, p.first + C>>] = a
    BY <1>4, BanksAreRegular DEF Address, Chans
  <1>7. OwnBits(p, C) = Mask(smio, p)
    BY <1>4, BanksAreRegular DEF OwnBits, Mask, Chans
  <1>8. regs \in [DOMAIN OnRegister[smio] -> SUBSET AllBits]
    BY DEF RegsOK
  <1> HIDE DEF F, C, p, a
  <1>9. regs'[a] = Insert(smio, p, regs[a], q.val) /\ \A b \in DOMAIN regs \ {a} : regs'[b] = regs[b]
    BY <1>2, <1>5, <1>8
  <1>10. regs[a] \ OwnBits(p, C) = regs'[a] \ OwnBits(p, C) \/ p.wide # {}
    BY <1>7, <1>9, InsertInMask
  <1>11. ASSUME NEW f \in OnRegister[smio][a] \ {F}, ~({f, F} \subseteq Shared)
         PROVE  Extract(smio, Params[smio][f], regs[a]) = Extract(smio, Params[smio][f], regs'[a])
    <2>1. Touched(smio, p) \cap Touched(smio, Params[smio][f]) = {}
      BY <1>5, <1>11, FieldsAreApart DEF p
    <2> QED
      BY <1>9, <2>1, SetLeavesOthers
  <1> QED
    BY <1>3, <1>6, <1>9, <1>10, <1>11 DEF p

-----------------------------------------------------------------------------
(* Who asks.                                                                *)

\* An SMIO of the instance has tables.
LEMMA SmioKnown ==
    ASSUME RegsOK
    PROVE  smio \in DOMAIN Ops
  BY TablesAreComplete DEF RegsOK

\* What a client's call finds depends on nothing but the library and the operation it names.
LEMMA SameCall ==
    ASSUME NEW s, NEW q, NEW r, q.lib = r.lib, q.op = r.op
    PROVE  IsParam(s, q) = IsParam(s, r) /\ ParamOf(s, q) = ParamOf(s, r) /\ Func(s, q) = Func(s, r)
  <1>1. Known(s, q) = Known(s, r) /\ Handler(s, q) = Handler(s, r)
    BY DEF Known, Handler
  <1>2. Func(s, q) = Func(s, r)
    BY <1>1 DEF Func
  <1> QED
    BY <1>1, <1>2 DEF IsParam, ParamOf

\* The calls that clients make are good calls.
LEMMA ClientCallIsGood ==
    ASSUME smio \in DOMAIN Ops, NEW f \in Offers[smio], NEW chan \in ClientChans(f.lib, f.o.op), NEW val
    PROVE  GoodCall(ToRequest("client", f.lib, f.o, chan, val))
  <1> DEFINE q == ToRequest("client", f.lib, f.o, chan, val)
             r == [lib |-> f.lib, op |-> f.o.op]
  <1>1. /\ q.lib = f.lib /\ q.rw = f.o.rw /\ q.op = f.o.op /\ q.args = f.o.args /\ q.ret = f.o.ret
        /\ q.chan = chan /\ r.lib = f.lib /\ r.op = f.o.op
    BY DEF ToRequest
  <1>2. chan \in IF ~IsParam(smio, r) THEN {0}
                 ELSE IF ParamOf(smio, r).num = 1 THEN {0} ELSE {0, ParamOf(smio, r).num - 1, ParamOf(smio, r).num}
    BY DEF ClientChans
  <1> HIDE DEF q, r
  <1>3. IsOffered(smio, q)
    BY <1>1 DEF IsOffered
  <1>4. ASSUME IsParam(smio, q)
        PROVE  chan \in Nat
    <2>1. IsParam(smio, r)
      BY <1>1, <1>4, SameCall
    <2>2. ParamOf(smio, r).num \in Nat \ {0}
      BY <2>1, ParamsHaveChannels DEF IsParam, ParamOf
    <2> QED
      BY <1>2, <2>1, <2>2
  <1> QED
    BY <1>1, <1>3, <1>4 DEF GoodCall, q

\* The call of a default, as the configuration thread makes it.
DefaultCall(i) ==
    LET d == Defaults[smio][i] IN ToRequest("config", d.lib, Kind(d.lib, d.rw, d.op), d.chan, d.val)

\* The calls of the configuration are good calls, on a channel of the parameter and within its limits.
LEMMA DefaultIsGood ==
    ASSUME smio \in DOMAIN Ops, NEW i \in DOMAIN Defaults[smio], NEW q, q = DefaultCall(i)
    PROVE  /\ GoodCall(q) /\ q.by = "config"
           /\ IsParam(smio, q) =>
                 /\ q.chan <= ParamOf(smio, q).num - 1
                 /\ q.rw = "set" => InLimits(ParamOf(smio, q), q.val)
                 /\ smio \notin LosesErrors => ~ParamOf(smio, q).quiet
  <1> DEFINE d == Defaults[smio][i]
             o == Kind(d.lib, d.rw, d.op)
  <1>1. /\ [o |-> o, lib |-> d.lib] \in Offers[smio] /\ o.op = d.op
        /\ \A p \in ParamsOfDefault(smio, d) :
              d.chan \in 0..(p.num - 1) /\ (o.rw = "set" => InLimits(p, d.val))
    BY DefaultsAreCalls
  <1>2. smio \notin LosesErrors => \A p \in ParamsOfDefault(smio, d) : ~p.quiet
    BY ErrorsAreTested
  <1> HIDE DEF o, d
  <1>3. /\ q.by = "config" /\ q.lib = d.lib /\ q.rw = o.rw /\ q.op = o.op /\ q.args = o.args /\ q.ret = o.ret
        /\ q.chan = d.chan /\ q.val = d.val
    BY DEF DefaultCall, ToRequest, d, o
  <1>4. IsOffered(smio, q)
    <2> DEFINE f == [o |-> o, lib |-> d.lib]
    <2>1. f \in Offers[smio] /\ f.o = o /\ f.lib = d.lib
      BY <1>1
    <2> HIDE DEF f
    <2> QED
      BY <1>3, <2>1 DEF IsOffered
  <1>5. PICK j \in DOMAIN Ops[smio] : Number(smio, j) = Codes[q.lib][q.op] /\ Func(smio, q) = Funcs[smio][j]
    BY <1>4, OfferIsHandled
  <1>6. ASSUME IsParam(smio, q)
        PROVE  ParamOf(smio, q) \in ParamsOfDefault(smio, d)
    <2>1. Func(smio, q) \in DOMAIN Params[smio]
      BY <1>6 DEF IsParam
    <2>2. Number(smio, j) = Codes[d.lib][d.op]
      BY <1>1, <1>3, <1>5
    <2> QED
      BY <1>5, <2>1, <2>2 DEF ParamsOfDefault, ParamOf
  <1>7. IsParam(smio, q) => ParamOf(smio, q).num \in Nat
    BY ParamsHaveChannels DEF IsParam, ParamOf
  <1>8. IsParam(smio, q) => d.chan \in Nat /\ d.chan <= ParamOf(smio, q).num - 1
    BY <1>1, <1>6, <1>7
  <1> QED
    BY <1>1, <1>2, <1>3, <1>4, <1>6, <1>8 DEF GoodCall

\* The results after which client_err is set.
Failed(code) == code \notin {"ok", "lost", "garbage"}

\* A default fails only if an access failed, and its failure is reported unless its function hides it.
LEMMA DefaultFails ==
    ASSUME RegsOK, smio \in DOMAIN Ops, NEW i \in DOMAIN Defaults[smio], NEW q, q = DefaultCall(i), Request(q)
    PROVE  /\ Failed(reply'.code) => events' # events
           /\ smio \notin LosesErrors /\ events' # events => Failed(reply'.code)
  <1>1. /\ GoodCall(q) /\ q.by = "config"
        /\ IsParam(smio, q) =>
              /\ q.chan <= ParamOf(smio, q).num - 1
              /\ q.rw = "set" => InLimits(ParamOf(smio, q), q.val)
              /\ smio \notin LosesErrors => ~ParamOf(smio, q).quiet
    BY DefaultIsGood
  <1>2. events \in 0..MaxEvents
    BY DEF RegsOK
  <1>3. NoFault(q) => events' = events
    BY <1>1, <1>2, EventsBounded, BoundsAssumption DEF NoFault
  <1>4. Fault(q) => events' # events
    <2>1. Fault(q) => events' = events + 1
      BY <1>1, <1>2, EventsBounded DEF Fault
    <2> QED
      BY <1>2, <2>1
  <1>5. ~Refuse(q)
    BY <1>1, OfferIsHandled DEF Refuse, GoodCall
  <1>6. ~InvalidChannel(q)
    <2>1. IsParam(smio, q) => q.chan \in Nat /\ ParamOf(smio, q).num \in Nat
      BY <1>1, ParamsHaveChannels DEF IsParam, ParamOf, GoodCall
    <2> QED
      BY <1>1, <2>1 DEF InvalidChannel
  <1>7. ~SetRejected(q)
    BY <1>1 DEF SetRejected, OnParam
  <1>8. CASE ChipCall(q)
    BY <1>3, <1>4, <1>8 DEF ChipCall, Answer, Failed
  <1>9. CASE GetParam(q)
    BY <1>1, <1>3, <1>4, <1>9 DEF GetParam, OnParam, Answer, Failed
  <1>10. CASE SetParam(q)
    BY <1>3, <1>10 DEF SetParam, Answer, Failed
  <1>11. CASE SetWriteFails(q)
    BY <1>1, <1>4, <1>11 DEF SetWriteFails, OnParam, Answer, Failed
  <1>12. CASE SetReadFails(q)
    BY <1>1, <1>4, <1>12 DEF SetReadFails, OnParam, Answer, Failed
  <1> QED
    BY <1>5, <1>6, <1>7, <1>8, <1>9, <1>10, <1>11, <1>12 DEF Request

\* One default: the request, and what becomes of client_err.
LEMMA ConfigStepParts ==
    ASSUME ConfigStep
    PROVE  /\ smio' = smio /\ cfg.end = "running" /\ Request(DefaultCall(cfg.at))
           /\ LET d == Defaults[smio][cfg.at]
                  cerr == Kept(d, Failed(reply'.code))
              IN cfg' = [at |-> cfg.at + 1, cerr |-> cerr, failed |-> cfg.failed \/ events' # events,
                         end |-> IF d.test /\ cerr THEN "error"
                                 ELSE IF cfg.at = Len(Defaults[smio]) THEN "success" ELSE "running"]
  BY DEF ConfigStep, DefaultCall, Failed

\* A default keeps client_err, and the failure it stands for, until it is tested.
LEMMA ConfigStepKeeps ==
    ASSUME RegsOK, CfgOK, ConfigStep
    PROVE  CfgOK'
  <1> DEFINE i == cfg.at
             d == Defaults[smio][i]
             new == Failed(reply'.code)
             cerr == Kept(d, new)
             bad == cfg.failed \/ events' # events
             end == IF d.test /\ cerr THEN "error"
                    ELSE IF i = Len(Defaults[smio]) THEN "success" ELSE "running"
  <1>1. smio' = smio /\ cfg.end = "running" /\ Request(DefaultCall(i))
        /\ cfg' = [at |-> i + 1, cerr |-> cerr, failed |-> bad, end |-> end]
    BY ConfigStepParts
  <1>2. smio \in DOMAIN Ops
    BY SmioKnown
  <1>3. i \in DOMAIN Defaults[smio]
    BY <1>1 DEF CfgOK
  <1>4. DOMAIN Defaults[smio] = 1..Len(Defaults[smio]) /\ Len(Defaults[smio]) \in Nat
    BY <1>2, TablesAreComplete
  <1>5. /\ new => events' # events
        /\ smio \notin LosesErrors /\ events' # events => new
    BY <1>1, <1>2, <1>3, DefaultFails
  <1>6. d.keep \in {"assign", "or", "drop"} /\ d.test \in BOOLEAN
    BY <1>2, <1>3, DefaultsAreCalls
  <1>7. cfg.cerr \in BOOLEAN /\ cfg.failed \in BOOLEAN /\ (cfg.cerr => cfg.failed)
    BY DEF CfgOK
  <1>8. new \in BOOLEAN
    BY DEF Failed
  <1> HIDE DEF i, d, new
  <1>9. /\ d.keep = "assign" => cerr = new
        /\ d.keep = "or" => cerr = (cfg.cerr \/ new)
        /\ d.keep = "drop" => cerr = cfg.cerr
    BY DEF Kept
  <1> HIDE DEF cerr
  <1>10. cerr \in BOOLEAN /\ bad \in BOOLEAN /\ (cerr => bad)
    BY <1>5, <1>6, <1>7, <1>8, <1>9
  <1>11. end \in {"running", "success", "error"} /\ (end = "error" => d.test /\ cerr)
         /\ (end = "success" => i = Len(Defaults[smio]) /\ ~(d.test /\ cerr))
         /\ (end = "running" => i # Len(Defaults[smio]) /\ ~(d.test /\ cerr))
    OBVIOUS
  <1>12. i \in 1..Len(Defaults[smio]) /\ i + 1 \in 1..(Len(Defaults[smio]) + 1)
         /\ (i # Len(Defaults[smio]) => i + 1 \in DOMAIN Defaults[smio]) /\ (i + 1) - 1 = i /\ i + 1 > 1
    BY <1>3, <1>4
  <1>13. smio \notin LosesErrors /\ bad => cerr
    <2> SUFFICES ASSUME smio \notin LosesErrors, bad PROVE cerr
      OBVIOUS
    <2>1. /\ d.keep # "drop"
          /\ d.keep = "assign" => i = 1 \/ Defaults[smio][i - 1].test
      BY <1>2, <1>3, ErrorsAreTested DEF d
    <2>2. cfg.failed => cfg.cerr /\ i > 1 /\ ~Defaults[smio][i - 1].test
      BY <1>1 DEF CfgOK, i
    <2>3. cfg.failed => d.keep # "assign"
      BY <1>12, <2>1, <2>2
    <2>4. CASE cfg.failed
      BY <1>6, <1>9, <2>1, <2>2, <2>3, <2>4
    <2>5. CASE ~cfg.failed
      <3>1. new
        BY <1>5, <2>5
      <3> QED
        BY <1>6, <1>9, <2>1, <3>1
    <2> QED
      BY <2>4, <2>5
  <1>14. smio \notin LosesErrors => (i = Len(Defaults[smio]) => d.test)
    BY <1>2, <1>3, ErrorsAreTested DEF d
  <1> HIDE DEF bad, end
  <1>15. /\ cfg'.at = i + 1 /\ cfg'.cerr = cerr /\ cfg'.failed = bad /\ cfg'.end = end
         /\ cfg' \in [at : 1..(Len(Defaults[smio]) + 1), cerr : BOOLEAN, failed : BOOLEAN,
                      end : {"running", "success", "error", "none"}]
    BY <1>1, <1>10, <1>11, <1>12
  <1>16. cfg'.end = "running" => cfg'.at \in DOMAIN Defaults[smio]
    BY <1>11, <1>12, <1>15
  <1>17. (cfg'.cerr => cfg'.failed) /\ (cfg'.end = "error" => cfg'.failed)
    BY <1>10, <1>11, <1>15
  <1>18. smio \notin LosesErrors => (cfg'.end = "success" => ~cfg'.failed)
    BY <1>11, <1>13, <1>14, <1>15
  <1>19. smio \notin LosesErrors =>
            (cfg'.end = "running" /\ cfg'.failed =>
                cfg'.cerr /\ cfg'.at > 1 /\ ~Defaults[smio][cfg'.at - 1].test)
    BY <1>11, <1>12, <1>13, <1>15 DEF d
  <1> QED
    BY <1>1, <1>15, <1>16, <1>17, <1>18, <1>19 DEF CfgOK

-----------------------------------------------------------------------------
(* The invariant.                                                           *)

\* Every step but stuttering is one good call.
LEMMA StepIsCall ==
    ASSUME PInv, ParamNext
    PROVE  /\ smio' = smio /\ smio \in DOMAIN Ops
           /\ ConfigStep \/ cfg' = cfg
           /\ \E q : GoodCall(q) /\ Request(q)
  <1>1. smio \in DOMAIN Ops
    BY SmioKnown DEF PInv
  <1>2. CASE ConfigStep
    <2>1. smio' = smio /\ Request(DefaultCall(cfg.at)) /\ cfg.at \in DOMAIN Defaults[smio]
      BY <1>2, ConfigStepParts DEF PInv, CfgOK
    <2>2. GoodCall(DefaultCall(cfg.at))
      BY <1>1, <2>1, DefaultIsGood
    <2> QED
      BY <1>1, <1>2, <2>1, <2>2
  <1>3. CASE ClientSet
    <2>1. PICK f \in Offers[smio] :
             \E chan \in ClientChans(f.lib, f.o.op), val \in ClientValues(f.lib, f.o.op) :
                Request(ToRequest("client", f.lib, f.o, chan, val))
      BY <1>3 DEF ClientSet
    <2>2. PICK chan \in ClientChans(f.lib, f.o.op), val \in ClientValues(f.lib, f.o.op) :
             Request(ToRequest("client", f.lib, f.o, chan, val))
      BY <2>1
    <2>3. GoodCall(ToRequest("client", f.lib, f.o, chan, val))
      BY <1>1, ClientCallIsGood
    <2> QED
      BY <1>1, <1>3, <2>2, <2>3 DEF ClientSet
  <1>4. CASE ClientGet
    <2>1. PICK f \in Offers[smio] :
             \E chan \in ClientChans(f.lib, f.o.op) : Request(ToRequest("client", f.lib, f.o, chan, {}))
      BY <1>4 DEF ClientGet
    <2>2. PICK chan \in ClientChans(f.lib, f.o.op) : Request(ToRequest("client", f.lib, f.o, chan, {}))
      BY <2>1
    <2>3. GoodCall(ToRequest("client", f.lib, f.o, chan, {}))
      BY <1>1, ClientCallIsGood
    <2> QED
      BY <1>1, <1>4, <2>2, <2>3 DEF ClientGet
  <1> QED
    BY <1>2, <1>3, <1>4 DEF ParamNext

\* The power-on state.
LEMMA InitPInv ==
    ASSUME ParamInit
    PROVE  PInv
  <1>1. smio \in Smios /\ smio \in DOMAIN Ops /\ events = 0 /\ held = <<>>
    BY TablesAreComplete DEF ParamInit
  <1>2. PICK w \in {{}, AllBits} : regs = [a \in DOMAIN OnRegister[smio] |-> w]
    BY DEF ParamInit
  <1>3. RegsOK
    <2>1. regs \in [DOMAIN OnRegister[smio] -> SUBSET AllBits]
      BY <1>2
    <2>2. 0 \in 0..MaxEvents
      BY BoundsAssumption
    <2> QED
      BY <1>1, <2>1, <2>2 DEF RegsOK
  <1>4. HeldOK
    BY <1>1 DEF HeldOK
  <1>5. CfgOK
    <2> DEFINE end == IF smio \in Unconfigured THEN "none"
                      ELSE IF Defaults[smio] = <<>> THEN "success" ELSE "running"
    <2>1. cfg = [at |-> 1, cerr |-> FALSE, failed |-> FALSE, end |-> end]
      BY DEF ParamInit
    <2>2. DOMAIN Defaults[smio] = 1..Len(Defaults[smio]) /\ Len(Defaults[smio]) \in Nat
      BY <1>1, TablesAreComplete
    <2>3. end \in {"running", "success", "none"} /\ (end = "running" => Defaults[smio] # <<>>)
      OBVIOUS
    <2>4. end = "running" => 1 \in DOMAIN Defaults[smio]
      <3>1. Defaults[smio] # <<>> => Len(Defaults[smio]) # 0
        BY <1>1, TablesAreComplete
      <3> QED
        BY <2>2, <2>3, <3>1
    <2> HIDE DEF end
    <2>5. cfg \in [at : 1..(Len(Defaults[smio]) + 1), cerr : BOOLEAN, failed : BOOLEAN,
                   end : {"running", "success", "error", "none"}]
      BY <2>1, <2>2, <2>3
    <2> QED
      BY <2>1, <2>3, <2>4, <2>5 DEF CfgOK
  <1> QED
    BY <1>3, <1>4, <1>5 DEF PInv

\* One step.
LEMMA NextPInv ==
    ASSUME PInv, [ParamNext]_vars
    PROVE  PInv'
  <1>1. CASE ParamNext
    <2>1. PICK q : GoodCall(q) /\ Request(q)
      BY <1>1, StepIsCall
    <2>2. smio' = smio /\ smio \in DOMAIN Ops /\ (ConfigStep \/ cfg' = cfg)
      BY <1>1, StepIsCall
    <2>3. RegsOK' /\ HeldOK'
      BY <2>1, <2>2, RequestKeeps DEF PInv
    <2>4. CfgOK'
      <3>1. CASE ConfigStep
        BY <3>1, ConfigStepKeeps DEF PInv
      <3>2. CASE cfg' = cfg
        BY <2>2, <3>2 DEF PInv, CfgOK
      <3> QED
        BY <2>2, <3>1, <3>2
    <2> QED
      BY <2>3, <2>4 DEF PInv
  <1>2. CASE UNCHANGED vars
    <2>1. smio' = smio /\ regs' = regs /\ cfg' = cfg /\ held' = held /\ events' = events
      BY <1>2 DEF vars
    <2>2. RegsOK' /\ CfgOK'
      BY <2>1 DEF PInv, RegsOK, CfgOK
    <2>3. HeldOK'
      BY <2>1, ForgetKeeps DEF PInv
    <2> QED
      BY <2>2, <2>3 DEF PInv
  <1> QED
    BY <1>1, <1>2

\* The inductive invariant holds in every state.
LEMMA ParamsInvariant == ParamSpec => []PInv
  BY InitPInv, NextPInv, PTL DEF ParamSpec

-----------------------------------------------------------------------------
(* Theorems.                                                                *)

\* Whatever is set, and whatever fails, a register holds a word of 32 bits, a held value is one of a
\* parameter of the SMIO, and the configuration stays within its defaults.
THEOREM ParamsTypeCorrect == ParamSpec => []ParamTypeOK
  <1>1. PInv => ParamTypeOK
    <2> SUFFICES ASSUME PInv PROVE ParamTypeOK
      OBVIOUS
    <2>1. smio \in Smios /\ events \in 0..MaxEvents /\ \A a \in DOMAIN regs : regs[a] \subseteq AllBits
      BY DEF PInv, RegsOK
    <2>2. \A k \in DOMAIN held : k[1] \in DOMAIN Params[smio] /\ held[k] \subseteq AllBits
      BY DEF PInv, HeldOK, HoldsIn
    <2>3. /\ cfg.end \in {"running", "success", "error", "none"} /\ cfg.cerr \in BOOLEAN
          /\ cfg.at \in 1..(Len(Defaults[smio]) + 1)
      BY DEF PInv, CfgOK
    <2> QED
      BY <2>1, <2>2, <2>3 DEF ParamTypeOK
  <1> QED
    BY <1>1, ParamsInvariant, PTL

\* A GET returns what the last SET answered with success asked for, for every parameter of every SMIO,
\* after any calls of clients and of the configuration, in any order, whichever of them fail.
THEOREM GetsReturnSets == ParamSpec => []GetReturnsSet
  <1>1. PInv => GetReturnsSet
    BY DEF PInv, HeldOK, HoldsIn, GetReturnsSet, ReadField
  <1> QED
    BY <1>1, ParamsInvariant, PTL

\* The configuration of an SMIO reports an error only if a default failed to reach the hardware, and,
\* but for the three SMIOs that lose errors, success only if none did.
THEOREM ConfigurationsReport == ParamSpec => []ConfigReports
  <1>1. PInv => ConfigReports
    BY DEF PInv, CfgOK, ConfigReports
  <1> QED
    BY <1>1, ParamsInvariant, PTL

\* Every call of a client library, or of a configuration, is dispatched to the function that its
\* operation is named after, with arguments and room of the sizes that both sides expect.
THEOREM CallsAreDispatched == ParamSpec => []CallsReachTheirFunction
  <1>1. ParamInit => CallsReachTheirFunction
    BY DEF ParamInit, CallsReachTheirFunction
  <1>2. PInv /\ CallsReachTheirFunction /\ [ParamNext]_vars => CallsReachTheirFunction'
    <2> SUFFICES ASSUME PInv, CallsReachTheirFunction, [ParamNext]_vars PROVE CallsReachTheirFunction'
      OBVIOUS
    <2>1. CASE ParamNext
      BY <2>1, StepIsCall, RequestReaches
    <2>2. CASE UNCHANGED vars
      BY <2>2 DEF vars, CallsReachTheirFunction
    <2> QED
      BY <2>1, <2>2
  <1> QED
    BY <1>1, <1>2, ParamsInvariant, PTL DEF ParamSpec

\* A SET changes no register but the one of its channel, in it no bit outside its field, and no other
\* parameter on that register reads differently after.
THEOREM SetsStay == ParamSpec => SetsStayInTheirField
  <1>1. PInv /\ [ParamNext]_vars => [SetStaysInItsField]_vars
    <2> SUFFICES ASSUME PInv, [ParamNext]_vars PROVE [SetStaysInItsField]_vars
      OBVIOUS
    <2>1. CASE ParamNext
      BY <2>1, StepIsCall, RequestStaysInField DEF PInv
    <2>2. CASE UNCHANGED vars
      BY <2>2
    <2> QED
      BY <2>1, <2>2
  <1> QED
    BY <1>1, ParamsInvariant, PTL DEF ParamSpec, SetsStayInTheirField
==============================================================================
