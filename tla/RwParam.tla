------------------------------ MODULE RwParam ------------------------------
(***************************************************************************)
(* The SET_PARAM and GET_PARAM macros every exported SMIO function is      *)
(* built from, on top of the register channel.                             *)
(*                                                                         *)
(* A GET reads a register and returns one field of it.  A SET checks its   *)
(* argument, reads the register, replaces one field and writes the word    *)
(* back: two accesses, between which DEVIO serves other sockets.  The      *)
(* replies carry a code of rw_param_codes.h.                               *)
(*                                                                         *)
(* A register is a word of two fields.  SETs of a register all come from   *)
(* one socket, the dealer of the SMIO that owns its address range; other   *)
(* sockets (dealer2 of a monitoring thread) only read it.                  *)
(***************************************************************************)
EXTENDS SmioThsafe

CONSTANTS
    FieldMod,   \* a field holds 0..(FieldMod - 1)
    MaxValue,   \* upper limit of a parameter (check_param_limits)
    Owner,      \* the socket that SETs each register
    StackWords  \* what an uninitialised uint32_t may hold

ASSUME RwParamAssumption ==
    /\ FieldMod \in Nat \ {0} /\ UIntMod = FieldMod * FieldMod
    /\ MaxValue \in 0..(FieldMod - 1)
    /\ Owner \in [Offs -> Socks]
    /\ StackWords \subseteq Words

RW_OK           == 0
RW_USR_ERR      == 2
RW_READ_EAGAIN  == 4
RW_WRITE_EAGAIN == 5

Fields == {"hi", "lo"}
Values == 0..(FieldMod - 1)

\* The R and W(value) accessors of a multiple-bit field.
Get(w, f)    == IF f = "lo" THEN w % FieldMod ELSE w \div FieldMod
Set(w, f, v) == IF f = "lo" THEN (w - Get(w, f)) + v
                            ELSE Get(w, "lo") + v * FieldMod

VARIABLES
    param,  \* the macro each socket's thread is executing
    seen    \* the words the register held during it (history)

rwVars == <<param, seen>>

\* pc: "idle", or waiting for the result of its "read" or its "write".  code
\* and value are those of the reply once pc is back to "idle".
Param == [pc : {"idle", "read", "write"}, macro : {"none", "get", "set"},
          offs : Offs \cup {"none"}, field : Fields \cup {"none"},
          value : Nat, code : {RW_OK, RW_USR_ERR, RW_READ_EAGAIN, RW_WRITE_EAGAIN}]
NoParam == [pc |-> "idle", macro |-> "none", offs |-> "none", field |-> "none",
            value |-> 0, code |-> RW_OK]

-----------------------------------------------------------------------------
\* The bound on calls is applied to whole macros, of n accesses.
CanStart(s, n) == param[s].pc = "idle" /\ issued[s] + n <= MaxCalls[s]

GetParam(s, o, f) ==
    /\ CanStart(s, 1)
    /\ Call(s, "read", o, AckSize, 0)
    /\ param' = [param EXCEPT ![s] = [pc |-> "read", macro |-> "get", offs |-> o,
                                      field |-> f, value |-> 0, code |-> RW_OK]]

\* Mutant: the number of bytes read is not checked.
GetReturnUnchecked(s) ==
    /\ param[s].pc = "read" /\ param[s].macro = "get" /\ ~Waiting(s)
    /\ param' = [param EXCEPT ![s].pc = "idle",
                    ![s].value = Get(result[s].word, param[s].field)]
    /\ UNCHANGED vars

\* The read was complete, or RW_READ_EAGAIN.
GetReturn(s) ==
    /\ param[s].pc = "read" /\ param[s].macro = "get" /\ ~Waiting(s)
    /\ param' = [param EXCEPT ![s].pc = "idle",
                    ![s].code  = IF result[s].ret = AckSize THEN RW_OK ELSE RW_READ_EAGAIN,
                    ![s].value = IF result[s].ret = AckSize
                                 THEN Get(result[s].word, param[s].field) ELSE 0]
    /\ UNCHANGED vars

CheckParam(v) == v <= MaxValue

SetReject(s, o, f, v) ==
    /\ CanStart(s, 2) /\ Owner[o] = s /\ ~CheckParam(v)
    /\ param' = [param EXCEPT ![s] = [pc |-> "idle", macro |-> "set", offs |-> o,
                                      field |-> f, value |-> v, code |-> RW_USR_ERR]]
    /\ UNCHANGED vars

SetParam(s, o, f, v) ==
    /\ CanStart(s, 2) /\ Owner[o] = s /\ CheckParam(v)
    /\ Call(s, "read", o, AckSize, 0)
    /\ param' = [param EXCEPT ![s] = [pc |-> "read", macro |-> "set", offs |-> o,
                                      field |-> f, value |-> v, code |-> RW_OK]]

\* Mutant: the field is written without the rest of the register.
SetWriteFieldOnly(s) ==
    LET p == param[s] IN
    /\ p.pc = "read" /\ p.macro = "set" /\ ~Waiting(s)
    /\ Call(s, "write", p.offs, AckSize, Set(0, p.field, p.value))
    /\ param' = [param EXCEPT ![s].pc = "write"]

\* Mutant: the failed read is forgotten.
SetWriteForgets(s) ==
    LET p == param[s] IN
    /\ p.pc = "read" /\ p.macro = "set" /\ ~Waiting(s)
    /\ \E w \in IF result[s].ret = AckSize THEN {result[s].word} ELSE StackWords :
         Call(s, "write", p.offs, AckSize, Set(w, p.field, p.value))
    /\ param' = [param EXCEPT ![s].pc = "write"]

\* Mutant: a SET whose read failed waits for a complete one.
SetWriteComplete(s) ==
    LET p == param[s] IN
    /\ p.pc = "read" /\ p.macro = "set" /\ ~Waiting(s) /\ result[s].ret = AckSize
    /\ Call(s, "write", p.offs, AckSize, Set(result[s].word, p.field, p.value))
    /\ param' = [param EXCEPT ![s].pc = "write"]

\* After an incomplete read the write is made all the same, with the field set
\* in a word that was never initialised.
SetWrite(s) ==
    LET p == param[s]
        complete == result[s].ret = AckSize
    IN  /\ p.pc = "read" /\ p.macro = "set" /\ ~Waiting(s)
        /\ \E w \in IF complete THEN {result[s].word} ELSE StackWords :
             Call(s, "write", p.offs, AckSize, Set(w, p.field, p.value))
        /\ param' = [param EXCEPT ![s].pc = "write",
                        ![s].code = IF complete THEN @ ELSE RW_WRITE_EAGAIN]

\* Mutant: the return value of the write is passed on as the reply code.
SetReturnRaw(s) ==
    /\ param[s].pc = "write" /\ ~Waiting(s)
    /\ param' = [param EXCEPT ![s].pc = "idle",
                    ![s].code = IF result[s].ret = AckSize THEN @ ELSE result[s].ret]
    /\ UNCHANGED vars

SetReturn(s) ==
    /\ param[s].pc = "write" /\ ~Waiting(s)
    /\ param' = [param EXCEPT ![s].pc = "idle",
                    ![s].code = IF result[s].ret = AckSize THEN @ ELSE RW_WRITE_EAGAIN]
    /\ UNCHANGED vars

-----------------------------------------------------------------------------
RwInit ==
    /\ Init
    /\ param = [s \in Socks |-> NoParam]
    /\ seen = [s \in Socks |-> {}]

\* The channel, which does not look at the macros; a socket is only closed by
\* a thread that is not in one.
Channel ==
    /\ \/ SendReply
       \/ \E s \in Socks : \/ Serve(s) \/ Recv(s) \/ Timeout(s)
                           \/ param[s].pc = "idle" /\ Close(s)
    /\ UNCHANGED param

Macro(s) ==
    \/ \E o \in Offs, f \in Fields : GetParam(s, o, f)
    \/ \E o \in Offs, f \in Fields, v \in 0..(MaxValue + 1) :
          SetParam(s, o, f, v) \/ SetReject(s, o, f, v)
    \/ GetReturn(s) \/ SetWrite(s) \/ SetReturn(s)

Observe(s) ==
    CASE param[s].pc # "idle" -> seen[s] \cup {regs'[param[s].offs]}
      [] param[s].pc = "idle" /\ param'[s].pc # "idle" -> {regs[param'[s].offs]}
      [] OTHER -> seen[s]

RwNext ==
    /\ Channel \/ \E s \in Socks : Macro(s)
    /\ seen' = [s \in Socks |-> Observe(s)]

\* A thread that is not blocked runs on, and zmsg_recv wakes up.
RwFairness ==
    \A s \in Socks :
        /\ WF_<<vars, rwVars>>((Recv(s) \/ Timeout(s)) /\ RwNext)
        /\ WF_<<vars, rwVars>>((GetReturn(s) \/ SetWrite(s) \/ SetReturn(s)) /\ RwNext)

RwSpec == RwInit /\ [][RwNext]_<<vars, rwVars>> /\ RwFairness

-----------------------------------------------------------------------------
(* Properties. *)

\* A reply carries one of the codes of rw_param_codes.h, never a raw return value
\* of the channel.
RwTypeOK ==
    /\ TypeOK
    /\ param \in [Socks -> Param]
    /\ seen \in [Socks -> SUBSET Words]

Replied(s, macro, code) ==
    param[s].pc = "idle" /\ param[s].macro = macro /\ param[s].code = code

\* A GET answered with RW_OK on a socket without timeouts returns a value the
\* field had between the request and the reply, whatever is set meanwhile.
GetIsFresh ==
    \A s \in Socks : Replied(s, "get", RW_OK) /\ timeouts[s] = 0
        => \E w \in seen[s] : Get(w, param[s].field) = param[s].value

\* A SET answered with RW_OK on a socket without timeouts was atomic: during it
\* the register held its old word and then that word with one field replaced.
SetIsAtomic ==
    [][\A s \in Socks :
         SetReturn(s) /\ param'[s].code = RW_OK /\ timeouts[s] = 0 =>
            LET o == param[s].offs IN
            \E old \in seen[s] :
                /\ regs[o] = Set(old, param[s].field, param[s].value)
                /\ seen[s] \subseteq {old, regs[o]}]_<<vars, rwVars>>

\* Only a SET that is going to be answered with RW_WRITE_EAGAIN may change the
\* other field of its register while its socket has had no timeout.
OtherFieldKept ==
    [][\A o \in Offs, f \in Fields :
         LET s == Owner[o] IN
         Get(regs'[o], f) # Get(regs[o], f) /\ timeouts[s] = 0 =>
            /\ param[s].pc = "write" /\ param[s].offs = o
            /\ param[s].field # f => param[s].code = RW_WRITE_EAGAIN]_<<vars, rwVars>>

\* Every exported SET or GET is answered, even if DEVIO never replies.
MacroReturns == \A s \in Socks : param[s].pc # "idle" ~> param[s].pc = "idle"
=============================================================================
