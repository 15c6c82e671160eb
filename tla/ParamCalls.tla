----------------------------- MODULE ParamCalls -----------------------------
(****************************************************************************)
(* Every parameter of every SMIO, from the client's function to the bits of *)
(* the register: a request carries an operation code and arguments, the     *)
(* SMIO's dispatch table finds the operation, checks the sizes of the       *)
(* arguments and calls the function at the same place of a parallel array,  *)
(* and SET_GET_PARAM reads, modifies and writes the register.  The SMIO's   *)
(* configuration thread sends its defaults the same way, while clients are  *)
(* already served.                                                          *)
(*                                                                          *)
(* One SMIO is modelled at a time, and a request is one step: an SMIO       *)
(* serves one request at a time and registers are its own.  What lies       *)
(* between the SMIO and the register is SmioThsafe, and between the client  *)
(* and the SMIO HalcsClient; here an access to a register works or fails.   *)
(* A 32-bit word is the set of its one bits.  Registers keep what is        *)
(* written to them: status bits and pulses are not modelled.                *)
(****************************************************************************)
EXTENDS SmioCodes, SmioExports, SmioFuncs, SmioRegs, ClientApi, SmioDefaults, FiniteSetsExt

CONSTANTS Smios,      \* the SMIOs of this instance
          MaxEvents,  \* bound: SETs that clients ask for and calls whose access to the hardware fails
          LateSteps   \* bound: clients are served before each of the last steps of the configuration

ASSUME BoundsAssumption == MaxEvents \in Nat /\ LateSteps \in Nat

VARIABLES smio,    \* the SMIO
          regs,    \* address -> word, for the registers of its parameters
          cfg,     \* configuration: next step, client_err, whether an access failed, how it ended
          held,    \* <<function, channel>> -> the value of the last SET answered with success
          reply,   \* the last request and the answer to it
          events   \* SETs of clients and failures so far

vars == <<smio, regs, cfg, held, reply, events>>

AllBits == 0..31

-----------------------------------------------------------------------------
(* Registers and fields.                                                    *)

\* Mutant: the offset of the channel is left out.
AddressChan0(s, p, chan) == Addrs[s][<<p.reg, p.first>>]

\* CONCAT_NAME3 (prefix, REG, reg) + chan * chan_offset.
Address(s, p, chan) == Addrs[s][<<p.reg, p.first>>] + chan * p.offset

Places(s, f) == {Address(s, Params[s][f], c) : c \in 0..(Params[s][f].num - 1)}

\* The registers of an SMIO's parameters, and the functions that work on each.
OnRegister ==
    [s \in DOMAIN Params |->
        [a \in UNION {Places(s, f) : f \in DOMAIN Params[s]} |->
            {f \in DOMAIN Params[s] : a \in Places(s, f)}]]

Mask(s, p) == IF p.own # {} THEN p.own ELSE Fields[s][<<p.reg, p.first>>][p.field]

\* The bits that the macros _W and _R move.
Moved(s, p) == IF p.wide # {} THEN p.wide ELSE Mask(s, p)

Up(v, n) == {b + n : b \in v}
Down(v, n) == {b - n : b \in v}

\* Mutant: the value is not brought down to bit 0.
ExtractInPlace(s, p, word) ==
    IF p.single THEN IF word \cap Mask(s, p) # {} THEN {0} ELSE {}
    ELSE word \cap Moved(s, p)

\* GET_PARAM_GEN: what is read from a word.
Extract(s, p, word) ==
    IF p.single THEN IF word \cap Mask(s, p) # {} THEN {0} ELSE {}
    ELSE Down(word \cap Moved(s, p), Min(Moved(s, p)))

\* Mutant: the value is not cut to the field.
InsertUnmasked(s, p, word, v) ==
    IF p.single THEN IF v # {} THEN word \cup Mask(s, p) ELSE word \ Mask(s, p)
    ELSE (word \ Mask(s, p)) \cup Up(v, Min(Moved(s, p)))

\* SET_PARAM_GEN: what is written, given what was read.
Insert(s, p, word, v) ==
    IF p.single THEN IF v # {} THEN word \cup Mask(s, p) ELSE word \ Mask(s, p)
    ELSE (word \ Mask(s, p)) \cup (Up(v, Min(Moved(s, p))) \cap Moved(s, p))

\* check_param_limits.
InLimits(p, v) == v \subseteq 0..(p.limit - 1) /\ (p.least = 1 => v # {})

\* Whether the field has room for the value.
Fits(s, p, v) == IF p.single THEN v \subseteq {0} ELSE v \subseteq 0..(Cardinality(Moved(s, p)) - 1)

-----------------------------------------------------------------------------
(* Dispatch.                                                                *)

\* disp_table_fill_desc gives operation i function i, and refuses arrays of different lengths.
ASSUME ArraysAgree == \A s \in DOMAIN Ops : Len(Ops[s]) = Len(Funcs[s])

Number(s, i) == Codes[s][Ops[s][i]]

\* disp_table_insert_all: stops, unnoticed, at the first operation whose code is already there.
\* _disp_table_lookup: from the code to the place of the operation in the array.
Dispatch ==
    [s \in DOMAIN Ops |->
        LET in == {i \in DOMAIN Ops[s] : Cardinality({Number(s, j) : j \in 1..i}) = i}
        IN [n \in {Number(s, i) : i \in in} |-> CHOOSE i \in in : Number(s, i) = n]]

\* The client's header gives the number, the place in the array the function.
Known(s, q) == Codes[q.lib][q.op] \in DOMAIN Dispatch[s]
Handler(s, q) == Dispatch[s][Codes[q.lib][q.op]]

\* Mutant: the array of functions is one place off.
FuncBeside(s, q) == Funcs[s][(Handler(s, q) % Len(Funcs[s])) + 1]

Func(s, q) == Funcs[s][Handler(s, q)]
Desc(s, q) == Descs[s][Ops[s][Handler(s, q)]]

IsParam(s, q) == Known(s, q) /\ Func(s, q) \in DOMAIN Params[s]
ParamOf(s, q) == Params[s][Func(s, q)]

\* The library whose functions a client uses on an SMIO: its own, and the si571 calls.
Libs(s) ==
    CASE s = "rffe_scpi" -> {"rffe"}
      [] s = "afc_mgmt" -> {"fmc_active_clk"}
      [] s = "fmc100m_4ch" -> {"fmc100m_4ch", "fmc_active_clk"}
      [] OTHER -> {s}

Si571 == {"si571_oe", "si571_freq", "si571_get_defaults", "si571_fstartup"}

Offers ==
    [s \in DOMAIN Ops |->
        UNION {{[o |-> o, lib |-> l] : o \in {x \in Api[l] : l = s \/ l = "rffe" \/ x.op \in Si571}} :
                 l \in Libs(s)}]

-----------------------------------------------------------------------------
(* One request.  q is [by, rw, lib, op, chan, val, args, ret].              *)

Answer(q, func, code, val, room) ==
    reply' = [rw |-> q.rw, lib |-> q.lib, op |-> q.op, chan |-> q.chan, func |-> func, code |-> code,
              val |-> val, room |-> room, ret |-> q.ret, by |-> q.by]

\* A client's SET is an event, whether it fails or not, and so is any other call that fails.
Event(q, n) ==
    LET k == IF q.by = "client" /\ q.rw = "set" THEN 1 ELSE n
    IN events + k <= MaxEvents /\ events' = events + k

NoFault(q) == Event(q, 0)
Fault(q) == Event(q, 1)

\* smio_do_op: no operation with this code, or arguments of other sizes.
Refuse(q) ==
    /\ \/ ~Known(smio, q) /\ Answer(q, "", "no_func", {}, 0)
       \/ /\ Known(smio, q) /\ Desc(smio, q).args # q.args
          /\ Answer(q, Func(smio, q), "inv_args", {}, 0)
    /\ NoFault(q)
    /\ UNCHANGED <<regs, held>>

Accepted(q) == Known(smio, q) /\ Desc(smio, q).args = q.args

\* A function that drives a chip, or sends a message: it works or it does not.
ChipCall(q) ==
    /\ Accepted(q) /\ ~IsParam(smio, q)
    /\ \/ NoFault(q) /\ Answer(q, Func(smio, q), "ok", {}, Desc(smio, q).ret)
       \/ Fault(q) /\ Answer(q, Func(smio, q), "error", {}, Desc(smio, q).ret)
    /\ UNCHANGED <<regs, held>>

\* SET_GET_PARAM_CHANNEL_GEN: no such channel.
InvalidChannel(q) ==
    /\ Accepted(q) /\ IsParam(smio, q)
    /\ q.chan > ParamOf(smio, q).num - 1
    /\ Answer(q, Func(smio, q), "inv", {}, Desc(smio, q).ret)
    /\ NoFault(q)
    /\ UNCHANGED <<regs, held>>

OnParam(q) == Accepted(q) /\ IsParam(smio, q) /\ q.chan <= ParamOf(smio, q).num - 1

\* What GET_PARAM finds in the register.
ReadField(f, chan) ==
    LET p == Params[smio][f] IN Extract(smio, p, regs[Address(smio, p, chan)])

\* GET_PARAM: a read that fails is an error, except where nobody looks.
GetParam(q) ==
    LET p == ParamOf(smio, q)
    IN /\ q.rw = "get" /\ OnParam(q)
       /\ \/ NoFault(q) /\ Answer(q, Func(smio, q), "ok", ReadField(Func(smio, q), q.chan), Desc(smio, q).ret)
          \/ Fault(q) /\ Answer(q, Func(smio, q), IF p.quiet THEN "garbage" ELSE "eagain", {}, Desc(smio, q).ret)
       /\ UNCHANGED <<regs, held>>

\* SET_PARAM refused by the limits.
SetRejected(q) ==
    LET p == ParamOf(smio, q)
    IN /\ q.rw = "set" /\ OnParam(q) /\ ~InLimits(p, q.val)
       /\ Answer(q, Func(smio, q), "usr_err", q.val, Desc(smio, q).ret)
       /\ NoFault(q)
       /\ UNCHANGED <<regs, held>>

Forget(ks) == [k \in DOMAIN held \ ks |-> held[k]]
Remember(key, v) == [k \in DOMAIN held \cup {key} |-> IF k = key THEN v ELSE held[k]]

\* SET_PARAM: read, modify, write.
SetParam(q) ==
    LET p == ParamOf(smio, q)
        a == Address(smio, p, q.chan)
        key == <<Func(smio, q), q.chan>>
    IN /\ q.rw = "set" /\ OnParam(q) /\ InLimits(p, q.val)
       /\ regs' = [regs EXCEPT ![a] = Insert(smio, p, @, q.val)]
       /\ held' = IF Fits(smio, p, q.val) THEN Remember(key, q.val) ELSE Forget({key})
       /\ Answer(q, Func(smio, q), "ok", q.val, Desc(smio, q).ret)
       /\ NoFault(q)

\* SET_PARAM whose write fails.
SetWriteFails(q) ==
    LET p == ParamOf(smio, q)
    IN /\ q.rw = "set" /\ OnParam(q) /\ InLimits(p, q.val) /\ Fault(q)
       /\ held' = IF p.quiet THEN Forget({<<Func(smio, q), q.chan>>}) ELSE held
       /\ Answer(q, Func(smio, q), IF p.quiet THEN "lost" ELSE "eagain", q.val, Desc(smio, q).ret)
       /\ UNCHANGED regs

\* SET_PARAM whose read fails: what the variable happened to hold is modified and written.
SetReadFails(q) ==
    LET p == ParamOf(smio, q)
        a == Address(smio, p, q.chan)
        at(k) == Address(smio, Params[smio][k[1]], k[2])
    IN /\ q.rw = "set" /\ OnParam(q) /\ InLimits(p, q.val) /\ Fault(q)
       /\ \E junk \in {{}, AllBits} : regs' = [regs EXCEPT ![a] = Insert(smio, p, junk, q.val)]
       /\ held' = Forget({k \in DOMAIN held : at(k) = a})
       /\ Answer(q, Func(smio, q), IF p.quiet THEN "lost" ELSE "spoilt", q.val, Desc(smio, q).ret)

Request(q) ==
    \/ Refuse(q) \/ ChipCall(q) \/ InvalidChannel(q)
    \/ GetParam(q)
    \/ SetRejected(q) \/ SetParam(q) \/ SetWriteFails(q) \/ SetReadFails(q)

-----------------------------------------------------------------------------
(* The configuration thread, and clients.                                   *)

\* The sizes that the library's function sends for an operation.
Kind(lib, rw, op) == CHOOSE o \in Api[lib] : o.rw = rw /\ o.op = op

ToRequest(by, lib, o, chan, val) ==
    [by |-> by, rw |-> o.rw, lib |-> lib, op |-> o.op, chan |-> chan, val |-> val, args |-> o.args, ret |-> o.ret]

\* Mutant: |= taken for =.
KeptLast(step, failed) == IF step.keep = "drop" THEN cfg.cerr ELSE failed

\* client_err after a call that returned r.
Kept(step, failed) ==
    CASE step.keep = "assign" -> failed
      [] step.keep = "or" -> cfg.cerr \/ failed
      [] step.keep = "drop" -> cfg.cerr

\* One line of <smio>_config_defaults.
ConfigStep ==
    /\ cfg.end = "running"
    /\ LET step == Defaults[smio][cfg.at]
           failed == reply'.code \notin {"ok", "lost", "garbage"}
           cerr == Kept(step, failed)
       IN /\ Request(ToRequest("config", step.lib, Kind(step.lib, step.rw, step.op), step.chan, step.val))
          /\ cfg' = [at |-> cfg.at + 1, cerr |-> cerr, failed |-> cfg.failed \/ events' # events,
                     end |-> IF step.test /\ cerr THEN "error"
                             ELSE IF cfg.at = Len(Defaults[smio]) THEN "success" ELSE "running"]
    /\ UNCHANGED smio

Served == cfg.end # "running" \/ cfg.at + LateSteps > Len(Defaults[smio])

\* The channels and values that tell the fields apart: ends of the bank and one beyond, lowest
\* bit, whole field, and one bit too many.
ClientChans(lib, op) ==
    LET q == [lib |-> lib, op |-> op]
    IN IF ~IsParam(smio, q) THEN {0}
       ELSE IF ParamOf(smio, q).num = 1 THEN {0} ELSE {0, ParamOf(smio, q).num - 1, ParamOf(smio, q).num}

ClientValues(lib, op) ==
    LET q == [lib |-> lib, op |-> op]
        n == Cardinality(Moved(smio, ParamOf(smio, q)))
    IN IF ~IsParam(smio, q) THEN {{}}
       ELSE {{0}, 0..(n - 1)} \cup (IF n < 32 THEN {{n}} ELSE {})

ClientSet ==
    /\ Served /\ events < MaxEvents
    /\ \E f \in Offers[smio] :
          /\ f.o.rw = "set"
          /\ \E chan \in ClientChans(f.lib, f.o.op), val \in ClientValues(f.lib, f.o.op) :
                Request(ToRequest("client", f.lib, f.o, chan, val))
    /\ UNCHANGED <<smio, cfg>>

\* bound: clients read while nothing was set by a client, and nothing failed (a GET changes nothing;
\* GetReturnsSet looks at what one would return in every state).
ClientGet ==
    /\ Served /\ events = 0
    /\ \E f \in Offers[smio] :
          /\ f.o.rw = "get"
          /\ \E chan \in ClientChans(f.lib, f.o.op) : Request(ToRequest("client", f.lib, f.o, chan, {}))
    /\ UNCHANGED <<smio, cfg>>

\* The SMIOs whose config_defaults is NULL.
Unconfigured == {"acq", "init", "orbit_intlk"}

\* Power-on contents are unknown: all zeros or all ones.
ParamInit ==
    /\ smio \in Smios
    /\ \E w \in {{}, AllBits} :
          regs = [a \in DOMAIN OnRegister[smio] |-> w]
    /\ cfg = [at |-> 1, cerr |-> FALSE, failed |-> FALSE, end |-> IF smio \in Unconfigured THEN "none"
                                               ELSE IF Defaults[smio] = <<>> THEN "success" ELSE "running"]
    /\ held = <<>>
    /\ reply = [code |-> "none"]
    /\ events = 0

\* A client's GET changes nothing but the answer, so that nothing is lost by letting nothing follow it.
GoesOn == ~(reply.code # "none" /\ reply.by = "client" /\ reply.rw = "get")

ParamNext == GoesOn /\ (ConfigStep \/ ClientSet \/ ClientGet)

ParamSpec == ParamInit /\ [][ParamNext]_vars

-----------------------------------------------------------------------------
(* Properties.                                                              *)

\* A register never holds more than 32 bits, whatever was set; the configuration stays within its
\* list of defaults.
ParamTypeOK ==
    /\ smio \in Smios
    /\ \A a \in DOMAIN regs : regs[a] \subseteq AllBits
    /\ cfg.end \in {"running", "success", "error", "none"} /\ cfg.cerr \in BOOLEAN
    /\ cfg.at \in 1..(Len(Defaults[smio]) + 1)
    /\ \A k \in DOMAIN held : k[1] \in DOMAIN Params[smio] /\ held[k] \subseteq AllBits
    /\ events \in 0..MaxEvents

\* Where the function is called something else than the operation.
Renamed ==
    {<<"cfg_trig", "cfg_trigger">>, <<"ch_int_width", "int_width">>, <<"ch_num_coalesce", "num_coalesce">>,
     <<"ch_num_atoms", "num_atoms">>, <<"ch_atom_width", "atom_width">>, <<"ch_sample_size", "sample_size">>,
     <<"get_build_revision", "build_revision">>, <<"get_build_date", "build_date">>,
     <<"get_build_user_name", "build_user_name">>, <<"get_build_user_email", "build_user_email">>,
     <<"cfg_test_data", "pos_calc_cfg_test_data">>, <<"testmode", "isla216p_test_mode">>,
     <<"rst", "isla216p_rst">>, <<"portconfig", "isla216p_portconfig">>, <<"reg", "isla216p_reg">>,
     <<"temp", "isla216p_temp">>, <<"cal_status", "isla216p_cal_status">>, <<"pll_function", "pll_func">>,
     <<"led1", "ctl_led1">>, <<"led2", "ctl_led2">>, <<"min_sum", "intlk_min_sum">>,
     <<"si571_oe", "si57x_oe">>, <<"si571_freq", "si57x_freq">>,
     <<"si571_get_defaults", "si57x_get_defaults">>, <<"si571_fstartup", "si57x_fstartup">>}

\* Every call of the client libraries, and every call of the configuration threads, reaches the
\* function its operation is named after, with arguments of the sizes the SMIO expects; a GET finds
\* room for the value, of the size the client reads.  The operation codes, the exported operations
\* and the functions are kept in three files per SMIO, the si571 calls use one SMIO's codes on
\* three SMIOs, and nothing in the code compares more of them than how many there are.
CallsReachTheirFunction ==
    reply.code # "none" =>
        /\ reply.code \notin {"no_func", "inv_args"}
        /\ reply.func = reply.op \/ <<reply.op, reply.func>> \in Renamed
        /\ reply.rw = "get" => reply.room = reply.ret

\* The four update bits of the FMC250M delay lines are one register bit, on purpose.
Shared == {"adc_dly_updt0", "adc_dly_updt1", "adc_dly_updt2", "adc_dly_updt3"}

\* Bit 15 of this field is written and read but never cleared.
Sticky == {"adc_sat"}

\* What a GET returns, at any moment, is what the last SET answered with success asked for, whatever
\* was set before, in between and elsewhere, by clients and by the configuration thread, whichever
\* call failed, and whatever the register held at power-on.
GetReturnsSet ==
    \A k \in DOMAIN held : k[1] \in Shared \cup Sticky \/ ReadField(k[1], k[2]) = held[k]

\* The bits of channel chan of a parameter, as the register map gives them.
OwnBits(p, chan) == IF p.own # {} THEN p.own ELSE Fields[smio][<<p.reg, p.first + chan>>][p.field]

\* A SET changes no register but the one the register map gives to that channel, in it no bit
\* outside the parameter's field, and no other parameter on that register reads differently after.
SetStaysInItsField ==
    regs' # regs /\ reply'.code = "ok" =>
        LET p == Params[smio][reply'.func]
            a == Addrs[smio][<<p.reg, p.first + reply'.chan>>]
        IN /\ \A b \in DOMAIN regs \ {a} : regs'[b] = regs[b]
           /\ regs[a] \ OwnBits(p, reply'.chan) = regs'[a] \ OwnBits(p, reply'.chan) \/ p.wide # {}
           /\ \A f \in OnRegister[smio][a] \ {reply'.func} :
                 \/ {f, reply'.func} \subseteq Shared
                 \/ Extract(smio, Params[smio][f], regs[a]) = Extract(smio, Params[smio][f], regs'[a])

SetsStayInTheirField == [][SetStaysInItsField]_vars

\* The SMIOs that lose the error of a default: swap drops the result of one call, and the two
\* trigger SMIOs overwrite client_err before it is tested.
LosesErrors == {"swap", "trigger_iface", "trigger_mux"}

\* The configuration of an SMIO ends with SMIO_SUCCESS only if no default failed to reach the
\* hardware, and with SMIO_ERR_CONFIG_DFLT only if one did: the defaults themselves are within
\* the limits of their parameters, and a client's call in between is not mistaken for one.
ConfigReports ==
    /\ cfg.end = "error" => cfg.failed
    /\ cfg.end = "success" /\ smio \notin LosesErrors => ~cfg.failed

==============================================================================
