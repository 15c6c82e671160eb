----------------------------- MODULE ParamTables -----------------------------
(****************************************************************************)
(* What the tables of all SMIOs have in common.  Nothing in the code        *)
(* compares them: that they agree is a fact about some eighty files, and    *)
(* every one of these assumptions is evaluated on the tables as they are.   *)
(* The proofs about ParamCalls use these facts and no entry of a table.     *)
(****************************************************************************)
EXTENDS ParamCalls

\* Every SMIO has all its tables, and arrays are indexed from 1.
ASSUME TablesAreComplete ==
    /\ Smios \subseteq DOMAIN Ops
    /\ DOMAIN Params = DOMAIN Ops /\ DOMAIN Defaults = DOMAIN Ops
    /\ \A s \in DOMAIN Ops : DOMAIN Ops[s] = 1..Len(Ops[s]) /\ Len(Ops[s]) \in Nat
    /\ \A s \in DOMAIN Ops : DOMAIN Defaults[s] = 1..Len(Defaults[s]) /\ Len(Defaults[s]) \in Nat
    /\ \A s \in DOMAIN Ops : Len(Defaults[s]) = 0 => Defaults[s] = <<>>

\* A parameter has a channel, and limits that are those of a word.
ASSUME ParamsHaveChannels ==
    \A s \in DOMAIN Ops : \A f \in DOMAIN Params[s] :
        LET p == Params[s][f]
        IN /\ p.num \in Nat \ {0} /\ p.offset \in Nat /\ (p.num > 1 => p.offset > 0)
           /\ Addrs[s][<<p.reg, p.first>>] \in Nat
           /\ p.limit \in 0..32
           /\ p.single \in BOOLEAN /\ p.quiet \in BOOLEAN

\* A field is a run of bits of the word, and its macros move it as a whole, but for the sticky one.
ASSUME FieldsAreRuns ==
    \A s \in DOMAIN Ops : \A f \in DOMAIN Params[s] :
        LET p == Params[s][f]
        IN /\ Mask(s, p) # {} /\ Mask(s, p) \subseteq AllBits /\ Moved(s, p) \subseteq AllBits
           /\ f \notin Sticky => p.wide = {}
           /\ p.wide = {} => \E lo, hi \in AllBits : lo <= hi /\ Mask(s, p) = lo..hi

\* The registers of a bank of channels are evenly spaced in the register map, and alike.
ASSUME BanksAreRegular ==
    \A s \in DOMAIN Ops : \A f \in DOMAIN Params[s] :
        LET p == Params[s][f]
        IN \A chan \in 0..(p.num - 1) :
              /\ Addrs[s][<<p.reg, p.first + chan>>] = Addrs[s][<<p.reg, p.first>>] + chan * p.offset
              /\ \/ p.own # {}
                 \/ Fields[s][<<p.reg, p.first + chan>>][p.field] = Fields[s][<<p.reg, p.first>>][p.field]

Touched(s, p) == Mask(s, p) \cup Moved(s, p)

\* Two functions that work on the same register have no bit in common, but for the shared one.
ASSUME FieldsAreApart ==
    \A s \in DOMAIN Ops : \A a \in DOMAIN OnRegister[s] : \A f, g \in OnRegister[s][a] :
        \/ f = g
        \/ {f, g} \subseteq Shared
        \/ Touched(s, Params[s][f]) \cap Touched(s, Params[s][g]) = {}

\* No two operations of an SMIO have the same code.
ASSUME CodesAreDistinct ==
    \A s \in DOMAIN Ops : \A i, j \in DOMAIN Ops[s] : Number(s, i) = Number(s, j) => i = j

\* Every call of a client library names the code of an operation that the SMIO exports with the same
\* sizes, and the function at the same place of the other array is the one of that name.
ASSUME CallsAreExported ==
    \A s \in DOMAIN Ops : \A f \in Offers[s] : \E i \in DOMAIN Ops[s] :
        /\ Number(s, i) = Codes[f.lib][f.o.op]
        /\ Descs[s][Ops[s][i]].args = f.o.args
        /\ f.o.rw = "get" => Descs[s][Ops[s][i]].ret = f.o.ret
        /\ Funcs[s][i] = f.o.op \/ <<f.o.op, Funcs[s][i]>> \in Renamed

\* The parameter that a default is for, if it is for one.
ParamsOfDefault(s, d) ==
    {Params[s][Funcs[s][i]] :
        i \in {j \in DOMAIN Ops[s] : Number(s, j) = Codes[d.lib][d.op] /\ Funcs[s][j] \in DOMAIN Params[s]}}

\* A default is a call of the client library, on a channel of its parameter, within its limits.
ASSUME DefaultsAreCalls ==
    \A s \in DOMAIN Ops : \A i \in DOMAIN Defaults[s] :
        LET d == Defaults[s][i]
            o == Kind(d.lib, d.rw, d.op)
        IN /\ [o |-> o, lib |-> d.lib] \in Offers[s] /\ o.op = d.op
           /\ d.keep \in {"assign", "or", "drop"} /\ d.test \in BOOLEAN
           /\ \A p \in ParamsOfDefault(s, d) :
                 d.chan \in 0..(p.num - 1) /\ (o.rw = "set" => InLimits(p, d.val))

\* Where no error is lost, client_err is tested after the last default, and before it is assigned
\* again; and no default is for a function that answers success whatever happens.
ASSUME ErrorsAreTested ==
    \A s \in DOMAIN Ops \ LosesErrors : \A i \in DOMAIN Defaults[s] :
        LET d == Defaults[s][i]
        IN /\ d.keep # "drop"
           /\ d.keep = "assign" => i = 1 \/ Defaults[s][i - 1].test
           /\ i = Len(Defaults[s]) => d.test
           /\ \A p \in ParamsOfDefault(s, d) : ~p.quiet

==============================================================================
