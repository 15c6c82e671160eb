---------------------------- MODULE SmioDefaults ----------------------------
(****************************************************************************)
(* What the configuration thread of every SMIO asks of its own SMIO, through *)
(* the client library (<smio>_config_defaults, sm_io_<smio>_defaults.c).     *)
(*                                                                          *)
(* A step is a call, what is done with its result ("assign": client_err =,  *)
(* "or": client_err |=, "drop": neither), and whether ASSERT_TEST follows.  *)
(* "lib" is the SMIO whose operation codes the library function uses.  The  *)
(* values that go to a chip, not to a register, are left out (0).           *)
(****************************************************************************)
EXTENDS Integers, Sequences

\* The bits of a number, as the macros of the defaults headers give it.
Word(n) == {b \in 0..30 : (n \div 2^b) % 2 = 1}
AllOnes == 0..31

\* client_err = halcs_set_<op> (...); ASSERT_TEST
PutChan(lib, op, chan, n) ==
    [rw |-> "set", lib |-> lib, op |-> op, chan |-> chan, val |-> Word(n), keep |-> "assign",
     test |-> TRUE]
Put(lib, op, n) == PutChan(lib, op, 0, n)

\* client_err = halcs_get_<op> (...); ASSERT_TEST
AskChan(lib, op, chan) == [PutChan(lib, op, chan, 0) EXCEPT !.rw = "get"]
Ask(lib, op) == AskChan(lib, op, 0)

Untested(step) == [step EXCEPT !.test = FALSE]
Or(step) == [step EXCEPT !.keep = "or"]
Dropped(step) == [step EXCEPT !.keep = "drop"]

\* for (chan = 0; chan < n; ++chan) { steps }
ForChans(n, Steps(_)) ==
    [k \in 1..(n * Len(Steps(0))) |->
        LET l == Len(Steps(0)) IN Steps((k - 1) \div l)[((k - 1) % l) + 1]]

AfcDiagDefaults == <<Ask("afc_diag", "card_slot"), Ask("afc_diag", "ipmi_addr")>>

\* The si571 calls of the library name operations of FMC_ACTIVE_CLK, whichever SMIO they go to.
AfcMgmtDefaults ==
    <<Put("fmc_active_clk", "si571_get_defaults", 0), Put("fmc_active_clk", "si571_freq", 0),
      Put("fmc_active_clk", "si571_oe", 1)>>

AfcTimingDefaults ==
    LET P(op, n) == Put("afc_timing", op, n)
    IN <<P("afc_freq_kp", 1), P("afc_freq_ki", 3072), P("afc_phase_kp", 10), P("afc_phase_ki", 0),
         P("afc_phase_navg", 7), P("afc_phase_div_exp", 1), P("rtm_rfreq_hi", 12311),
         P("rtm_rfreq_lo", 681645), P("rtm_n1", 3), P("rtm_hs_div", 7), P("afc_rfreq_hi", 11192),
         P("afc_rfreq_lo", 429027), P("afc_n1", 7), P("afc_hs_div", 5)>>

DspDefaults ==
    <<Put("dsp", "kx", 10000000), Put("dsp", "ky", 10000000), Put("dsp", "ksum", 1),
      Put("dsp", "ds_tbt_thres", 0), Put("dsp", "ds_fofb_thres", 0), Put("dsp", "ds_monit_thres", 0)>>

Fmc100mDefaults ==
    LET P(op, n) == Put("fmc100m_4ch", op, n)
        Chan(c) == <<PutChan("fmc100m_4ch", "adc_calib_gain", c, 8192),
                     PutChan("fmc100m_4ch", "adc_sat", c, 65535),
                     PutChan("fmc100m_4ch", "adc_ssr", c, 68), AskChan("fmc100m_4ch", "adc_status", c)>>
    IN AfcMgmtDefaults
       \o <<P("ltc2174_reset", 1), P("ltc2174_twos_compl", 1), P("acq_led", 1),
            P("ltc2174_test_patt", 0), Ask("fmc100m_4ch", "ltc2174_test_patt"),
            P("ltc2174_test_patt_data", 1), Ask("fmc100m_4ch", "ltc2174_test_patt_data"),
            Ask("fmc100m_4ch", "status")>>
       \o ForChans(4, Chan)
       \o <<Ask("fmc100m_4ch", "fs_freq")>>

Fmc130mDefaults == <<>>

Fmc250mDefaults ==
    LET P(op, n) == Put("fmc250m_4ch", op, n)
        Pin(c) == <<PutChan("fmc250m_4ch", "rst", c, 0)>>
        Restore(c) == <<Untested(PutChan("fmc250m_4ch", "rst", c, 0)),
                        Untested(Or(PutChan("fmc250m_4ch", "portconfig", c, 0))),
                        Untested(Or(PutChan("fmc250m_4ch", "portconfig", c, 0))),
                        Or(PutChan("fmc250m_4ch", "portconfig", c, 0))>>
    IN ForChans(4, Pin) \o <<P("rst_adcs", 1), P("rst_div_adcs", 1), P("sleep_adcs", 0)>>
       \o ForChans(4, Restore)

FmcActiveClkDefaults ==
    AfcMgmtDefaults
    \o <<Put("fmc_active_clk", "pll_function", 1), Put("fmc_active_clk", "clk_sel", 0),
         Put("fmc_active_clk", "ad9510_cfg_defaults", 0), Put("fmc_active_clk", "rst_isla216p", 1),
         Put("fmc_active_clk", "rst_swap", 1)>>

FmcAdcCommonDefaults == <<Put("fmc_adc_common", "trig_dir", 0)>>

FmcPicoDefaults ==
    LET P(op) == Put("fmcpico1m_4ch", op, 1)
    IN <<Untested(P("rng_r0")), Untested(Or(P("rng_r1"))), Untested(Or(P("rng_r2"))), Or(P("rng_r3"))>>

FofbCtrlDefaults ==
    LET P(op, n) == Put("fofb_ctrl", op, n)
    IN <<P("time_frame_len", 7500), P("time_frame_dly", 0), [P("bpm_id", 0) EXCEPT !.val = AllOnes],
         P("cc_enable", 1), P("act_part", 1)>>

RffeDefaults == <<Put("rffe", "att", 0)>>

\* rffe_scpi_config_defaults asks for nothing.
RffeScpiDefaults == <<>>

RtmlampDefaults == <<>>

SwapDefaults == <<Dropped(Put("swap", "div_clk", 980)), Put("swap", "sw", 3), Put("swap", "sw_dly", 30)>>

TimRcvDefaults ==
    <<Put("tim_rcv", "phase_meas_navg", 10), Put("tim_rcv", "dmtd_a_deglitcher_thres", 10),
      Put("tim_rcv", "dmtd_b_deglitcher_thres", 10)>>

\* client_err is assigned anew for every channel, and tested after the last one.
TriggerIfaceDefaults ==
    LET Chan(c) ==
          LET P(op) == Untested(PutChan("trigger_iface", op, c, 1))
          IN <<P("dir"), Or(P("dir_pol")), Or(P("rcv_count_rst")), Or(P("transm_count_rst")),
               Or(P("rcv_len")), IF c = 23 THEN [Or(P("transm_len")) EXCEPT !.test = TRUE]
                                 ELSE Or(P("transm_len"))>>
    IN ForChans(24, Chan)

TriggerMuxDefaults ==
    LET Chan(c) ==
          LET P(op) == Untested(PutChan("trigger_mux", op, c, 0))
          IN <<P("rcv_src"), Or(P("rcv_in_sel")), Or(P("transm_src")), Or(P("transm_out_sel"))>>
        SwClk(op, n) == PutChan("trigger_mux", op, 18, n)
    IN ForChans(24, Chan)
       \o <<Untested(SwClk("rcv_src", 1)), Untested(Or(SwClk("rcv_in_sel", 1))),
            Untested(Or(SwClk("transm_src", 0))), Or(SwClk("transm_out_sel", 0))>>

\* The SMIOs without config_defaults have no steps.
Defaults ==
    [acq |-> <<>>, afc_diag |-> AfcDiagDefaults, afc_mgmt |-> AfcMgmtDefaults,
     afc_timing |-> AfcTimingDefaults, dsp |-> DspDefaults, fmc100m_4ch |-> Fmc100mDefaults,
     fmc130m_4ch |-> Fmc130mDefaults, fmc250m_4ch |-> Fmc250mDefaults,
     fmc_active_clk |-> FmcActiveClkDefaults, fmc_adc_common |-> FmcAdcCommonDefaults,
     fmcpico1m_4ch |-> FmcPicoDefaults, fofb_ctrl |-> FofbCtrlDefaults, init |-> <<>>,
     orbit_intlk |-> <<>>, rffe |-> RffeDefaults, rffe_scpi |-> RffeScpiDefaults,
     rtmlamp_ohwr |-> RtmlampDefaults, swap |-> SwapDefaults, tim_rcv |-> TimRcvDefaults,
     trigger_iface |-> TriggerIfaceDefaults, trigger_mux |-> TriggerMuxDefaults]

==============================================================================
