----------------------------- MODULE ClientApi -----------------------------
(****************************************************************************)
(* What the client libraries offer (halcs_client_core.c, acq_client_core.c):*)
(* one request for every function halcs_set_<x> and halcs_get_<x>, with the *)
(* operation it names and the sizes it sends and expects.                   *)
(****************************************************************************)
EXTENDS TLC

\* param_client_write, _read, _write_raw, ...: read/write flag (or first argument) and value.
Plain == [args |-> <<4, 4>>, ret |-> 4]
\* param_client_write2, param_client_write_read: a channel besides.
PerChan == [args |-> <<4, 4, 4>>, ret |-> 4]
PerChan2 == [args |-> <<4, 4, 4, 4>>, ret |-> 4]
Real == [args |-> <<4, 8>>, ret |-> 8]
Octet == [args |-> <<4, 1>>, ret |-> 1]

Offer(rw, kind, op) == [rw |-> rw, op |-> op, args |-> kind.args, ret |-> kind.ret]
Sets(kind, ops) == {Offer("set", kind, o) : o \in ops}
Gets(kind, ops) == {Offer("get", kind, o) : o \in ops}
Both(kind, ops) == Sets(kind, ops) \cup Gets(kind, ops)

AcqApi1 ==
    Both(Plain, {"cfg_trig", "hw_data_trig_pol", "hw_data_trig_sel", "hw_data_trig_filt",
            "hw_data_trig_thres", "hw_trig_dly", "sw_trig", "fsm_stop", "hw_data_trig_chan"})

AcqApi2 ==
    Both(PerChan, {"ch_int_width", "ch_num_coalesce", "ch_num_atoms", "ch_atom_width",
            "ch_sample_size"})

FmcAdcCommonApi ==
    Both(Plain, {"leds", "mmcm_rst", "test_data_en", "trig_dir", "trig_term", "trig_val"})

FmcActiveClkApi1 ==
    Both(Plain, {"pll_function", "pll_status", "clk_sel", "si571_oe", "ad9510_cfg_defaults",
            "ad9510_pll_a_div", "ad9510_pll_b_div", "ad9510_pll_prescaler", "ad9510_r_div",
            "ad9510_pll_pdown", "ad9510_mux_status"})
 \cup Sets(Plain, {"rst_isla216p", "rst_swap"})

FmcActiveClkApi2 ==
    Both(Plain, {"ad9510_cp_current", "ad9510_outputs", "ad9510_pll_clk_sel"})
 \cup Both(Real, {"si571_freq", "si571_fstartup"})
 \cup Sets(Real, {"si571_get_defaults"})

FmcActiveClkApi3 ==
    Both(PerChan, {"ad9510_data"})

Fmc100mApi ==
    Both(Plain, {"acq_led", "ltc2174_test_patt", "ltc2174_test_patt_data", "ltc2174_twos_compl"})
 \cup Sets(Plain, {"ltc2174_reset"})
 \cup Gets(Plain, {"status", "fs_freq"})
 \cup Both(PerChan, {"adc_calib_gain", "adc_calib_offset", "adc_sat", "adc_ssr"})
 \cup Gets(PerChan, {"adc_status"})

Fmc130mApi1 ==
    Both(Plain, {"adc_rand", "adc_dith", "adc_shdn", "adc_pga", "adc_data0", "adc_data1", "adc_data2",
            "adc_data3", "adc_dly_val0", "adc_dly_val1", "adc_dly_val2", "adc_dly_val3",
            "adc_dly_line0"})

Fmc130mApi2 ==
    Both(Plain, {"adc_dly_line1", "adc_dly_line2", "adc_dly_line3", "adc_dly_updt0", "adc_dly_updt1",
            "adc_dly_updt2", "adc_dly_updt3"})
 \cup Sets(Plain, {"adc_dly0", "adc_dly1", "adc_dly2", "adc_dly3"})
 \cup Both(PerChan, {"24aa64_data"})

Fmc250mApi1 ==
    Both(Plain, {"rst_adcs", "rst_div_adcs", "sleep_adcs", "adc_data_dly0", "adc_data_dly1",
            "adc_data_dly2", "adc_data_dly3", "adc_clk_dly0"})
 \cup Sets(Plain, {"adc_clk_dly1"})
 \cup Sets(PerChan, {"testmode", "rst", "portconfig"})
 \cup Gets(PerChan, {"temp", "cal_status"})
 \cup Both(PerChan2, {"reg"})

Fmc250mApi2 ==
    Both(Plain, {"adc_clk_dly2", "adc_clk_dly3", "adc_dly_line0", "adc_dly_line1", "adc_dly_line2",
            "adc_dly_line3", "adc_dly_updt0", "adc_dly_updt1", "adc_dly_updt2", "adc_dly_updt3"})
 \cup Sets(Plain, {"adc_dly0", "adc_dly1", "adc_dly2", "adc_dly3"})
 \cup Gets(Plain, {"adc_clk_dly1"})

FmcPicoApi ==
    Both(Plain, {"led1", "led2", "rng_r0", "rng_r1", "rng_r2", "rng_r3", "adc_data0", "adc_data1",
            "adc_data2", "adc_data3"})

DspApi1 ==
    Both(Plain, {"kx", "ky", "ksum", "ds_tbt_thres", "ds_fofb_thres", "ds_monit_thres",
            "cfg_test_data", "monit_amp_ch0", "monit_amp_ch1", "monit_amp_ch2", "monit_amp_ch3",
            "monit_pos_x", "monit_pos_y"})
 \cup Sets(Plain, {"monit_pos_q"})

DspApi2 ==
    Both(Plain, {"monit_pos_sum", "monit_updt", "monit_poll_time"})
 \cup Gets(Plain, {"monit_pos_q"})

DspApi3 ==
    Both(Plain, {"monit1_amp_ch0", "monit1_amp_ch1", "monit1_amp_ch2", "monit1_amp_ch3",
            "monit1_pos_x", "monit1_pos_y", "monit1_pos_q", "monit1_pos_sum", "monit1_updt"})

DspApi4 ==
    Both(Plain, {"sw_tag_en", "sw_data_mask_en", "sw_data_mask_samples", "tbt_tag_en", "tbt_tag_dly",
            "tbt_data_mask_en", "tbt_data_mask_samples_beg", "tbt_data_mask_samples_end",
            "sw_tag_desync_cnt_rst", "tbt_tag_desync_cnt_rst", "monit1_tag_en", "monit1_tag_dly"})
 \cup Sets(Plain, {"monit1_data_mask_en"})
 \cup Gets(Plain, {"sw_tag_desync_cnt", "tbt_tag_desync_cnt"})

DspApi5 ==
    Both(Plain, {"monit1_data_mask_samples_beg", "monit1_data_mask_samples_end",
            "monit1_tag_desync_cnt_rst", "monit_tag_en", "monit_tag_dly", "monit_data_mask_en",
            "monit_data_mask_samples_beg", "monit_data_mask_samples_end", "monit_tag_desync_cnt_rst",
            "offset_x", "offset_y"})
 \cup Gets(Plain, {"monit1_data_mask_en", "monit1_tag_desync_cnt", "monit_tag_desync_cnt"})

SwapApi ==
    Both(Plain, {"sw", "div_clk", "sw_dly"})

RffeApi1 ==
    Both(Real, {"att", "set_point_ac", "set_point_bd", "heater_ac", "heater_bd"})
 \cup Gets(Real, {"temp_ac", "temp_bd"})
 \cup Both(Octet, {"temp_control", "reset", "reprog"})

RffeApi2 ==
    Both(Real, {"pid_ac_kp", "pid_ac_ti", "pid_ac_td", "pid_bd_kp", "pid_bd_ti", "pid_bd_td"})

AfcDiagApi ==
    Both(Plain, {"card_slot", "ipmi_addr"})

TriggerIfaceApi ==
    Both(PerChan, {"dir", "dir_pol", "rcv_count_rst", "transm_count_rst", "rcv_len", "transm_len",
            "count_rcv", "count_transm"})

TriggerMuxApi ==
    Both(PerChan, {"rcv_src", "rcv_in_sel", "transm_src", "transm_out_sel"})

AfcTimingApi1 ==
    Both(Plain, {"link_status", "rxen_status", "ref_clk_locked", "evren", "alive"})
 \cup Both(PerChan, {"amc_en", "amc_pol", "amc_log", "amc_itl", "amc_src", "amc_dir", "amc_count_rst",
            "amc_pulses", "amc_count", "amc_evt", "amc_dly"})
 \cup Sets(PerChan, {"amc_wdt"})

AfcTimingApi2 ==
    Both(PerChan, {"fmc1_en", "fmc1_pol", "fmc1_log", "fmc1_itl", "fmc1_src", "fmc1_dir",
            "fmc1_count_rst", "fmc1_pulses", "fmc1_count", "fmc1_evt", "fmc1_dly", "fmc1_wdt",
            "fmc2_en", "fmc2_pol", "fmc2_log", "fmc2_itl"})
 \cup Gets(PerChan, {"amc_wdt"})

AfcTimingApi3 ==
    Both(PerChan, {"fmc2_src", "fmc2_dir", "fmc2_count_rst", "fmc2_pulses", "fmc2_count",
            "fmc2_evt", "fmc2_dly", "fmc2_wdt"})
 \cup Both(Plain, {"rtm_freq_kp", "rtm_freq_ki", "rtm_phase_kp", "rtm_phase_ki", "rtm_phase_navg",
            "rtm_phase_div_exp", "rtm_rfreq_hi", "rtm_rfreq_lo"})
 \cup Sets(Plain, {"rtm_n1"})

AfcTimingApi4 ==
    Both(Plain, {"rtm_hs_div", "afc_freq_kp", "afc_freq_ki", "afc_phase_kp", "afc_phase_ki",
            "afc_phase_navg", "afc_phase_div_exp", "afc_rfreq_hi", "afc_rfreq_lo", "afc_n1",
            "afc_hs_div"})
 \cup Gets(Plain, {"rtm_n1"})

InitSmioApi ==
    Gets(Plain, {"check"})

TimRcvApi ==
    Both(Plain, {"phase_meas_navg", "dmtd_a_deglitcher_thres", "dmtd_b_deglitcher_thres",
            "phase_meas", "dmtd_a_freq", "dmtd_a_valid", "dmtd_b_freq", "dmtd_b_valid"})

OrbitIntlkApi1 ==
    Both(Plain, {"en", "clr", "min_sum_en", "trans_en", "trans_clr", "ang_en", "ang_clr"})
 \cup Gets(Plain, {"trans_bigger_x", "trans_bigger_y", "trans_bigger_ltc_x", "trans_bigger_ltc_y",
            "trans_bigger_any", "trans_bigger", "trans_bigger_ltc", "ang_bigger_x", "ang_bigger_y",
            "ang_bigger_ltc_x", "ang_bigger_ltc_y", "ang_bigger_any"})

OrbitIntlkApi2 ==
    Both(Plain, {"min_sum", "trans_max_x", "trans_max_y", "ang_max_x", "ang_max_y"})
 \cup Gets(Plain, {"ang_bigger", "ang_bigger_ltc", "intlk", "intlk_ltc", "trans_smaller_x",
            "trans_smaller_y", "trans_smaller_ltc_x", "trans_smaller_ltc_y", "trans_smaller_any",
            "trans_smaller", "trans_smaller_ltc", "ang_smaller_x", "ang_smaller_y",
            "ang_smaller_ltc_x", "ang_smaller_ltc_y", "ang_smaller_any"})

OrbitIntlkApi3 ==
    Both(Plain, {"trans_min_x", "trans_min_y", "ang_min_x", "ang_min_y"})
 \cup Gets(Plain, {"ang_smaller", "ang_smaller_ltc"})

FofbCtrlApi1 ==
    Both(Plain, {"act_part", "err_clr", "cc_enable", "tfs_override", "bpm_id", "time_frame_len",
            "mgt_powerdown", "mgt_loopback", "time_frame_dly", "golden_orb_x", "golden_orb_y",
            "cust_feature", "rx_polarity", "payloadsel", "fofbdatasel"})

FofbCtrlApi2 ==
    Gets(Plain, {"firmware_ver", "sys_status", "link_partner_1", "link_partner_2", "link_partner_3",
            "link_partner_4", "link_up", "time_frame_count", "hard_err_cnt_1", "hard_err_cnt_2",
            "hard_err_cnt_3", "hard_err_cnt_4", "soft_err_cnt_1", "soft_err_cnt_2", "soft_err_cnt_3",
            "soft_err_cnt_4", "frame_err_cnt_1", "frame_err_cnt_2", "frame_err_cnt_3",
            "frame_err_cnt_4", "rx_pck_cnt_1", "rx_pck_cnt_2", "rx_pck_cnt_3", "rx_pck_cnt_4",
            "tx_pck_cnt_1", "tx_pck_cnt_2", "tx_pck_cnt_3", "tx_pck_cnt_4", "fod_process_time",
            "bpm_count"})

FofbCtrlApi3 ==
    Gets(Plain, {"bpm_id_rdback", "tf_length_rdback", "powerdown_rdback", "loopback_rdback",
            "faival_rdback"})

RtmlampApi ==
    Both(Plain, {"sta", "dac_data_from_wb"})
 \cup Both(PerChan, {"amp_iflag_l", "amp_tflag_l", "amp_iflag_r", "amp_tflag_r", "amp_en", "dac_data",
            "dac_wr"})

Api ==
    [acq |-> AcqApi1 \cup AcqApi2,
     afc_diag |-> AfcDiagApi,
     afc_timing |-> AfcTimingApi1 \cup AfcTimingApi2 \cup AfcTimingApi3 \cup AfcTimingApi4,
     dsp |-> DspApi1 \cup DspApi2 \cup DspApi3 \cup DspApi4 \cup DspApi5,
     fmc100m_4ch |-> Fmc100mApi,
     fmc130m_4ch |-> Fmc130mApi1 \cup Fmc130mApi2,
     fmc250m_4ch |-> Fmc250mApi1 \cup Fmc250mApi2,
     fmc_active_clk |-> FmcActiveClkApi1 \cup FmcActiveClkApi2 \cup FmcActiveClkApi3,
     fmc_adc_common |-> FmcAdcCommonApi,
     fmcpico1m_4ch |-> FmcPicoApi,
     fofb_ctrl |-> FofbCtrlApi1 \cup FofbCtrlApi2 \cup FofbCtrlApi3,
     init |-> InitSmioApi,
     orbit_intlk |-> OrbitIntlkApi1 \cup OrbitIntlkApi2 \cup OrbitIntlkApi3,
     rffe |-> RffeApi1 \cup RffeApi2,
     rtmlamp_ohwr |-> RtmlampApi,
     swap |-> SwapApi,
     tim_rcv |-> TimRcvApi,
     trigger_iface |-> TriggerIfaceApi,
     trigger_mux |-> TriggerMuxApi]

==============================================================================
