---------------------------- MODULE SmioExports ----------------------------
(****************************************************************************)
(* What every SMIO exports (sm_io_<smio>_exports.c): for each operation the *)
(* sizes of its arguments and of its return value, and the array of         *)
(* operations in the order in which it is written.                          *)
(****************************************************************************)
EXTENDS TLC

\* A size no parameter call has: a structure, or a string of revision data.
Blob == 1000

\* DISP_ARG_ENCODE: read/write flag and value; with a channel; floating point; a byte.
Value == [args |-> <<4, 4>>, ret |-> 4]
ChanValue == [args |-> <<4, 4, 4>>, ret |-> 4]
ChanValue2 == [args |-> <<4, 4, 4, 4>>, ret |-> 4]
Double == [args |-> <<4, 8>>, ret |-> 8]
Byte == [args |-> <<4, 1>>, ret |-> 1]
Struct == [args |-> <<4, 4>>, ret |-> Blob]
StructBoth == [args |-> <<4, Blob>>, ret |-> Blob]
StructOut == [args |-> <<>>, ret |-> Blob]

\* The same with .retval = DISP_ARG_END: there is no room for an answer.
ValueIn == [Value EXCEPT !.ret = 0]
ChanValueIn == [ChanValue EXCEPT !.ret = 0]
DoubleIn == [Double EXCEPT !.ret = 0]
Value3In == [ChanValue2 EXCEPT !.ret = 0]
NoArgs == [args |-> <<>>, ret |-> 0]

Typed(desc, ops) == [o \in ops |-> desc]

AcqDescs1 ==
    Typed(Value3In, {"data_acquire"})
 @@ Typed(NoArgs, {"check_data_acquire"})
 @@ Typed(Struct, {"get_data_block"})
 @@ Typed(Value, {"cfg_trig", "hw_data_trig_pol", "hw_data_trig_sel", "hw_data_trig_filt",
            "hw_data_trig_thres", "hw_trig_dly", "sw_trig", "fsm_stop", "hw_data_trig_chan"})

AcqDescs2 ==
    Typed(ChanValue, {"ch_int_width", "ch_num_coalesce", "ch_num_atoms", "ch_atom_width",
            "ch_sample_size"})

AcqOps ==
    <<"data_acquire", "check_data_acquire", "get_data_block", "cfg_trig", "hw_data_trig_pol",
      "hw_data_trig_sel", "hw_data_trig_filt", "hw_data_trig_thres", "hw_trig_dly", "sw_trig",
      "fsm_stop", "hw_data_trig_chan", "ch_int_width", "ch_num_coalesce", "ch_num_atoms",
      "ch_atom_width", "ch_sample_size">>

AfcDiagDescs ==
    Typed(Value, {"card_slot", "ipmi_addr"})
 @@ Typed(Struct, {"get_build_revision", "get_build_date", "get_build_user_name",
            "get_build_user_email"})

AfcDiagOps ==
    <<"card_slot", "ipmi_addr", "get_build_revision", "get_build_date", "get_build_user_name",
      "get_build_user_email">>

AfcMgmtDescs ==
    Typed(Value, {"si57x_oe"})
 @@ Typed(Double, {"si57x_freq", "si57x_fstartup"})
 @@ Typed(DoubleIn, {"si57x_get_defaults"})

AfcMgmtOps ==
    <<"si57x_oe", "si57x_freq", "si57x_get_defaults", "si57x_fstartup">>

AfcTimingDescs1 ==
    Typed(Value, {"link_status", "rxen_status", "ref_clk_locked", "evren", "alive"})
 @@ Typed(ChanValue, {"amc_en", "amc_pol", "amc_log", "amc_itl", "amc_src", "amc_dir", "amc_count_rst"})

AfcTimingDescs2 ==
    Typed(ChanValue, {"amc_pulses", "amc_count", "amc_evt", "amc_dly", "amc_wdt", "fmc1_en",
            "fmc1_pol", "fmc1_log", "fmc1_itl", "fmc1_src", "fmc1_dir"})

AfcTimingDescs3 ==
    Typed(ChanValue, {"fmc1_count_rst", "fmc1_pulses", "fmc1_count", "fmc1_evt", "fmc1_dly",
            "fmc1_wdt", "fmc2_en", "fmc2_pol", "fmc2_log", "fmc2_itl", "fmc2_src"})

AfcTimingDescs4 ==
    Typed(ChanValue, {"fmc2_dir", "fmc2_count_rst", "fmc2_pulses", "fmc2_count", "fmc2_evt",
            "fmc2_dly", "fmc2_wdt"})
 @@ Typed(Value, {"rtm_freq_kp", "rtm_freq_ki", "rtm_phase_kp", "rtm_phase_ki", "rtm_phase_navg"})

AfcTimingDescs5 ==
    Typed(Value, {"rtm_phase_div_exp", "rtm_rfreq_hi", "rtm_rfreq_lo", "rtm_n1", "rtm_hs_div",
            "afc_freq_kp", "afc_freq_ki", "afc_phase_kp", "afc_phase_ki", "afc_phase_navg",
            "afc_phase_div_exp", "afc_rfreq_hi"})

AfcTimingDescs6 ==
    Typed(Value, {"afc_rfreq_lo", "afc_n1", "afc_hs_div"})

AfcTimingOps ==
    <<"link_status", "rxen_status", "ref_clk_locked", "evren", "alive", "amc_en", "amc_pol",
      "amc_log", "amc_itl", "amc_src", "amc_dir", "amc_count_rst", "amc_pulses", "amc_count",
      "amc_evt", "amc_dly", "amc_wdt", "fmc1_en", "fmc1_pol", "fmc1_log", "fmc1_itl", "fmc1_src",
      "fmc1_dir", "fmc1_count_rst", "fmc1_pulses", "fmc1_count", "fmc1_evt", "fmc1_dly", "fmc1_wdt",
      "fmc2_en", "fmc2_pol", "fmc2_log", "fmc2_itl", "fmc2_src", "fmc2_dir", "fmc2_count_rst",
      "fmc2_pulses", "fmc2_count", "fmc2_evt", "fmc2_dly", "fmc2_wdt", "rtm_freq_kp", "rtm_freq_ki",
      "rtm_phase_kp", "rtm_phase_ki", "rtm_phase_navg", "rtm_phase_div_exp", "rtm_rfreq_hi",
      "rtm_rfreq_lo", "rtm_n1", "rtm_hs_div", "afc_freq_kp", "afc_freq_ki", "afc_phase_kp",
      "afc_phase_ki", "afc_phase_navg", "afc_phase_div_exp", "afc_rfreq_hi", "afc_rfreq_lo", "afc_n1",
      "afc_hs_div">>

DspDescs1 ==
    Typed(Value, {"kx", "ky", "ksum", "ds_tbt_thres", "ds_fofb_thres", "ds_monit_thres",
            "cfg_test_data", "monit_amp_ch0", "monit_amp_ch1", "monit_amp_ch2", "monit_amp_ch3",
            "monit_pos_x"})

DspDescs2 ==
    Typed(Value, {"monit_pos_y", "monit_pos_q", "monit_pos_sum", "monit_updt", "monit_poll_time",
            "monit1_amp_ch0", "monit1_amp_ch1", "monit1_amp_ch2", "monit1_amp_ch3", "monit1_pos_x",
            "monit1_pos_y", "monit1_pos_q"})

DspDescs3 ==
    Typed(Value, {"monit1_pos_sum", "monit1_updt", "sw_tag_en", "sw_data_mask_en",
            "sw_data_mask_samples", "tbt_tag_en", "tbt_tag_dly", "tbt_data_mask_en",
            "tbt_data_mask_samples_beg", "tbt_data_mask_samples_end", "sw_tag_desync_cnt_rst"})
 @@ Typed(StructOut, {"monit1_amp_pos"})

DspDescs4 ==
    Typed(Value, {"sw_tag_desync_cnt", "tbt_tag_desync_cnt_rst", "tbt_tag_desync_cnt",
            "monit1_tag_en", "monit1_tag_dly", "monit1_data_mask_en", "monit1_data_mask_samples_beg",
            "monit1_data_mask_samples_end", "monit1_tag_desync_cnt_rst", "monit1_tag_desync_cnt",
            "monit_tag_en", "monit_tag_dly"})

DspDescs5 ==
    Typed(Value, {"monit_data_mask_en", "monit_data_mask_samples_beg", "monit_data_mask_samples_end",
            "monit_tag_desync_cnt_rst", "monit_tag_desync_cnt", "offset_x", "offset_y"})

DspOps ==
    <<"kx", "ky", "ksum", "ds_tbt_thres", "ds_fofb_thres", "ds_monit_thres", "cfg_test_data",
      "monit_amp_ch0", "monit_amp_ch1", "monit_amp_ch2", "monit_amp_ch3", "monit_pos_x",
      "monit_pos_y", "monit_pos_q", "monit_pos_sum", "monit_updt", "monit_poll_time",
      "monit1_amp_ch0", "monit1_amp_ch1", "monit1_amp_ch2", "monit1_amp_ch3", "monit1_pos_x",
      "monit1_pos_y", "monit1_pos_q", "monit1_pos_sum", "monit1_updt", "monit1_amp_pos", "sw_tag_en",
      "sw_data_mask_en", "sw_data_mask_samples", "tbt_tag_en", "tbt_tag_dly", "tbt_data_mask_en",
      "tbt_data_mask_samples_beg", "tbt_data_mask_samples_end", "sw_tag_desync_cnt_rst",
      "sw_tag_desync_cnt", "tbt_tag_desync_cnt_rst", "tbt_tag_desync_cnt", "monit1_tag_en",
      "monit1_tag_dly", "monit1_data_mask_en", "monit1_data_mask_samples_beg",
      "monit1_data_mask_samples_end", "monit1_tag_desync_cnt_rst", "monit1_tag_desync_cnt",
      "monit_tag_en", "monit_tag_dly", "monit_data_mask_en", "monit_data_mask_samples_beg",
      "monit_data_mask_samples_end", "monit_tag_desync_cnt_rst", "monit_tag_desync_cnt", "offset_x",
      "offset_y">>

Fmc100mDescs1 ==
    Typed(Value, {"si571_oe", "acq_led", "status", "fs_freq"})
 @@ Typed(ChanValue, {"adc_status", "adc_calib_gain", "adc_calib_offset", "adc_sat", "adc_ssr"})
 @@ Typed(Double, {"si571_freq", "si571_fstartup"})
 @@ Typed(DoubleIn, {"si571_get_defaults"})

Fmc100mDescs2 ==
    Typed(Value, {"ltc2174_test_patt", "ltc2174_test_patt_data", "ltc2174_reset", "ltc2174_twos_compl"})

Fmc100mOps ==
    <<"si571_oe", "acq_led", "status", "adc_status", "adc_calib_gain", "adc_calib_offset", "adc_sat",
      "adc_ssr", "fs_freq", "si571_freq", "si571_get_defaults", "si571_fstartup", "ltc2174_test_patt",
      "ltc2174_test_patt_data", "ltc2174_reset", "ltc2174_twos_compl">>

Fmc130mDescs1 ==
    Typed(Value, {"adc_rand", "adc_dith", "adc_shdn", "adc_pga", "adc_data0", "adc_data1",
            "adc_data2", "adc_data3", "adc_dly_val0", "adc_dly_val1", "adc_dly_val2", "adc_dly_val3"})

Fmc130mDescs2 ==
    Typed(Value, {"adc_dly_line0", "adc_dly_line1", "adc_dly_line2", "adc_dly_line3", "adc_dly_updt0",
            "adc_dly_updt1", "adc_dly_updt2", "adc_dly_updt3"})
 @@ Typed(ValueIn, {"adc_dly0", "adc_dly1", "adc_dly2", "adc_dly3"})

Fmc130mDescs3 ==
    Typed(ChanValue, {"24aa64_data"})

Fmc130mOps ==
    <<"adc_rand", "adc_dith", "adc_shdn", "adc_pga", "adc_data0", "adc_data1", "adc_data2",
      "adc_data3", "adc_dly_val0", "adc_dly_val1", "adc_dly_val2", "adc_dly_val3", "adc_dly_line0",
      "adc_dly_line1", "adc_dly_line2", "adc_dly_line3", "adc_dly_updt0", "adc_dly_updt1",
      "adc_dly_updt2", "adc_dly_updt3", "adc_dly0", "adc_dly1", "adc_dly2", "adc_dly3", "24aa64_data">>

Fmc250mDescs1 ==
    Typed(Value, {"rst_adcs", "rst_div_adcs", "sleep_adcs", "adc_data0", "adc_data1", "adc_data2",
            "adc_data3", "adc_data_dly0", "adc_data_dly1", "adc_data_dly2", "adc_data_dly3",
            "adc_clk_dly0"})

Fmc250mDescs2 ==
    Typed(Value, {"adc_clk_dly1", "adc_clk_dly2", "adc_clk_dly3", "adc_dly_line0", "adc_dly_line1",
            "adc_dly_line2", "adc_dly_line3", "adc_dly_updt0", "adc_dly_updt1", "adc_dly_updt2",
            "adc_dly_updt3"})
 @@ Typed(ValueIn, {"adc_dly0"})

Fmc250mDescs3 ==
    Typed(ValueIn, {"adc_dly1", "adc_dly2", "adc_dly3"})
 @@ Typed(ChanValueIn, {"testmode", "rst", "portconfig"})
 @@ Typed(ChanValue2, {"reg"})
 @@ Typed(ChanValue, {"temp", "cal_status"})

Fmc250mOps ==
    <<"adc_data0", "adc_data1", "adc_data2", "adc_data3", "adc_data_dly0", "adc_data_dly1",
      "adc_data_dly2", "adc_data_dly3", "adc_clk_dly0", "adc_clk_dly1", "adc_clk_dly2",
      "adc_clk_dly3", "adc_dly_line0", "adc_dly_line1", "adc_dly_line2", "adc_dly_line3",
      "adc_dly_updt0", "adc_dly_updt1", "adc_dly_updt2", "adc_dly_updt3", "adc_dly0", "adc_dly1",
      "adc_dly2", "adc_dly3", "rst_adcs", "rst_div_adcs", "sleep_adcs", "testmode", "rst",
      "portconfig", "reg", "temp", "cal_status">>

FmcActiveClkDescs1 ==
    Typed(Value, {"si571_oe", "pll_function", "pll_status", "clk_sel", "ad9510_cfg_defaults",
            "ad9510_pll_a_div", "ad9510_pll_b_div", "ad9510_pll_prescaler", "ad9510_r_div",
            "ad9510_pll_pdown", "ad9510_mux_status", "ad9510_cp_current"})

FmcActiveClkDescs2 ==
    Typed(Value, {"ad9510_outputs", "ad9510_pll_clk_sel", "rst_isla216p", "rst_swap"})
 @@ Typed(Double, {"si571_freq", "si571_fstartup"})
 @@ Typed(DoubleIn, {"si571_get_defaults"})
 @@ Typed(ChanValue, {"ad9510_data"})

FmcActiveClkOps ==
    <<"si571_oe", "pll_function", "pll_status", "clk_sel", "ad9510_cfg_defaults", "ad9510_pll_a_div",
      "ad9510_pll_b_div", "ad9510_pll_prescaler", "ad9510_r_div", "ad9510_pll_pdown",
      "ad9510_mux_status", "ad9510_cp_current", "ad9510_outputs", "ad9510_pll_clk_sel", "si571_freq",
      "si571_get_defaults", "rst_isla216p", "rst_swap", "ad9510_data", "si571_fstartup">>

FmcAdcCommonDescs ==
    Typed(Value, {"leds", "mmcm_rst", "test_data_en", "trig_dir", "trig_term", "trig_val"})

FmcAdcCommonOps ==
    <<"leds", "mmcm_rst", "test_data_en", "trig_dir", "trig_term", "trig_val">>

FmcPicoDescs ==
    Typed(Value, {"led1", "led2", "rng_r0", "rng_r1", "rng_r2", "rng_r3", "adc_data0", "adc_data1",
            "adc_data2", "adc_data3"})

FmcPicoOps ==
    <<"led1", "led2", "rng_r0", "rng_r1", "rng_r2", "rng_r3", "adc_data0", "adc_data1", "adc_data2",
      "adc_data3">>

FofbCtrlDescs1 ==
    Typed(Value, {"act_part", "err_clr", "cc_enable", "tfs_override", "bpm_id", "time_frame_len",
            "mgt_powerdown", "mgt_loopback", "time_frame_dly", "golden_orb_x", "golden_orb_y",
            "cust_feature"})

FofbCtrlDescs2 ==
    Typed(Value, {"rx_polarity", "payloadsel", "fofbdatasel", "firmware_ver", "sys_status",
            "link_partner_1", "link_partner_2", "link_partner_3", "link_partner_4", "link_up",
            "time_frame_count", "hard_err_cnt_1"})

FofbCtrlDescs3 ==
    Typed(Value, {"hard_err_cnt_2", "hard_err_cnt_3", "hard_err_cnt_4", "soft_err_cnt_1",
            "soft_err_cnt_2", "soft_err_cnt_3", "soft_err_cnt_4", "frame_err_cnt_1",
            "frame_err_cnt_2", "frame_err_cnt_3", "frame_err_cnt_4", "rx_pck_cnt_1"})

FofbCtrlDescs4 ==
    Typed(Value, {"rx_pck_cnt_2", "rx_pck_cnt_3", "rx_pck_cnt_4", "tx_pck_cnt_1", "tx_pck_cnt_2",
            "tx_pck_cnt_3", "tx_pck_cnt_4", "fod_process_time", "bpm_count", "bpm_id_rdback",
            "tf_length_rdback", "powerdown_rdback"})

FofbCtrlDescs5 ==
    Typed(Value, {"loopback_rdback", "faival_rdback"})

FofbCtrlOps ==
    <<"act_part", "err_clr", "cc_enable", "tfs_override", "bpm_id", "time_frame_len", "mgt_powerdown",
      "mgt_loopback", "time_frame_dly", "golden_orb_x", "golden_orb_y", "cust_feature", "rx_polarity",
      "payloadsel", "fofbdatasel", "firmware_ver", "sys_status", "link_partner_1", "link_partner_2",
      "link_partner_3", "link_partner_4", "link_up", "time_frame_count", "hard_err_cnt_1",
      "hard_err_cnt_2", "hard_err_cnt_3", "hard_err_cnt_4", "soft_err_cnt_1", "soft_err_cnt_2",
      "soft_err_cnt_3", "soft_err_cnt_4", "frame_err_cnt_1", "frame_err_cnt_2", "frame_err_cnt_3",
      "frame_err_cnt_4", "rx_pck_cnt_1", "rx_pck_cnt_2", "rx_pck_cnt_3", "rx_pck_cnt_4",
      "tx_pck_cnt_1", "tx_pck_cnt_2", "tx_pck_cnt_3", "tx_pck_cnt_4", "fod_process_time", "bpm_count",
      "bpm_id_rdback", "tf_length_rdback", "powerdown_rdback", "loopback_rdback", "faival_rdback">>

InitSmioDescs ==
    Typed(Value, {"check"})

InitSmioOps ==
    <<"check">>

OrbitIntlkDescs1 ==
    Typed(Value, {"en", "clr", "min_sum_en", "trans_en", "trans_clr", "ang_en", "ang_clr",
            "trans_bigger_x", "trans_bigger_y", "trans_bigger_ltc_x", "trans_bigger_ltc_y",
            "trans_bigger_any"})

OrbitIntlkDescs2 ==
    Typed(Value, {"trans_bigger", "trans_bigger_ltc", "ang_bigger_x", "ang_bigger_y",
            "ang_bigger_ltc_x", "ang_bigger_ltc_y", "ang_bigger_any", "ang_bigger", "ang_bigger_ltc",
            "intlk", "intlk_ltc", "min_sum"})

OrbitIntlkDescs3 ==
    Typed(Value, {"trans_max_x", "trans_max_y", "ang_max_x", "ang_max_y", "trans_smaller_x",
            "trans_smaller_y", "trans_smaller_ltc_x", "trans_smaller_ltc_y", "trans_smaller_any",
            "trans_smaller", "trans_smaller_ltc", "ang_smaller_x"})

OrbitIntlkDescs4 ==
    Typed(Value, {"ang_smaller_y", "ang_smaller_ltc_x", "ang_smaller_ltc_y", "ang_smaller_any",
            "ang_smaller", "ang_smaller_ltc", "trans_min_x", "trans_min_y", "ang_min_x", "ang_min_y"})

OrbitIntlkOps ==
    <<"en", "clr", "min_sum_en", "trans_en", "trans_clr", "ang_en", "ang_clr", "trans_bigger_x",
      "trans_bigger_y", "trans_bigger_ltc_x", "trans_bigger_ltc_y", "trans_bigger_any",
      "trans_bigger", "trans_bigger_ltc", "ang_bigger_x", "ang_bigger_y", "ang_bigger_ltc_x",
      "ang_bigger_ltc_y", "ang_bigger_any", "ang_bigger", "ang_bigger_ltc", "intlk", "intlk_ltc",
      "min_sum", "trans_max_x", "trans_max_y", "ang_max_x", "ang_max_y", "trans_smaller_x",
      "trans_smaller_y", "trans_smaller_ltc_x", "trans_smaller_ltc_y", "trans_smaller_any",
      "trans_smaller", "trans_smaller_ltc", "ang_smaller_x", "ang_smaller_y", "ang_smaller_ltc_x",
      "ang_smaller_ltc_y", "ang_smaller_any", "ang_smaller", "ang_smaller_ltc", "trans_min_x",
      "trans_min_y", "ang_min_x", "ang_min_y">>

RffeDescs1 ==
    Typed(Double, {"att", "temp_ac", "temp_bd", "set_point_ac", "set_point_bd", "heater_ac",
            "heater_bd"})
 @@ Typed(Byte, {"temp_control", "reset", "reprog"})
 @@ Typed(StructBoth, {"data", "version"})

RffeDescs2 ==
    Typed(Double, {"pid_ac_kp", "pid_ac_ti", "pid_ac_td", "pid_bd_kp", "pid_bd_ti", "pid_bd_td"})

RffeOps ==
    <<"att", "temp_ac", "temp_bd", "set_point_ac", "set_point_bd", "temp_control", "heater_ac",
      "heater_bd", "reset", "reprog", "data", "version", "pid_ac_kp", "pid_ac_ti", "pid_ac_td",
      "pid_bd_kp", "pid_bd_ti", "pid_bd_td">>

RffeScpiDescs1 ==
    Typed(Double, {"att", "temp_ac", "temp_bd", "set_point_ac", "set_point_bd", "heater_ac",
            "heater_bd"})
 @@ Typed(Byte, {"temp_control", "reset", "reprog"})
 @@ Typed(StructBoth, {"data", "version"})

RffeScpiDescs2 ==
    Typed(Double, {"pid_ac_kp", "pid_ac_ti", "pid_ac_td", "pid_bd_kp", "pid_bd_ti", "pid_bd_td"})

RffeScpiOps ==
    <<"att", "temp_ac", "temp_bd", "set_point_ac", "set_point_bd", "temp_control", "heater_ac",
      "heater_bd", "reset", "reprog", "data", "version", "pid_ac_kp", "pid_ac_ti", "pid_ac_td",
      "pid_bd_kp", "pid_bd_ti", "pid_bd_td">>

RtmlampDescs ==
    Typed(Value, {"sta", "dac_data_from_wb"})
 @@ Typed(ChanValue, {"amp_iflag_l", "amp_tflag_l", "amp_iflag_r", "amp_tflag_r", "amp_en",
            "dac_data", "dac_wr"})

RtmlampOps ==
    <<"sta", "dac_data_from_wb", "amp_iflag_l", "amp_tflag_l", "amp_iflag_r", "amp_tflag_r", "amp_en",
      "dac_data", "dac_wr">>

SwapDescs ==
    Typed(Value, {"sw", "div_clk", "sw_dly"})

SwapOps ==
    <<"sw", "div_clk", "sw_dly">>

TimRcvDescs ==
    Typed(Value, {"phase_meas_navg", "dmtd_a_deglitcher_thres", "dmtd_b_deglitcher_thres",
            "phase_meas", "dmtd_a_freq", "dmtd_a_valid", "dmtd_b_freq", "dmtd_b_valid"})

TimRcvOps ==
    <<"phase_meas_navg", "dmtd_a_deglitcher_thres", "dmtd_b_deglitcher_thres", "phase_meas",
      "dmtd_a_freq", "dmtd_a_valid", "dmtd_b_freq", "dmtd_b_valid">>

TriggerIfaceDescs ==
    Typed(ChanValue, {"dir", "dir_pol", "rcv_count_rst", "transm_count_rst", "rcv_len", "transm_len",
            "count_rcv", "count_transm"})

TriggerIfaceOps ==
    <<"dir", "dir_pol", "rcv_count_rst", "transm_count_rst", "rcv_len", "transm_len", "count_rcv",
      "count_transm">>

TriggerMuxDescs ==
    Typed(ChanValue, {"rcv_src", "rcv_in_sel", "transm_src", "transm_out_sel"})

TriggerMuxOps ==
    <<"rcv_src", "rcv_in_sel", "transm_src", "transm_out_sel">>

Descs ==
    [acq |-> AcqDescs1 @@ AcqDescs2,
     afc_diag |-> AfcDiagDescs,
     afc_mgmt |-> AfcMgmtDescs,
     afc_timing |-> AfcTimingDescs1 @@ AfcTimingDescs2 @@ AfcTimingDescs3 @@ AfcTimingDescs4 @@ AfcTimingDescs5 @@ AfcTimingDescs6,
     dsp |-> DspDescs1 @@ DspDescs2 @@ DspDescs3 @@ DspDescs4 @@ DspDescs5,
     fmc100m_4ch |-> Fmc100mDescs1 @@ Fmc100mDescs2,
     fmc130m_4ch |-> Fmc130mDescs1 @@ Fmc130mDescs2 @@ Fmc130mDescs3,
     fmc250m_4ch |-> Fmc250mDescs1 @@ Fmc250mDescs2 @@ Fmc250mDescs3,
     fmc_active_clk |-> FmcActiveClkDescs1 @@ FmcActiveClkDescs2,
     fmc_adc_common |-> FmcAdcCommonDescs,
     fmcpico1m_4ch |-> FmcPicoDescs,
     fofb_ctrl |-> FofbCtrlDescs1 @@ FofbCtrlDescs2 @@ FofbCtrlDescs3 @@ FofbCtrlDescs4 @@ FofbCtrlDescs5,
     init |-> InitSmioDescs,
     orbit_intlk |-> OrbitIntlkDescs1 @@ OrbitIntlkDescs2 @@ OrbitIntlkDescs3 @@ OrbitIntlkDescs4,
     rffe |-> RffeDescs1 @@ RffeDescs2,
     rffe_scpi |-> RffeScpiDescs1 @@ RffeScpiDescs2,
     rtmlamp_ohwr |-> RtmlampDescs,
     swap |-> SwapDescs,
     tim_rcv |-> TimRcvDescs,
     trigger_iface |-> TriggerIfaceDescs,
     trigger_mux |-> TriggerMuxDescs]

Ops ==
    [acq |-> AcqOps,
     afc_diag |-> AfcDiagOps,
     afc_mgmt |-> AfcMgmtOps,
     afc_timing |-> AfcTimingOps,
     dsp |-> DspOps,
     fmc100m_4ch |-> Fmc100mOps,
     fmc130m_4ch |-> Fmc130mOps,
     fmc250m_4ch |-> Fmc250mOps,
     fmc_active_clk |-> FmcActiveClkOps,
     fmc_adc_common |-> FmcAdcCommonOps,
     fmcpico1m_4ch |-> FmcPicoOps,
     fofb_ctrl |-> FofbCtrlOps,
     init |-> InitSmioOps,
     orbit_intlk |-> OrbitIntlkOps,
     rffe |-> RffeOps,
     rffe_scpi |-> RffeScpiOps,
     rtmlamp_ohwr |-> RtmlampOps,
     swap |-> SwapOps,
     tim_rcv |-> TimRcvOps,
     trigger_iface |-> TriggerIfaceOps,
     trigger_mux |-> TriggerMuxOps]

==============================================================================
