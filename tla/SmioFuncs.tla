----------------------------- MODULE SmioFuncs -----------------------------
(****************************************************************************)
(* What every SMIO executes (sm_io_<smio>_exp.c): the array of functions    *)
(* that runs parallel to the array of operations, and the functions that    *)
(* are a SET_GET_PARAM on a register.                                       *)
(*                                                                          *)
(* A parameter names a register and a field of the register map (SmioRegs). *)
(* "own" is the field when sm_io_<smio>_exp.c itself defines it; "first",   *)
(* "offset" and "num" are its channels; "limit" is n when check_param_limits*)
(* admits values up to 2^n - 1, and "least" the smallest value it admits.   *)
(* Functions that are no parameter drive a chip or a message, and are       *)
(* named in the array only.                                                 *)
(****************************************************************************)
EXTENDS Integers, TLC

NoLim == [limit |-> 32, least |-> 0]
Upto(n) == [limit |-> n, least |-> 0]
From1(n) == [limit |-> n, least |-> 1]

\* SET_GET_PARAM with MULT_BIT_PARAM on a field of the header.
M(reg, field, lim) ==
    [reg |-> reg, field |-> field, own |-> {}, single |-> FALSE, wide |-> {}, quiet |-> FALSE,
     first |-> 0, offset |-> 0, num |-> 1, limit |-> lim.limit, least |-> lim.least]

\* SET_GET_PARAM with SINGLE_BIT_PARAM.
B(reg, field, lim) == [M(reg, field, lim) EXCEPT !.single = TRUE]

\* A field that the SMIO defines itself, and the whole register as such a field.
Own(reg, bits, lim) == [M(reg, "", lim) EXCEPT !.own = bits]
W(reg, lim) == Own(reg, 0..31, lim)

\* A field whose _W and _R macros take one bit more than its _MASK.
Wide(reg, field, lim) == [M(reg, field, lim) EXCEPT !.wide = 0..15]

\* A function of its own around GET_PARAM and SET_PARAM that answers whatever they return.
Quiet(reg) == [W(reg, NoLim) EXCEPT !.quiet = TRUE]

\* SET_GET_PARAM_CHANNEL.
OnChans(first, offset, num, ps) ==
    [p \in DOMAIN ps |-> [ps[p] EXCEPT !.first = first, !.offset = offset, !.num = num]]

AcqFuncs ==
    <<"data_acquire", "check_data_acquire", "get_data_block", "cfg_trigger", "hw_data_trig_pol",
      "hw_data_trig_sel", "hw_data_trig_filt", "hw_data_trig_thres", "hw_trig_dly", "sw_trig",
      "fsm_stop", "hw_data_trig_chan", "int_width", "num_coalesce", "num_atoms", "atom_width",
      "sample_size">>

AcqParams ==
    [hw_data_trig_pol |-> B("TRIG_CFG", "HW_TRIG_POL", Upto(1)),
     hw_data_trig_sel |-> M("TRIG_CFG", "INT_TRIG_SEL", Upto(5)),
     hw_data_trig_filt |-> M("TRIG_DATA_CFG", "THRES_FILT", Upto(8)),
     hw_data_trig_thres |-> W("TRIG_DATA_THRES", NoLim), hw_trig_dly |-> W("TRIG_DLY", NoLim),
     sw_trig |-> W("SW_TRIG", Upto(1)), fsm_stop |-> B("CTL", "FSM_STOP_ACQ", Upto(1)),
     hw_data_trig_chan |-> M("ACQ_CHAN_CTL", "DTRIG_WHICH", Upto(5))]
 @@ OnChans(0, 8, 24,
       [int_width |-> M("CH_DESC", "INT_WIDTH", Upto(16)),
        num_coalesce |-> M("CH_DESC", "NUM_COALESCE", Upto(16)),
        num_atoms |-> M("CH_ATOM_DESC", "NUM_ATOMS", Upto(16)),
        atom_width |-> M("CH_ATOM_DESC", "ATOM_WIDTH", Upto(16))])

AfcDiagFuncs ==
    <<"card_slot", "ipmi_addr", "build_revision", "build_date", "build_user_name", "build_user_email">>

AfcDiagParams ==
    [card_slot |-> M("GEO_ID", "CARD_SLOT", NoLim), ipmi_addr |-> M("GEO_ID", "IPMI_ADDR", NoLim)]

AfcMgmtFuncs ==
    <<"si57x_oe", "si57x_freq", "si57x_get_defaults", "si57x_fstartup">>

AfcMgmtParams ==
    [si57x_oe |-> B("CLK_DISTRIB", "SI57X_OE", Upto(1))]

AfcTimingFuncs ==
    <<"link_status", "rxen_status", "ref_clk_locked", "evren", "alive", "amc_en", "amc_pol",
      "amc_log", "amc_itl", "amc_src", "amc_dir", "amc_count_rst", "amc_pulses", "amc_count",
      "amc_evt", "amc_dly", "amc_wdt", "fmc1_en", "fmc1_pol", "fmc1_log", "fmc1_itl", "fmc1_src",
      "fmc1_dir", "fmc1_count_rst", "fmc1_pulses", "fmc1_count", "fmc1_evt", "fmc1_dly", "fmc1_wdt",
      "fmc2_en", "fmc2_pol", "fmc2_log", "fmc2_itl", "fmc2_src", "fmc2_dir", "fmc2_count_rst",
      "fmc2_pulses", "fmc2_count", "fmc2_evt", "fmc2_dly", "fmc2_wdt", "rtm_freq_kp", "rtm_freq_ki",
      "rtm_phase_kp", "rtm_phase_ki", "rtm_phase_navg", "rtm_phase_div_exp", "rtm_rfreq_hi",
      "rtm_rfreq_lo", "rtm_n1", "rtm_hs_div", "afc_freq_kp", "afc_freq_ki", "afc_phase_kp",
      "afc_phase_ki", "afc_phase_navg", "afc_phase_div_exp", "afc_rfreq_hi", "afc_rfreq_lo", "afc_n1",
      "afc_hs_div">>

AfcTimingParams1 ==
    [link_status |-> B("STAT", "LINK", NoLim), rxen_status |-> B("STAT", "RXEN", NoLim),
     ref_clk_locked |-> B("STAT", "REFCLKLOCK", NoLim), evren |-> B("STAT", "EVREN", NoLim),
     alive |-> W("ALIVE", NoLim)]
 @@ OnChans(0, 24, 8,
       [amc_en |-> B("AMC", "EN", NoLim), amc_pol |-> B("AMC", "POL", NoLim),
        amc_log |-> B("AMC", "LOG", NoLim), amc_itl |-> B("AMC", "ITL", NoLim),
        amc_src |-> M("AMC", "SRC", NoLim), amc_dir |-> B("AMC", "DIR", NoLim),
        amc_count_rst |-> B("AMC", "COUNT_RST", NoLim), amc_pulses |-> W("AMC_PULSES", NoLim),
        amc_count |-> W("AMC_COUNT", NoLim), amc_evt |-> W("AMC_EVT", NoLim),
        amc_dly |-> W("AMC_DLY", NoLim), amc_wdt |-> W("AMC_WDT", NoLim)])
 @@ OnChans(0, 24, 5,
       [fmc1_en |-> B("FMC1CH", "EN", NoLim)])

AfcTimingParams2 ==
    OnChans(0, 24, 5,
       [fmc1_pol |-> B("FMC1CH", "POL", NoLim), fmc1_log |-> B("FMC1CH", "LOG", NoLim),
        fmc1_itl |-> B("FMC1CH", "ITL", NoLim), fmc1_src |-> M("FMC1CH", "SRC", NoLim),
        fmc1_dir |-> B("FMC1CH", "DIR", NoLim), fmc1_count_rst |-> B("FMC1CH", "COUNT_RST", NoLim),
        fmc1_pulses |-> W("FMC1CH_PULSES", NoLim), fmc1_count |-> W("FMC1CH_COUNT", NoLim),
        fmc1_evt |-> W("FMC1CH_EVT", NoLim), fmc1_dly |-> W("FMC1CH_DLY", NoLim),
        fmc1_wdt |-> W("FMC1CH_WDT", NoLim), fmc2_en |-> B("FMC2CH", "EN", NoLim),
        fmc2_pol |-> B("FMC2CH", "POL", NoLim), fmc2_log |-> B("FMC2CH", "LOG", NoLim),
        fmc2_itl |-> B("FMC2CH", "ITL", NoLim), fmc2_src |-> M("FMC2CH", "SRC", NoLim),
        fmc2_dir |-> B("FMC2CH", "DIR", NoLim), fmc2_count_rst |-> B("FMC2CH", "COUNT_RST", NoLim),
        fmc2_pulses |-> W("FMC2CH_PULSES", NoLim), fmc2_count |-> W("FMC2CH_COUNT", NoLim)])

AfcTimingParams3 ==
    OnChans(0, 24, 5,
       [fmc2_evt |-> W("FMC2CH_EVT", NoLim), fmc2_dly |-> W("FMC2CH_DLY", NoLim),
        fmc2_wdt |-> W("FMC2CH_WDT", NoLim)])
 @@ [rtm_freq_kp |-> M("RTM_FREQ", "KP", Upto(16)), rtm_freq_ki |-> M("RTM_FREQ", "KI", Upto(16)),
     rtm_phase_kp |-> M("RTM_PHASE", "KP", Upto(16)), rtm_phase_ki |-> M("RTM_PHASE", "KI", Upto(16)),
     rtm_phase_navg |-> M("RTM_MAF", "NAVG", Upto(12)),
     rtm_phase_div_exp |-> M("RTM_MAF", "DIV_EXP", Upto(5)),
     rtm_rfreq_hi |-> W("RTM_RFREQ_HI", NoLim), rtm_rfreq_lo |-> W("RTM_RFREQ_LO", NoLim),
     rtm_n1 |-> M("RTM", "N1", NoLim), rtm_hs_div |-> M("RTM", "HS_DIV", NoLim),
     afc_freq_kp |-> M("AFC_FREQ", "KP", Upto(16)), afc_freq_ki |-> M("AFC_FREQ", "KI", Upto(16)),
     afc_phase_kp |-> M("AFC_PHASE", "KP", Upto(16)), afc_phase_ki |-> M("AFC_PHASE", "KI", Upto(16)),
     afc_phase_navg |-> M("AFC_MAF", "NAVG", Upto(12)),
     afc_phase_div_exp |-> M("AFC_MAF", "DIV_EXP", Upto(5)),
     afc_rfreq_hi |-> W("AFC_RFREQ_HI", NoLim), afc_rfreq_lo |-> W("AFC_RFREQ_LO", NoLim)]

AfcTimingParams4 ==
    [afc_n1 |-> M("AFC", "N1", NoLim), afc_hs_div |-> M("AFC", "HS_DIV", NoLim)]

DspFuncs ==
    <<"kx", "ky", "ksum", "ds_tbt_thres", "ds_fofb_thres", "ds_monit_thres", "pos_calc_cfg_test_data",
      "monit_amp_ch0", "monit_amp_ch1", "monit_amp_ch2", "monit_amp_ch3", "monit_pos_x",
      "monit_pos_y", "monit_pos_q", "monit_pos_sum", "monit_updt", "monit_poll_time",
      "monit1_amp_ch0", "monit1_amp_ch1", "monit1_amp_ch2", "monit1_amp_ch3", "monit1_pos_x",
      "monit1_pos_y", "monit1_pos_q", "monit1_pos_sum", "monit1_updt", "monit1_amp_pos", "sw_tag_en",
      "sw_data_mask_en", "sw_data_mask_samples", "tbt_tag_en", "tbt_tag_dly", "tbt_data_mask_en",
      "tbt_data_mask_samples_beg", "tbt_data_mask_samples_end", "sw_tag_desync_cnt_rst",
      "sw_tag_desync_cnt", "tbt_tag_desync_cnt_rst", "tbt_tag_desync_cnt", "monit1_tag_en",
      "monit1_tag_dly", "monit1_data_mask_en", "monit1_data_mask_samples_beg",
      "monit1_data_mask_samples_end", "monit1_tag_desync_cnt_rst", "monit1_tag_desync_cnt",
      "monit_tag_en", "monit_tag_dly", "monit_data_mask_en", "monit_data_mask_samples_beg",
      "monit_data_mask_samples_end", "monit_tag_desync_cnt_rst", "monit_tag_desync_cnt", "offset_x",
      "offset_y">>

DspParams1 ==
    [kx |-> M("KX", "VAL", From1(25)), ky |-> M("KY", "VAL", From1(25)),
     ksum |-> M("KSUM", "VAL", From1(25)), ds_tbt_thres |-> M("DS_TBT_THRES", "VAL", Upto(26)),
     ds_fofb_thres |-> M("DS_FOFB_THRES", "VAL", Upto(26)),
     ds_monit_thres |-> M("DS_MONIT_THRES", "VAL", Upto(26)),
     pos_calc_cfg_test_data |-> B("DDS_CFG", "TEST_DATA", Upto(1)),
     monit_amp_ch0 |-> W("DSP_MONIT_AMP_CH0", NoLim), monit_amp_ch1 |-> W("DSP_MONIT_AMP_CH1", NoLim),
     monit_amp_ch2 |-> W("DSP_MONIT_AMP_CH2", NoLim), monit_amp_ch3 |-> W("DSP_MONIT_AMP_CH3", NoLim),
     monit_pos_x |-> W("DSP_MONIT_POS_X", NoLim), monit_pos_y |-> W("DSP_MONIT_POS_Y", NoLim),
     monit_pos_q |-> W("DSP_MONIT_POS_Q", NoLim), monit_pos_sum |-> W("DSP_MONIT_POS_SUM", NoLim),
     monit_updt |-> W("DSP_MONIT_UPDT", NoLim)]

DspParams2 ==
    [monit1_amp_ch0 |-> W("DSP_MONIT1_AMP_CH0", NoLim),
     monit1_amp_ch1 |-> W("DSP_MONIT1_AMP_CH1", NoLim),
     monit1_amp_ch2 |-> W("DSP_MONIT1_AMP_CH2", NoLim),
     monit1_amp_ch3 |-> W("DSP_MONIT1_AMP_CH3", NoLim), monit1_pos_x |-> W("DSP_MONIT1_POS_X", NoLim),
     monit1_pos_y |-> W("DSP_MONIT1_POS_Y", NoLim), monit1_pos_q |-> W("DSP_MONIT1_POS_Q", NoLim),
     monit1_pos_sum |-> W("DSP_MONIT1_POS_SUM", NoLim), monit1_updt |-> W("DSP_MONIT1_UPDT", NoLim)]

DspParams3 ==
    [sw_tag_en |-> B("SW_TAG", "EN", Upto(1)), sw_data_mask_en |-> B("SW_DATA_MASK", "EN", Upto(1)),
     sw_data_mask_samples |-> M("SW_DATA_MASK", "SAMPLES", Upto(16)),
     tbt_tag_en |-> B("TBT_TAG", "EN", Upto(1)), tbt_tag_dly |-> M("TBT_TAG", "DLY", Upto(9)),
     tbt_data_mask_en |-> B("TBT_DATA_MASK_CTL", "EN", Upto(1)),
     tbt_data_mask_samples_beg |-> M("TBT_DATA_MASK_SAMPLES", "BEG", Upto(10)),
     tbt_data_mask_samples_end |-> M("TBT_DATA_MASK_SAMPLES", "END", Upto(10)),
     sw_tag_desync_cnt_rst |-> B("SW_TAG", "DESYNC_CNT_RST", Upto(1)),
     sw_tag_desync_cnt |-> M("SW_TAG", "DESYNC_CNT", Upto(14)),
     tbt_tag_desync_cnt_rst |-> B("TBT_TAG", "DESYNC_CNT_RST", Upto(1)),
     tbt_tag_desync_cnt |-> M("TBT_TAG", "DESYNC_CNT", Upto(14)),
     monit1_tag_en |-> B("MONIT1_TAG", "EN", Upto(1)),
     monit1_tag_dly |-> M("MONIT1_TAG", "DLY", Upto(9)),
     monit1_data_mask_en |-> B("MONIT1_DATA_MASK_CTL", "EN", Upto(1)),
     monit1_data_mask_samples_beg |-> M("MONIT1_DATA_MASK_SAMPLES", "BEG", Upto(10)),
     monit1_data_mask_samples_end |-> M("MONIT1_DATA_MASK_SAMPLES", "END", Upto(10)),
     monit1_tag_desync_cnt_rst |-> B("MONIT1_TAG", "DESYNC_CNT_RST", Upto(1))]

DspParams4 ==
    [monit1_tag_desync_cnt |-> M("MONIT1_TAG", "DESYNC_CNT", Upto(14)),
     monit_tag_en |-> B("MONIT_TAG", "EN", Upto(1)), monit_tag_dly |-> M("MONIT_TAG", "DLY", Upto(9)),
     monit_data_mask_en |-> B("MONIT_DATA_MASK_CTL", "EN", Upto(1)),
     monit_data_mask_samples_beg |-> M("MONIT_DATA_MASK_SAMPLES", "BEG", Upto(10)),
     monit_data_mask_samples_end |-> M("MONIT_DATA_MASK_SAMPLES", "END", Upto(10)),
     monit_tag_desync_cnt_rst |-> B("MONIT_TAG", "DESYNC_CNT_RST", Upto(1)),
     monit_tag_desync_cnt |-> M("MONIT_TAG", "DESYNC_CNT", Upto(14)), offset_x |-> Quiet("OFFSET_X"),
     offset_y |-> Quiet("OFFSET_Y")]

Fmc100mFuncs ==
    <<"si571_oe", "acq_led", "status", "adc_status", "adc_calib_gain", "adc_calib_offset", "adc_sat",
      "adc_ssr", "fs_freq", "si571_freq", "si571_get_defaults", "si571_fstartup", "ltc2174_test_patt",
      "ltc2174_test_patt_data", "ltc2174_reset", "ltc2174_twos_compl">>

Fmc100mParams ==
    [si571_oe |-> B("CTL", "FMC_CLK_OE", Upto(1)), acq_led |-> B("CTL", "ACQ_LED", Upto(1)),
     status |-> W("STA", NoLim), fs_freq |-> W("FS_FREQ", NoLim)]
 @@ OnChans(1, 64, 4,
       [adc_status |-> W("CH_STA", NoLim), adc_calib_gain |-> M("CH_CALIB", "GAIN", NoLim),
        adc_calib_offset |-> M("CH_CALIB", "OFFSET", NoLim), adc_sat |-> Wide("CH_SAT", "VAL", NoLim),
        adc_ssr |-> M("CH_CTL", "SSR", NoLim)])

Fmc130mFuncs ==
    <<"adc_rand", "adc_dith", "adc_shdn", "adc_pga", "adc_data0", "adc_data1", "adc_data2",
      "adc_data3", "adc_dly_val0", "adc_dly_val1", "adc_dly_val2", "adc_dly_val3", "adc_dly_line0",
      "adc_dly_line1", "adc_dly_line2", "adc_dly_line3", "adc_dly_updt0", "adc_dly_updt1",
      "adc_dly_updt2", "adc_dly_updt3", "adc_dly0", "adc_dly1", "adc_dly2", "adc_dly3", "24aa64_data">>

Fmc130mParams1 ==
    [adc_rand |-> B("ADC", "RAND", Upto(1)), adc_dith |-> B("ADC", "DITH", Upto(1)),
     adc_shdn |-> B("ADC", "SHDN", Upto(1)), adc_pga |-> B("ADC", "PGA", Upto(1)),
     adc_data0 |-> W("DATA0", NoLim), adc_data1 |-> W("DATA1", NoLim),
     adc_data2 |-> W("DATA2", NoLim), adc_data3 |-> W("DATA3", NoLim),
     adc_dly_val0 |-> M("IDELAY0_CAL", "VAL", NoLim), adc_dly_val1 |-> M("IDELAY1_CAL", "VAL", NoLim),
     adc_dly_val2 |-> M("IDELAY2_CAL", "VAL", NoLim), adc_dly_val3 |-> M("IDELAY3_CAL", "VAL", NoLim),
     adc_dly_line0 |-> M("IDELAY0_CAL", "LINE", NoLim),
     adc_dly_line1 |-> M("IDELAY1_CAL", "LINE", NoLim)]

Fmc130mParams2 ==
    [adc_dly_line2 |-> M("IDELAY2_CAL", "LINE", NoLim),
     adc_dly_line3 |-> M("IDELAY3_CAL", "LINE", NoLim),
     adc_dly_updt0 |-> B("IDELAY0_CAL", "UPDATE", NoLim),
     adc_dly_updt1 |-> B("IDELAY1_CAL", "UPDATE", NoLim),
     adc_dly_updt2 |-> B("IDELAY2_CAL", "UPDATE", NoLim),
     adc_dly_updt3 |-> B("IDELAY3_CAL", "UPDATE", NoLim)]

Fmc250mFuncs ==
    <<"adc_data0", "adc_data1", "adc_data2", "adc_data3", "adc_data_dly0", "adc_data_dly1",
      "adc_data_dly2", "adc_data_dly3", "adc_clk_dly0", "adc_clk_dly1", "adc_clk_dly2",
      "adc_clk_dly3", "adc_dly_line0", "adc_dly_line1", "adc_dly_line2", "adc_dly_line3",
      "adc_dly_updt0", "adc_dly_updt1", "adc_dly_updt2", "adc_dly_updt3", "adc_dly0", "adc_dly1",
      "adc_dly2", "adc_dly3", "rst_adcs", "rst_div_adcs", "sleep_adcs", "isla216p_test_mode",
      "isla216p_rst", "isla216p_portconfig", "isla216p_reg", "isla216p_temp", "isla216p_cal_status">>

Fmc250mParams1 ==
    [adc_data0 |-> M("CH0_STA", "VAL", NoLim), adc_data1 |-> M("CH1_STA", "VAL", NoLim),
     adc_data2 |-> M("CH2_STA", "VAL", NoLim), adc_data3 |-> M("CH3_STA", "VAL", NoLim),
     adc_data_dly0 |-> M("CH0_FN_DLY", "DATA_CHAIN_DLY", NoLim),
     adc_data_dly1 |-> M("CH1_FN_DLY", "DATA_CHAIN_DLY", NoLim),
     adc_data_dly2 |-> M("CH2_FN_DLY", "DATA_CHAIN_DLY", NoLim),
     adc_data_dly3 |-> M("CH3_FN_DLY", "DATA_CHAIN_DLY", NoLim),
     adc_clk_dly0 |-> M("CH0_FN_DLY", "CLK_CHAIN_DLY", NoLim),
     adc_clk_dly1 |-> M("CH1_FN_DLY", "CLK_CHAIN_DLY", NoLim),
     adc_clk_dly2 |-> M("CH2_FN_DLY", "CLK_CHAIN_DLY", NoLim),
     adc_clk_dly3 |-> M("CH3_FN_DLY", "CLK_CHAIN_DLY", NoLim),
     adc_dly_line0 |-> M("CH0_FN_SEL", "LINE", NoLim),
     adc_dly_line1 |-> M("CH1_FN_SEL", "LINE", NoLim),
     adc_dly_line2 |-> M("CH2_FN_SEL", "LINE", NoLim),
     adc_dly_line3 |-> M("CH3_FN_SEL", "LINE", NoLim),
     adc_dly_updt0 |-> B("ADC_CTL", "UPDATE_CLK_DLY", NoLim),
     adc_dly_updt1 |-> B("ADC_CTL", "UPDATE_CLK_DLY", NoLim),
     adc_dly_updt2 |-> B("ADC_CTL", "UPDATE_CLK_DLY", NoLim),
     adc_dly_updt3 |-> B("ADC_CTL", "UPDATE_CLK_DLY", NoLim)]

Fmc250mParams2 ==
    [rst_adcs |-> B("ADC_CTL", "RST_ADCS", Upto(1)),
     rst_div_adcs |-> B("ADC_CTL", "RST_DIV_ADCS", Upto(1)),
     sleep_adcs |-> B("ADC_CTL", "SLEEP_ADCS", Upto(1))]

FmcActiveClkFuncs ==
    <<"si571_oe", "pll_func", "pll_status", "clk_sel", "ad9510_cfg_defaults", "ad9510_pll_a_div",
      "ad9510_pll_b_div", "ad9510_pll_prescaler", "ad9510_r_div", "ad9510_pll_pdown",
      "ad9510_mux_status", "ad9510_cp_current", "ad9510_outputs", "ad9510_pll_clk_sel", "si571_freq",
      "si571_get_defaults", "rst_isla216p", "rst_swap", "ad9510_data", "si571_fstartup">>

FmcActiveClkParams ==
    [si571_oe |-> B("CLK_DISTRIB", "SI571_OE", Upto(1)),
     pll_func |-> B("CLK_DISTRIB", "PLL_FUNCTION", Upto(1)),
     pll_status |-> B("CLK_DISTRIB", "PLL_STATUS", Upto(1)),
     clk_sel |-> B("CLK_DISTRIB", "CLK_SEL", Upto(1))]

FmcAdcCommonFuncs ==
    <<"leds", "mmcm_rst", "test_data_en", "trig_dir", "trig_term", "trig_val">>

FmcAdcCommonParams ==
    [leds |-> Own("MONITOR", 1..3, Upto(3)), mmcm_rst |-> B("MONITOR", "MMCM_RST", Upto(1)),
     test_data_en |-> B("MONITOR", "TEST_DATA_EN", Upto(1)),
     trig_dir |-> B("TRIGGER", "DIR", Upto(1)), trig_term |-> B("TRIGGER", "TERM", Upto(1)),
     trig_val |-> B("TRIGGER", "TRIG_VAL", Upto(1))]

FmcPicoFuncs ==
    <<"ctl_led1", "ctl_led2", "rng_r0", "rng_r1", "rng_r2", "rng_r3", "adc_data0", "adc_data1",
      "adc_data2", "adc_data3">>

FmcPicoParams ==
    [ctl_led1 |-> B("FMC_CTL", "LED1", Upto(1)), ctl_led2 |-> B("FMC_CTL", "LED2", Upto(1)),
     rng_r0 |-> B("RNG_CTL", "R0", Upto(1)), rng_r1 |-> B("RNG_CTL", "R1", Upto(1)),
     rng_r2 |-> B("RNG_CTL", "R2", Upto(1)), rng_r3 |-> B("RNG_CTL", "R3", Upto(1)),
     adc_data0 |-> W("DATA0", NoLim), adc_data1 |-> W("DATA1", NoLim),
     adc_data2 |-> W("DATA2", NoLim), adc_data3 |-> W("DATA3", NoLim)]

FofbCtrlFuncs ==
    <<"act_part", "err_clr", "cc_enable", "tfs_override", "bpm_id", "time_frame_len", "mgt_powerdown",
      "mgt_loopback", "time_frame_dly", "golden_orb_x", "golden_orb_y", "cust_feature", "rx_polarity",
      "payloadsel", "fofbdatasel", "firmware_ver", "sys_status", "link_partner_1", "link_partner_2",
      "link_partner_3", "link_partner_4", "link_up", "time_frame_count", "hard_err_cnt_1",
      "hard_err_cnt_2", "hard_err_cnt_3", "hard_err_cnt_4", "soft_err_cnt_1", "soft_err_cnt_2",
      "soft_err_cnt_3", "soft_err_cnt_4", "frame_err_cnt_1", "frame_err_cnt_2", "frame_err_cnt_3",
      "frame_err_cnt_4", "rx_pck_cnt_1", "rx_pck_cnt_2", "rx_pck_cnt_3", "rx_pck_cnt_4",
      "tx_pck_cnt_1", "tx_pck_cnt_2", "tx_pck_cnt_3", "tx_pck_cnt_4", "fod_process_time", "bpm_count",
      "bpm_id_rdback", "tf_length_rdback", "powerdown_rdback", "loopback_rdback", "faival_rdback">>

FofbCtrlParams1 ==
    [act_part |-> B("CFG_VAL", "ACT_PART", Upto(1)), err_clr |-> B("CFG_VAL", "ERR_CLR", Upto(1)),
     cc_enable |-> B("CFG_VAL", "CC_ENABLE", Upto(1)),
     tfs_override |-> B("CFG_VAL", "TFS_OVERRIDE", Upto(1)), bpm_id |-> W("BPM_ID", NoLim),
     time_frame_len |-> W("TIME_FRAME_LEN", NoLim), mgt_powerdown |-> W("MGT_POWERDOWN", NoLim),
     mgt_loopback |-> W("MGT_LOOPBACK", NoLim), time_frame_dly |-> W("TIME_FRAME_DLY", NoLim),
     golden_orb_x |-> W("GOLDEN_ORB_X", NoLim), golden_orb_y |-> W("GOLDEN_ORB_Y", NoLim),
     cust_feature |-> W("CUST_FEATURE", NoLim), rx_polarity |-> W("RXPOLARITY", NoLim),
     payloadsel |-> W("PAYLOADSEL", NoLim), fofbdatasel |-> W("FOFBDATASEL", NoLim),
     firmware_ver |-> W("FIRMWARE_VER", NoLim), sys_status |-> W("SYS_STATUS", NoLim)]

FofbCtrlParams2 ==
    [link_partner_1 |-> W("LINK_PARTNER_1", NoLim), link_partner_2 |-> W("LINK_PARTNER_2", NoLim),
     link_partner_3 |-> W("LINK_PARTNER_3", NoLim), link_partner_4 |-> W("LINK_PARTNER_4", NoLim),
     link_up |-> W("LINK_UP", NoLim), time_frame_count |-> W("TIME_FRAME_COUNT", NoLim),
     hard_err_cnt_1 |-> W("HARD_ERR_CNT_1", NoLim), hard_err_cnt_2 |-> W("HARD_ERR_CNT_2", NoLim),
     hard_err_cnt_3 |-> W("HARD_ERR_CNT_3", NoLim), hard_err_cnt_4 |-> W("HARD_ERR_CNT_4", NoLim),
     soft_err_cnt_1 |-> W("SOFT_ERR_CNT_1", NoLim), soft_err_cnt_2 |-> W("SOFT_ERR_CNT_2", NoLim),
     soft_err_cnt_3 |-> W("SOFT_ERR_CNT_3", NoLim), soft_err_cnt_4 |-> W("SOFT_ERR_CNT_4", NoLim),
     frame_err_cnt_1 |-> W("FRAME_ERR_CNT_1", NoLim), frame_err_cnt_2 |-> W("FRAME_ERR_CNT_2", NoLim)]

FofbCtrlParams3 ==
    [frame_err_cnt_3 |-> W("FRAME_ERR_CNT_3", NoLim), frame_err_cnt_4 |-> W("FRAME_ERR_CNT_4", NoLim),
     rx_pck_cnt_1 |-> W("RX_PCK_CNT_1", NoLim), rx_pck_cnt_2 |-> W("RX_PCK_CNT_2", NoLim),
     rx_pck_cnt_3 |-> W("RX_PCK_CNT_3", NoLim), rx_pck_cnt_4 |-> W("RX_PCK_CNT_4", NoLim),
     tx_pck_cnt_1 |-> W("TX_PCK_CNT_1", NoLim), tx_pck_cnt_2 |-> W("TX_PCK_CNT_2", NoLim),
     tx_pck_cnt_3 |-> W("TX_PCK_CNT_3", NoLim), tx_pck_cnt_4 |-> W("TX_PCK_CNT_4", NoLim),
     fod_process_time |-> W("FOD_PROCESS_TIME", NoLim), bpm_count |-> W("BPM_COUNT", NoLim),
     bpm_id_rdback |-> W("BPM_ID_RDBACK", NoLim), tf_length_rdback |-> W("TF_LENGTH_RDBACK", NoLim),
     powerdown_rdback |-> W("POWERDOWN_RDBACK", NoLim),
     loopback_rdback |-> W("LOOPBACK_RDBACK", NoLim)]

FofbCtrlParams4 ==
    [faival_rdback |-> W("FAIVAL_RDBACK", NoLim)]

InitSmioFuncs ==
    <<"check">>

OrbitIntlkFuncs ==
    <<"en", "clr", "min_sum_en", "trans_en", "trans_clr", "ang_en", "ang_clr", "trans_bigger_x",
      "trans_bigger_y", "trans_bigger_ltc_x", "trans_bigger_ltc_y", "trans_bigger_any",
      "trans_bigger", "trans_bigger_ltc", "ang_bigger_x", "ang_bigger_y", "ang_bigger_ltc_x",
      "ang_bigger_ltc_y", "ang_bigger_any", "ang_bigger", "ang_bigger_ltc", "intlk", "intlk_ltc",
      "intlk_min_sum", "trans_max_x", "trans_max_y", "ang_max_x", "ang_max_y", "trans_smaller_x",
      "trans_smaller_y", "trans_smaller_ltc_x", "trans_smaller_ltc_y", "trans_smaller_any",
      "trans_smaller", "trans_smaller_ltc", "ang_smaller_x", "ang_smaller_y", "ang_smaller_ltc_x",
      "ang_smaller_ltc_y", "ang_smaller_any", "ang_smaller", "ang_smaller_ltc", "trans_min_x",
      "trans_min_y", "ang_min_x", "ang_min_y">>

OrbitIntlkParams1 ==
    [en |-> B("CTRL", "EN", Upto(1)), clr |-> B("CTRL", "CLR", Upto(1)),
     min_sum_en |-> B("CTRL", "MIN_SUM_EN", Upto(1)), trans_en |-> B("CTRL", "TRANS_EN", Upto(1)),
     trans_clr |-> B("CTRL", "TRANS_CLR", Upto(1)), ang_en |-> B("CTRL", "ANG_EN", Upto(1)),
     ang_clr |-> B("CTRL", "ANG_CLR", Upto(1)), trans_bigger_x |-> B("STS", "TRANS_BIGGER_X", NoLim),
     trans_bigger_y |-> B("STS", "TRANS_BIGGER_Y", NoLim),
     trans_bigger_ltc_x |-> B("STS", "TRANS_BIGGER_LTC_X", NoLim),
     trans_bigger_ltc_y |-> B("STS", "TRANS_BIGGER_LTC_Y", NoLim),
     trans_bigger_any |-> B("STS", "TRANS_BIGGER_ANY", NoLim),
     trans_bigger |-> B("STS", "TRANS_BIGGER", NoLim),
     trans_bigger_ltc |-> B("STS", "TRANS_BIGGER_LTC", NoLim),
     ang_bigger_x |-> B("STS", "ANG_BIGGER_X", NoLim),
     ang_bigger_y |-> B("STS", "ANG_BIGGER_Y", NoLim),
     ang_bigger_ltc_x |-> B("STS", "ANG_BIGGER_LTC_X", NoLim),
     ang_bigger_ltc_y |-> B("STS", "ANG_BIGGER_LTC_Y", NoLim),
     ang_bigger_any |-> B("STS", "ANG_BIGGER_ANY", NoLim),
     ang_bigger |-> B("STS", "ANG_BIGGER", NoLim),
     ang_bigger_ltc |-> B("STS", "ANG_BIGGER_LTC", NoLim), intlk |-> B("STS", "INTLK", NoLim)]

OrbitIntlkParams2 ==
    [intlk_ltc |-> B("STS", "INTLK_LTC", NoLim), intlk_min_sum |-> W("MIN_SUM", NoLim),
     trans_max_x |-> Quiet("TRANS_MAX_X"), trans_max_y |-> Quiet("TRANS_MAX_Y"),
     ang_max_x |-> Quiet("ANG_MAX_X")]

OrbitIntlkParams3 ==
    [ang_max_y |-> Quiet("ANG_MAX_Y"), trans_smaller_x |-> B("STS", "TRANS_SMALLER_X", NoLim),
     trans_smaller_y |-> B("STS", "TRANS_SMALLER_Y", NoLim),
     trans_smaller_ltc_x |-> B("STS", "TRANS_SMALLER_LTC_X", NoLim),
     trans_smaller_ltc_y |-> B("STS", "TRANS_SMALLER_LTC_Y", NoLim),
     trans_smaller_any |-> B("STS", "TRANS_SMALLER_ANY", NoLim),
     trans_smaller |-> B("STS", "TRANS_SMALLER", NoLim),
     trans_smaller_ltc |-> B("STS", "TRANS_SMALLER_LTC", NoLim),
     ang_smaller_x |-> B("STS", "ANG_SMALLER_X", NoLim),
     ang_smaller_y |-> B("STS", "ANG_SMALLER_Y", NoLim),
     ang_smaller_ltc_x |-> B("STS", "ANG_SMALLER_LTC_X", NoLim),
     ang_smaller_ltc_y |-> B("STS", "ANG_SMALLER_LTC_Y", NoLim),
     ang_smaller_any |-> B("STS", "ANG_SMALLER_ANY", NoLim),
     ang_smaller |-> B("STS", "ANG_SMALLER", NoLim),
     ang_smaller_ltc |-> B("STS", "ANG_SMALLER_LTC", NoLim)]

OrbitIntlkParams4 ==
    [trans_min_x |-> Quiet("TRANS_MIN_X"), trans_min_y |-> Quiet("TRANS_MIN_Y"),
     ang_min_x |-> Quiet("ANG_MIN_X")]

OrbitIntlkParams5 ==
    [ang_min_y |-> Quiet("ANG_MIN_Y")]

RffeFuncs ==
    <<"att", "temp_ac", "temp_bd", "set_point_ac", "set_point_bd", "temp_control", "heater_ac",
      "heater_bd", "reset", "reprog", "data", "version", "pid_ac_kp", "pid_ac_ti", "pid_ac_td",
      "pid_bd_kp", "pid_bd_ti", "pid_bd_td">>

RffeScpiFuncs ==
    <<"att", "temp_ac", "temp_bd", "set_point_ac", "set_point_bd", "temp_control", "heater_ac",
      "heater_bd", "reset", "reprog", "data", "version", "pid_ac_kp", "pid_ac_ti", "pid_ac_td",
      "pid_bd_kp", "pid_bd_ti", "pid_bd_td">>

RtmlampFuncs ==
    <<"sta", "dac_data_from_wb", "amp_iflag_l", "amp_tflag_l", "amp_iflag_r", "amp_tflag_r", "amp_en",
      "dac_data", "dac_wr">>

RtmlampParams ==
    [sta |-> W("STA", NoLim), dac_data_from_wb |-> B("CTL", "DAC_DATA_FROM_WB", Upto(1))]
 @@ OnChans(0, 12, 12,
       [amp_iflag_l |-> B("CH_STA", "AMP_IFLAG_L", Upto(1)),
        amp_tflag_l |-> B("CH_STA", "AMP_TFLAG_L", Upto(1)),
        amp_iflag_r |-> B("CH_STA", "AMP_IFLAG_R", Upto(1)),
        amp_tflag_r |-> B("CH_STA", "AMP_TFLAG_R", Upto(1)), amp_en |-> B("CH_CTL", "AMP_EN", Upto(1)),
        dac_data |-> M("CH_DAC", "DATA", Upto(16)), dac_wr |-> B("CH_DAC", "WR", Upto(1))])

SwapFuncs ==
    <<"sw", "div_clk", "sw_dly">>

SwapParams ==
    [sw |-> M("CTRL", "MODE", Upto(2)), div_clk |-> M("CTRL", "SWAP_DIV_F", From1(16)),
     sw_dly |-> M("DLY", "DESWAP", Upto(16))]

TimRcvFuncs ==
    <<"phase_meas_navg", "dmtd_a_deglitcher_thres", "dmtd_b_deglitcher_thres", "phase_meas",
      "dmtd_a_freq", "dmtd_a_valid", "dmtd_b_freq", "dmtd_b_valid">>

TimRcvParams ==
    [phase_meas_navg |-> W("PHASE_MEAS_NAVG", Upto(32)),
     dmtd_a_deglitcher_thres |-> M("DMTD_A_CTL", "DEGLITCHER_THRES", Upto(16)),
     dmtd_b_deglitcher_thres |-> M("DMTD_B_CTL", "DEGLITCHER_THRES", Upto(16)),
     phase_meas |-> W("PHASE_MEAS", Upto(32)), dmtd_a_freq |-> M("F_DMTD_A", "FREQ", Upto(28)),
     dmtd_a_valid |-> B("F_DMTD_A", "VALID", Upto(1)),
     dmtd_b_freq |-> M("F_DMTD_B", "FREQ", Upto(28)), dmtd_b_valid |-> B("F_DMTD_B", "VALID", Upto(1))]

TriggerIfaceFuncs ==
    <<"dir", "dir_pol", "rcv_count_rst", "transm_count_rst", "rcv_len", "transm_len", "count_rcv",
      "count_transm">>

TriggerIfaceParams ==
    OnChans(0, 12, 24,
       [dir |-> B("CH_CTL", "DIR", Upto(1)), dir_pol |-> B("CH_CTL", "DIR_POL", Upto(1)),
        rcv_count_rst |-> B("CH_CTL", "RCV_COUNT_RST", Upto(1)),
        transm_count_rst |-> B("CH_CTL", "TRANSM_COUNT_RST", Upto(1)),
        rcv_len |-> M("CH_CFG", "RCV_LEN", Upto(8)), transm_len |-> M("CH_CFG", "TRANSM_LEN", NoLim),
        count_rcv |-> M("CH_COUNT", "RCV", NoLim), count_transm |-> M("CH_COUNT", "TRANSM", NoLim)])

TriggerMuxFuncs ==
    <<"rcv_src", "rcv_in_sel", "transm_src", "transm_out_sel">>

TriggerMuxParams ==
    OnChans(0, 8, 24,
       [rcv_src |-> B("CH_CTL", "RCV_SRC", Upto(1)), rcv_in_sel |-> M("CH_CTL", "RCV_IN_SEL", Upto(8)),
        transm_src |-> B("CH_CTL", "TRANSM_SRC", Upto(1)),
        transm_out_sel |-> M("CH_CTL", "TRANSM_OUT_SEL", Upto(8))])

Funcs ==
    [acq |-> AcqFuncs,
     afc_diag |-> AfcDiagFuncs,
     afc_mgmt |-> AfcMgmtFuncs,
     afc_timing |-> AfcTimingFuncs,
     dsp |-> DspFuncs,
     fmc100m_4ch |-> Fmc100mFuncs,
     fmc130m_4ch |-> Fmc130mFuncs,
     fmc250m_4ch |-> Fmc250mFuncs,
     fmc_active_clk |-> FmcActiveClkFuncs,
     fmc_adc_common |-> FmcAdcCommonFuncs,
     fmcpico1m_4ch |-> FmcPicoFuncs,
     fofb_ctrl |-> FofbCtrlFuncs,
     init |-> InitSmioFuncs,
     orbit_intlk |-> OrbitIntlkFuncs,
     rffe |-> RffeFuncs,
     rffe_scpi |-> RffeScpiFuncs,
     rtmlamp_ohwr |-> RtmlampFuncs,
     swap |-> SwapFuncs,
     tim_rcv |-> TimRcvFuncs,
     trigger_iface |-> TriggerIfaceFuncs,
     trigger_mux |-> TriggerMuxFuncs]

Params ==
    [acq |-> AcqParams,
     afc_diag |-> AfcDiagParams,
     afc_mgmt |-> AfcMgmtParams,
     afc_timing |-> AfcTimingParams1 @@ AfcTimingParams2 @@ AfcTimingParams3 @@ AfcTimingParams4,
     dsp |-> DspParams1 @@ DspParams2 @@ DspParams3 @@ DspParams4,
     fmc100m_4ch |-> Fmc100mParams,
     fmc130m_4ch |-> Fmc130mParams1 @@ Fmc130mParams2,
     fmc250m_4ch |-> Fmc250mParams1 @@ Fmc250mParams2,
     fmc_active_clk |-> FmcActiveClkParams,
     fmc_adc_common |-> FmcAdcCommonParams,
     fmcpico1m_4ch |-> FmcPicoParams,
     fofb_ctrl |-> FofbCtrlParams1 @@ FofbCtrlParams2 @@ FofbCtrlParams3 @@ FofbCtrlParams4,
     init |-> <<>>,
     orbit_intlk |-> OrbitIntlkParams1 @@ OrbitIntlkParams2 @@ OrbitIntlkParams3 @@ OrbitIntlkParams4 @@ OrbitIntlkParams5,
     rffe |-> <<>>,
     rffe_scpi |-> <<>>,
     rtmlamp_ohwr |-> RtmlampParams,
     swap |-> SwapParams,
     tim_rcv |-> TimRcvParams,
     trigger_iface |-> TriggerIfaceParams,
     trigger_mux |-> TriggerMuxParams]

==============================================================================
