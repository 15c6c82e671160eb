----------------------------- MODULE SmioCodes -----------------------------
(****************************************************************************)
(* The operation codes of every SMIO (sm_io_<smio>_codes.h): the number a   *)
(* client puts in front of a request.  The macros are written as in the     *)
(* code, in lower case and without the prefix <SMIO>_OPCODE_[SET_GET_].     *)
(****************************************************************************)
EXTENDS TLC


AcqCodes ==
    [data_acquire |-> 0, get_data_block |-> 1, check_data_acquire |-> 2, cfg_trig |-> 3,
     hw_data_trig_pol |-> 4, hw_data_trig_sel |-> 5, hw_data_trig_filt |-> 6,
     hw_data_trig_thres |-> 7, hw_trig_dly |-> 8, sw_trig |-> 9, fsm_stop |-> 10,
     hw_data_trig_chan |-> 11, ch_int_width |-> 12, ch_num_coalesce |-> 13, ch_num_atoms |-> 14,
     ch_atom_width |-> 15, ch_sample_size |-> 16]

AfcDiagCodes ==
    [card_slot |-> 0, ipmi_addr |-> 1, get_build_revision |-> 2, get_build_date |-> 3,
     get_build_user_name |-> 4, get_build_user_email |-> 5]

AfcMgmtCodes ==
    [si57x_oe |-> 0, si57x_freq |-> 14, si57x_get_defaults |-> 15, si57x_fstartup |-> 19]

AfcTimingCodes ==
    [link_status |-> 0, rxen_status |-> 1, ref_clk_locked |-> 2, evren |-> 3, alive |-> 4,
     amc_en |-> 5, amc_pol |-> 6, amc_log |-> 7, amc_itl |-> 8, amc_src |-> 9, amc_dir |-> 10,
     amc_pulses |-> 11, amc_evt |-> 12, amc_dly |-> 13, amc_wdt |-> 14, fmc1_en |-> 15,
     fmc1_pol |-> 16, fmc1_log |-> 17, fmc1_itl |-> 18, fmc1_src |-> 19, fmc1_dir |-> 20,
     fmc1_pulses |-> 21, fmc1_evt |-> 22, fmc1_dly |-> 23, fmc1_wdt |-> 24, fmc2_en |-> 25,
     fmc2_pol |-> 26, fmc2_log |-> 27, fmc2_itl |-> 28, fmc2_src |-> 29, fmc2_dir |-> 30,
     fmc2_pulses |-> 31, fmc2_evt |-> 32, fmc2_dly |-> 33, fmc2_wdt |-> 34, rtm_freq_kp |-> 35,
     rtm_freq_ki |-> 36, rtm_phase_kp |-> 37, rtm_phase_ki |-> 38, rtm_phase_navg |-> 40,
     rtm_phase_div_exp |-> 41, rtm_rfreq_hi |-> 42, rtm_rfreq_lo |-> 43, rtm_n1 |-> 44,
     rtm_hs_div |-> 45, afc_freq_kp |-> 46, afc_freq_ki |-> 47, afc_phase_kp |-> 48,
     afc_phase_ki |-> 49, afc_phase_navg |-> 51, afc_phase_div_exp |-> 52, afc_rfreq_hi |-> 53,
     afc_rfreq_lo |-> 54, afc_n1 |-> 55, afc_hs_div |-> 56, amc_count_rst |-> 58, amc_count |-> 59,
     fmc1_count_rst |-> 60, fmc1_count |-> 61, fmc2_count_rst |-> 62, fmc2_count |-> 63]

DspCodes ==
    [kx |-> 0, ky |-> 1, ksum |-> 2, ds_tbt_thres |-> 3, ds_fofb_thres |-> 4, ds_monit_thres |-> 5,
     cfg_test_data |-> 6, monit_amp_ch0 |-> 7, monit_amp_ch1 |-> 8, monit_amp_ch2 |-> 9,
     monit_amp_ch3 |-> 10, monit_pos_x |-> 11, monit_pos_y |-> 12, monit_pos_q |-> 13,
     monit_pos_sum |-> 14, monit_updt |-> 15, monit_amp_pos |-> 16, monit1_amp_ch0 |-> 17,
     monit1_amp_ch1 |-> 18, monit1_amp_ch2 |-> 19, monit1_amp_ch3 |-> 20, monit1_pos_x |-> 21,
     monit1_pos_y |-> 22, monit1_pos_q |-> 23, monit1_pos_sum |-> 24, monit1_updt |-> 25,
     monit1_amp_pos |-> 26, sw_tag_en |-> 27, sw_data_mask_en |-> 28, sw_data_mask_samples |-> 29,
     tbt_tag_en |-> 30, tbt_tag_dly |-> 31, tbt_data_mask_en |-> 32, tbt_data_mask_samples_beg |-> 33,
     tbt_data_mask_samples_end |-> 34, sw_tag_desync_cnt_rst |-> 35, sw_tag_desync_cnt |-> 36,
     tbt_tag_desync_cnt_rst |-> 37, tbt_tag_desync_cnt |-> 38, monit_poll_time |-> 39,
     monit1_tag_en |-> 40, monit1_tag_dly |-> 41, monit1_data_mask_en |-> 42,
     monit1_data_mask_samples_beg |-> 43, monit1_data_mask_samples_end |-> 44,
     monit1_tag_desync_cnt_rst |-> 45, monit1_tag_desync_cnt |-> 46, monit_tag_en |-> 47,
     monit_tag_dly |-> 48, monit_data_mask_en |-> 49, monit_data_mask_samples_beg |-> 50,
     monit_data_mask_samples_end |-> 51, monit_tag_desync_cnt_rst |-> 52, monit_tag_desync_cnt |-> 53,
     offset_x |-> 54, offset_y |-> 55]

Fmc100mCodes ==
    [si571_oe |-> 0, acq_led |-> 1, si571_freq |-> 14, si571_get_defaults |-> 15,
     si571_fstartup |-> 19, status |-> 20, adc_status |-> 21, adc_calib_gain |-> 22,
     adc_calib_offset |-> 23, adc_sat |-> 24, adc_ssr |-> 25, fs_freq |-> 26,
     ltc2174_test_patt |-> 27, ltc2174_test_patt_data |-> 28, ltc2174_reset |-> 29,
     ltc2174_twos_compl |-> 30]

Fmc130mCodes ==
    [adc_rand |-> 5, adc_dith |-> 6, adc_shdn |-> 7, adc_pga |-> 8, adc_data0 |-> 9, adc_data1 |-> 10,
     adc_data2 |-> 11, adc_data3 |-> 12, adc_dly_val0 |-> 13, adc_dly_val1 |-> 14,
     adc_dly_val2 |-> 15, adc_dly_val3 |-> 16, adc_dly_line0 |-> 17, adc_dly_line1 |-> 18,
     adc_dly_line2 |-> 19, adc_dly_line3 |-> 20, adc_dly_updt0 |-> 21, adc_dly_updt1 |-> 22,
     adc_dly_updt2 |-> 23, adc_dly_updt3 |-> 24, adc_dly0 |-> 25, adc_dly1 |-> 26, adc_dly2 |-> 27,
     adc_dly3 |-> 28]
 @@ ("24aa64_data" :> 29)

Fmc250mCodes ==
    [adc_data0 |-> 9, adc_data1 |-> 10, adc_data2 |-> 11, adc_data3 |-> 12, adc_data_dly0 |-> 13,
     adc_data_dly1 |-> 14, adc_data_dly2 |-> 15, adc_data_dly3 |-> 16, adc_clk_dly0 |-> 17,
     adc_clk_dly1 |-> 18, adc_clk_dly2 |-> 19, adc_clk_dly3 |-> 20, adc_dly_line0 |-> 21,
     adc_dly_line1 |-> 22, adc_dly_line2 |-> 23, adc_dly_line3 |-> 24, adc_dly_updt0 |-> 25,
     adc_dly_updt1 |-> 26, adc_dly_updt2 |-> 27, adc_dly_updt3 |-> 28, adc_dly0 |-> 29,
     adc_dly1 |-> 30, adc_dly2 |-> 31, adc_dly3 |-> 32, rst_adcs |-> 45, rst_div_adcs |-> 46,
     sleep_adcs |-> 47, testmode |-> 48, rst |-> 49, portconfig |-> 50, reg |-> 51, temp |-> 52,
     cal_status |-> 53]

FmcActiveClkCodes ==
    [si571_oe |-> 0, pll_function |-> 1, pll_status |-> 2, clk_sel |-> 3, ad9510_cfg_defaults |-> 4,
     ad9510_pll_a_div |-> 5, ad9510_pll_b_div |-> 6, ad9510_pll_prescaler |-> 7, ad9510_r_div |-> 8,
     ad9510_pll_pdown |-> 9, ad9510_mux_status |-> 10, ad9510_cp_current |-> 11,
     ad9510_outputs |-> 12, ad9510_pll_clk_sel |-> 13, si571_freq |-> 14, si571_get_defaults |-> 15,
     rst_isla216p |-> 16, rst_swap |-> 17, ad9510_data |-> 18, si571_fstartup |-> 19]

FmcAdcCommonCodes ==
    [leds |-> 0, mmcm_rst |-> 1, test_data_en |-> 2, trig_dir |-> 3, trig_term |-> 4, trig_val |-> 5]

FmcPicoCodes ==
    [led1 |-> 0, led2 |-> 1, rng_r0 |-> 2, rng_r1 |-> 3, rng_r2 |-> 4, rng_r3 |-> 5, adc_data0 |-> 6,
     adc_data1 |-> 7, adc_data2 |-> 8, adc_data3 |-> 9]

FofbCtrlCodes ==
    [act_part |-> 0, err_clr |-> 1, cc_enable |-> 2, tfs_override |-> 3, bpm_id |-> 200,
     time_frame_len |-> 201, mgt_powerdown |-> 202, mgt_loopback |-> 203, time_frame_dly |-> 204,
     golden_orb_x |-> 205, golden_orb_y |-> 206, cust_feature |-> 207, rx_polarity |-> 208,
     payloadsel |-> 209, fofbdatasel |-> 210, firmware_ver |-> 211, sys_status |-> 212,
     link_partner_1 |-> 213, link_partner_2 |-> 214, link_partner_3 |-> 215, link_partner_4 |-> 216,
     link_up |-> 217, time_frame_count |-> 218, hard_err_cnt_1 |-> 219, hard_err_cnt_2 |-> 220,
     hard_err_cnt_3 |-> 221, hard_err_cnt_4 |-> 222, soft_err_cnt_1 |-> 223, soft_err_cnt_2 |-> 224,
     soft_err_cnt_3 |-> 225, soft_err_cnt_4 |-> 226, frame_err_cnt_1 |-> 227, frame_err_cnt_2 |-> 228,
     frame_err_cnt_3 |-> 229, frame_err_cnt_4 |-> 230, rx_pck_cnt_1 |-> 235, rx_pck_cnt_2 |-> 236,
     rx_pck_cnt_3 |-> 237, rx_pck_cnt_4 |-> 238, tx_pck_cnt_1 |-> 239, tx_pck_cnt_2 |-> 240,
     tx_pck_cnt_3 |-> 241, tx_pck_cnt_4 |-> 242, fod_process_time |-> 243, bpm_count |-> 244,
     bpm_id_rdback |-> 245, tf_length_rdback |-> 246, powerdown_rdback |-> 247,
     loopback_rdback |-> 248, faival_rdback |-> 249]

InitSmioCodes ==
    [check |-> 0]

OrbitIntlkCodes ==
    [en |-> 0, clr |-> 1, min_sum_en |-> 2, trans_en |-> 3, trans_clr |-> 4, ang_en |-> 5,
     ang_clr |-> 6, trans_bigger_x |-> 7, trans_bigger_y |-> 8, trans_bigger_ltc_x |-> 9,
     trans_bigger_ltc_y |-> 10, trans_bigger_any |-> 11, trans_bigger |-> 12, trans_bigger_ltc |-> 13,
     ang_bigger_x |-> 14, ang_bigger_y |-> 15, ang_bigger_ltc_x |-> 16, ang_bigger_ltc_y |-> 17,
     ang_bigger_any |-> 18, ang_bigger |-> 19, ang_bigger_ltc |-> 20, intlk |-> 21, intlk_ltc |-> 22,
     min_sum |-> 23, trans_max_x |-> 24, trans_max_y |-> 25, ang_max_x |-> 26, ang_max_y |-> 27,
     trans_smaller_x |-> 28, trans_smaller_y |-> 29, trans_smaller_ltc_x |-> 30,
     trans_smaller_ltc_y |-> 31, trans_smaller_any |-> 32, trans_smaller |-> 33,
     trans_smaller_ltc |-> 34, ang_smaller_x |-> 35, ang_smaller_y |-> 36, ang_smaller_ltc_x |-> 37,
     ang_smaller_ltc_y |-> 38, ang_smaller_any |-> 39, ang_smaller |-> 40, ang_smaller_ltc |-> 41,
     trans_min_x |-> 42, trans_min_y |-> 43, ang_min_x |-> 44, ang_min_y |-> 45]

RffeCodes ==
    [att |-> 0, temp_ac |-> 1, temp_bd |-> 2, set_point_ac |-> 3, set_point_bd |-> 4,
     temp_control |-> 5, heater_ac |-> 6, heater_bd |-> 7, reset |-> 8, reprog |-> 9, data |-> 10,
     version |-> 11, pid_ac_kp |-> 12, pid_ac_ti |-> 13, pid_ac_td |-> 14, pid_bd_kp |-> 15,
     pid_bd_ti |-> 16, pid_bd_td |-> 17]

RtmlampCodes ==
    [sta |-> 0, dac_data_from_wb |-> 1, amp_iflag_l |-> 100, amp_tflag_l |-> 101, amp_iflag_r |-> 102,
     amp_tflag_r |-> 103, amp_en |-> 104, dac_data |-> 105, dac_wr |-> 106]

SwapCodes ==
    [sw |-> 0, div_clk |-> 1, sw_dly |-> 2]

TimRcvCodes ==
    [phase_meas_navg |-> 0, dmtd_a_deglitcher_thres |-> 1, dmtd_b_deglitcher_thres |-> 2,
     phase_meas |-> 3, dmtd_a_freq |-> 4, dmtd_a_valid |-> 5, dmtd_b_freq |-> 6, dmtd_b_valid |-> 7]

TriggerIfaceCodes ==
    [dir |-> 0, dir_pol |-> 1, rcv_count_rst |-> 2, transm_count_rst |-> 3, rcv_len |-> 4,
     transm_len |-> 5, count_rcv |-> 6, count_transm |-> 7]

TriggerMuxCodes ==
    [rcv_src |-> 0, rcv_in_sel |-> 1, transm_src |-> 2, transm_out_sel |-> 3]

\* The numbers each SMIO dispatches on; both RF front-end drivers share one header.
Codes ==
    [acq |-> AcqCodes,
     afc_diag |-> AfcDiagCodes,
     afc_mgmt |-> AfcMgmtCodes,
     afc_timing |-> AfcTimingCodes,
     dsp |-> DspCodes,
     fmc100m_4ch |-> Fmc100mCodes,
     fmc130m_4ch |-> Fmc130mCodes,
     fmc250m_4ch |-> Fmc250mCodes,
     fmc_active_clk |-> FmcActiveClkCodes,
     fmc_adc_common |-> FmcAdcCommonCodes,
     fmcpico1m_4ch |-> FmcPicoCodes,
     fofb_ctrl |-> FofbCtrlCodes,
     init |-> InitSmioCodes,
     orbit_intlk |-> OrbitIntlkCodes,
     rffe |-> RffeCodes,
     rffe_scpi |-> RffeCodes,
     rtmlamp_ohwr |-> RtmlampCodes,
     swap |-> SwapCodes,
     tim_rcv |-> TimRcvCodes,
     trigger_iface |-> TriggerIfaceCodes,
     trigger_mux |-> TriggerMuxCodes]

==============================================================================
