------------------------------ MODULE SmioRegs ------------------------------
(****************************************************************************)
(* The register maps (include/hw/wb_*_regs.h): the bits of every field and  *)
(* the address of every register, keyed by register name and channel.  A    *)
(* register CH<n>_X of a bank of channels is <<"CH_X", n>>.                 *)
(****************************************************************************)
EXTENDS TLC, Integers, Sequences

\* WBGEN2_GEN_MASK(offset, size).
Bits(offset, size) == offset..(offset + size - 1)
Bit(offset) == Bits(offset, 1)

Regs(r) == [k \in (DOMAIN r) \X {0} |-> r[k[1]]]
Channels(chans, r) == [k \in (DOMAIN r) \X chans |-> r[k[1]]]
Bank(reg, first, addrs) == [k \in {reg} \X (first..(first + Len(addrs) - 1)) |-> addrs[k[2] - first + 1]]

AcqBank ==
    [CH_DESC |-> [INT_WIDTH |-> Bits(0, 16), NUM_COALESCE |-> Bits(16, 16)],
     CH_ATOM_DESC |-> [NUM_ATOMS |-> Bits(0, 16), ATOM_WIDTH |-> Bits(16, 16)]]

AcqFields1 ==
    Regs([CTL |-> [FSM_START_ACQ |-> Bit(0), FSM_STOP_ACQ |-> Bit(1), FSM_ACQ_NOW |-> Bit(16)],
          STA |-> [FSM_STATE |-> Bits(0, 3), FSM_ACQ_DONE |-> Bit(3), FC_TRANS_DONE |-> Bit(8),
                   FC_FULL |-> Bit(9), DDR3_TRANS_DONE |-> Bit(16)],
          TRIG_CFG |-> [HW_TRIG_SEL |-> Bit(0), HW_TRIG_POL |-> Bit(1), HW_TRIG_EN |-> Bit(2),
                        SW_TRIG_EN |-> Bit(3), INT_TRIG_SEL |-> Bits(4, 5)],
          TRIG_DATA_CFG |-> [THRES_FILT |-> Bits(0, 8)],
          SHOTS |-> [NB |-> Bits(0, 16), MULTISHOT_RAM_SIZE_IMPL |-> Bit(16),
                     MULTISHOT_RAM_SIZE |-> Bits(17, 15)]])

AcqFields2 ==
    Regs([ACQ_CHAN_CTL |-> [WHICH |-> Bits(0, 5), DTRIG_WHICH |-> Bits(8, 5),
                            NUM_CHAN |-> Bits(16, 5)]])
 @@ Channels(0..3, AcqBank)

AcqFields3 ==
    Channels(4..8, AcqBank)

AcqFields4 ==
    Channels(9..13, AcqBank)

AcqFields5 ==
    Channels(14..18, AcqBank)

AcqFields6 ==
    Channels(19..23, AcqBank)

AcqAddrs ==
    Regs([CTL |-> 0, STA |-> 4, TRIG_CFG |-> 8, TRIG_DATA_CFG |-> 12, TRIG_DATA_THRES |-> 16,
          TRIG_DLY |-> 20, SW_TRIG |-> 24, SHOTS |-> 28, TRIG_POS |-> 32, PRE_SAMPLES |-> 36,
          POST_SAMPLES |-> 40, SAMPLES_CNT |-> 44, DDR3_START_ADDR |-> 48, DDR3_END_ADDR |-> 52,
          ACQ_CHAN_CTL |-> 56])
 @@ Bank("CH_DESC", 0, <<60, 68, 76, 84, 92, 100, 108, 116, 124, 132, 140, 148, 156, 164, 172, 180,
            188, 196, 204, 212, 220, 228, 236, 244>>)
 @@ Bank("CH_ATOM_DESC", 0, <<64, 72, 80, 88, 96, 104, 112, 120, 128, 136, 144, 152, 160, 168, 176,
            184, 192, 200, 208, 216, 224, 232, 240, 248>>)

AfcDiagFields ==
    Regs([GEO_ID |-> [CARD_SLOT |-> Bits(0, 16), IPMI_ADDR |-> Bits(16, 16)]])

AfcDiagAddrs ==
    Regs([ID_PART4 |-> 0, ID_PART3 |-> 4, ID_PART2 |-> 8, ID_PART1 |-> 12, GEO_ID |-> 16,
          DATA_VALID |-> 20, SENS_DATA_START |-> 24, SENS_DATA_END |-> 1016, FMC_SLOT_STATUS |-> 1020])

AfcMgmtFields ==
    Regs([CLK_DISTRIB |-> [SI57X_OE |-> Bit(0)]])

AfcMgmtAddrs ==
    Regs([CLK_DISTRIB |-> 0, DUMMY |-> 4])

AfcTimingBankAmc ==
    [AMC |-> [EN |-> Bit(0), POL |-> Bit(1), LOG |-> Bit(2), ITL |-> Bit(3),
              SRC |-> Bits(4, 4), DIR |-> Bit(8), COUNT_RST |-> Bit(9)]]

AfcTimingBankFmc1ch ==
    [FMC1CH |-> [EN |-> Bit(0), POL |-> Bit(1), LOG |-> Bit(2), ITL |-> Bit(3),
                 SRC |-> Bits(4, 4), DIR |-> Bit(8), COUNT_RST |-> Bit(9)]]

AfcTimingBankFmc2ch ==
    [FMC2CH |-> [EN |-> Bit(0), POL |-> Bit(1), LOG |-> Bit(2), ITL |-> Bit(3),
                 SRC |-> Bits(4, 4), DIR |-> Bit(8), COUNT_RST |-> Bit(9)]]

AfcTimingFields1 ==
    Regs([STAT |-> [LINK |-> Bit(0), RXEN |-> Bit(1), REFCLKLOCK |-> Bit(2), EVREN |-> Bit(3)],
          RTM |-> [N1 |-> Bits(0, 7), HS_DIV |-> Bits(7, 3)],
          RTM_FREQ |-> [KP |-> Bits(0, 16), KI |-> Bits(16, 16)],
          RTM_PHASE |-> [KP |-> Bits(0, 16), KI |-> Bits(16, 16)],
          RTM_MAF |-> [NAVG |-> Bits(0, 12), DIV_EXP |-> Bits(12, 5)],
          AFC |-> [N1 |-> Bits(0, 7), HS_DIV |-> Bits(7, 3)],
          AFC_FREQ |-> [KP |-> Bits(0, 16), KI |-> Bits(16, 16)],
          AFC_PHASE |-> [KP |-> Bits(0, 16), KI |-> Bits(16, 16)],
          AFC_MAF |-> [NAVG |-> Bits(0, 12), DIV_EXP |-> Bits(12, 5)]])

AfcTimingFields2 ==
    Channels(0..3, AfcTimingBankAmc)

AfcTimingFields3 ==
    Channels(4..7, AfcTimingBankAmc)

AfcTimingFields4 ==
    Channels(0..3, AfcTimingBankFmc1ch)

AfcTimingFields5 ==
    Channels(4..4, AfcTimingBankFmc1ch)
 @@ Channels(0..2, AfcTimingBankFmc2ch)

AfcTimingFields6 ==
    Channels(3..4, AfcTimingBankFmc2ch)

AfcTimingAddrs1 ==
    Regs([STAT |-> 0, ALIVE |-> 4, RTM_RFREQ_HI |-> 8, RTM_RFREQ_LO |-> 12, RTM |-> 16, RTM_FREQ |-> 20,
          RTM_PHASE |-> 24, RTM_MAF |-> 28, AFC_RFREQ_HI |-> 32, AFC_RFREQ_LO |-> 36, AFC |-> 40,
          AFC_FREQ |-> 44, AFC_PHASE |-> 48, AFC_MAF |-> 52])
 @@ Bank("AMC", 0, <<56, 80, 104, 128, 152, 176, 200, 224>>)
 @@ Bank("AMC_PULSES", 0, <<60, 84, 108, 132, 156, 180, 204, 228>>)
 @@ Bank("AMC_COUNT", 0, <<64, 88, 112, 136, 160, 184, 208, 232>>)
 @@ Bank("AMC_EVT", 0, <<68, 92, 116, 140, 164, 188, 212, 236>>)
 @@ Bank("AMC_DLY", 0, <<72, 96, 120, 144, 168, 192, 216, 240>>)
 @@ Bank("AMC_WDT", 0, <<76, 100, 124, 148, 172, 196, 220, 244>>)
 @@ Bank("FMC1CH", 0, <<248, 272, 296>>)
 @@ Bank("FMC1CH_PULSES", 0, <<252, 276>>)
 @@ Bank("FMC1CH_COUNT", 0, <<256, 280>>)
 @@ Bank("FMC1CH_EVT", 0, <<260, 284>>)
 @@ Bank("FMC1CH_DLY", 0, <<264, 288>>)
 @@ Bank("FMC1CH_WDT", 0, <<268, 292>>)

AfcTimingAddrs2 ==
    Bank("FMC1CH_PULSES", 2, <<300, 324, 348>>)
 @@ Bank("FMC1CH_COUNT", 2, <<304, 328, 352>>)
 @@ Bank("FMC1CH_EVT", 2, <<308, 332, 356>>)
 @@ Bank("FMC1CH_DLY", 2, <<312, 336, 360>>)
 @@ Bank("FMC1CH_WDT", 2, <<316, 340, 364>>)
 @@ Bank("FMC1CH", 3, <<320, 344>>)
 @@ Bank("FMC2CH", 0, <<368, 392, 416, 440, 464>>)
 @@ Bank("FMC2CH_PULSES", 0, <<372, 396, 420, 444, 468>>)
 @@ Bank("FMC2CH_COUNT", 0, <<376, 400, 424, 448, 472>>)
 @@ Bank("FMC2CH_EVT", 0, <<380, 404, 428, 452, 476>>)
 @@ Bank("FMC2CH_DLY", 0, <<384, 408, 432, 456, 480>>)
 @@ Bank("FMC2CH_WDT", 0, <<388, 412, 436, 460, 484>>)

DspFields1 ==
    Regs([DS_TBT_THRES |-> [VAL |-> Bits(0, 26)],
          DS_FOFB_THRES |-> [VAL |-> Bits(0, 26)],
          DS_MONIT_THRES |-> [VAL |-> Bits(0, 26)],
          KX |-> [VAL |-> Bits(0, 25)],
          KY |-> [VAL |-> Bits(0, 25)],
          KSUM |-> [VAL |-> Bits(0, 25)],
          DSP_CTNR_TBT |-> [CH01 |-> Bits(0, 16), CH23 |-> Bits(16, 16)],
          DSP_CTNR_FOFB |-> [CH01 |-> Bits(0, 16), CH23 |-> Bits(16, 16)],
          DSP_CTNR1_MONIT |-> [CIC |-> Bits(0, 16), CFIR |-> Bits(16, 16)],
          DSP_CTNR2_MONIT |-> [PFIR |-> Bits(0, 16), FIR_01 |-> Bits(16, 16)],
          DSP_ERR_CLR |-> [TBT |-> Bit(0), FOFB |-> Bit(1), MONIT_PART1 |-> Bit(2),
                           MONIT_PART2 |-> Bit(3)]])

DspFields2 ==
    Regs([DDS_CFG |-> [VALID_CH0 |-> Bit(0), TEST_DATA |-> Bit(1), VALID_CH1 |-> Bit(8),
                       VALID_CH2 |-> Bit(16), VALID_CH3 |-> Bit(24)],
          DDS_PINC_CH0 |-> [VAL |-> Bits(0, 30)],
          DDS_PINC_CH1 |-> [VAL |-> Bits(0, 30)],
          DDS_PINC_CH2 |-> [VAL |-> Bits(0, 30)],
          DDS_PINC_CH3 |-> [VAL |-> Bits(0, 30)],
          DDS_POFF_CH0 |-> [VAL |-> Bits(0, 30)],
          DDS_POFF_CH1 |-> [VAL |-> Bits(0, 30)],
          DDS_POFF_CH2 |-> [VAL |-> Bits(0, 30)],
          DDS_POFF_CH3 |-> [VAL |-> Bits(0, 30)]])

DspFields3 ==
    Regs([AMPFIFO_MONIT_R0 |-> [AMP_CH0 |-> Bits(0, 32)],
          AMPFIFO_MONIT_R1 |-> [AMP_CH1 |-> Bits(0, 32)],
          AMPFIFO_MONIT_R2 |-> [AMP_CH2 |-> Bits(0, 32)],
          AMPFIFO_MONIT_R3 |-> [AMP_CH3 |-> Bits(0, 32)],
          AMPFIFO_MONIT_CSR |-> [FULL |-> Bit(16), EMPTY |-> Bit(17), USEDW |-> Bits(0, 4)],
          POSFIFO_MONIT_R0 |-> [POS_X |-> Bits(0, 32)],
          POSFIFO_MONIT_R1 |-> [POS_Y |-> Bits(0, 32)],
          POSFIFO_MONIT_R2 |-> [POS_Q |-> Bits(0, 32)],
          POSFIFO_MONIT_R3 |-> [POS_SUM |-> Bits(0, 32)],
          POSFIFO_MONIT_CSR |-> [FULL |-> Bit(16), EMPTY |-> Bit(17), USEDW |-> Bits(0, 4)],
          AMPFIFO_MONIT1_R0 |-> [AMP_CH0 |-> Bits(0, 32)],
          AMPFIFO_MONIT1_R1 |-> [AMP_CH1 |-> Bits(0, 32)],
          AMPFIFO_MONIT1_R2 |-> [AMP_CH2 |-> Bits(0, 32)],
          AMPFIFO_MONIT1_R3 |-> [AMP_CH3 |-> Bits(0, 32)],
          AMPFIFO_MONIT1_CSR |-> [FULL |-> Bit(16), EMPTY |-> Bit(17), USEDW |-> Bits(0, 4)],
          POSFIFO_MONIT1_R0 |-> [POS_X |-> Bits(0, 32)],
          POSFIFO_MONIT1_R1 |-> [POS_Y |-> Bits(0, 32)]])

DspFields4 ==
    Regs([POSFIFO_MONIT1_R2 |-> [POS_Q |-> Bits(0, 32)],
          POSFIFO_MONIT1_R3 |-> [POS_SUM |-> Bits(0, 32)],
          POSFIFO_MONIT1_CSR |-> [FULL |-> Bit(16), EMPTY |-> Bit(17), USEDW |-> Bits(0, 4)],
          SW_TAG |-> [EN |-> Bit(0), DESYNC_CNT_RST |-> Bit(8), DESYNC_CNT |-> Bits(9, 14)],
          SW_DATA_MASK |-> [EN |-> Bit(0), SAMPLES |-> Bits(1, 16)],
          TBT_TAG |-> [EN |-> Bit(0), DLY |-> Bits(1, 16), DESYNC_CNT_RST |-> Bit(17),
                       DESYNC_CNT |-> Bits(18, 14)],
          TBT_DATA_MASK_CTL |-> [EN |-> Bit(0)],
          TBT_DATA_MASK_SAMPLES |-> [BEG |-> Bits(0, 16), END |-> Bits(16, 16)],
          MONIT1_TAG |-> [EN |-> Bit(0), DLY |-> Bits(1, 16), DESYNC_CNT_RST |-> Bit(17),
                          DESYNC_CNT |-> Bits(18, 14)],
          MONIT1_DATA_MASK_CTL |-> [EN |-> Bit(0)],
          MONIT1_DATA_MASK_SAMPLES |-> [BEG |-> Bits(0, 16), END |-> Bits(16, 16)],
          MONIT_TAG |-> [EN |-> Bit(0), DLY |-> Bits(1, 16), DESYNC_CNT_RST |-> Bit(17),
                         DESYNC_CNT |-> Bits(18, 14)]])

DspFields5 ==
    Regs([MONIT_DATA_MASK_CTL |-> [EN |-> Bit(0)],
          MONIT_DATA_MASK_SAMPLES |-> [BEG |-> Bits(0, 16), END |-> Bits(16, 16)]])

DspAddrs ==
    Regs([DS_TBT_THRES |-> 0, DS_FOFB_THRES |-> 4, DS_MONIT_THRES |-> 8, KX |-> 12, KY |-> 16, KSUM |-> 20,
          DSP_CTNR_TBT |-> 24, DSP_CTNR_FOFB |-> 28, DSP_CTNR1_MONIT |-> 32, DSP_CTNR2_MONIT |-> 36,
          DSP_ERR_CLR |-> 40, DDS_CFG |-> 44, DDS_PINC_CH0 |-> 48, DDS_PINC_CH1 |-> 52,
          DDS_PINC_CH2 |-> 56, DDS_PINC_CH3 |-> 60, DDS_POFF_CH0 |-> 64, DDS_POFF_CH1 |-> 68,
          DDS_POFF_CH2 |-> 72, DDS_POFF_CH3 |-> 76, DSP_MONIT_AMP_CH0 |-> 80, DSP_MONIT_AMP_CH1 |-> 84,
          DSP_MONIT_AMP_CH2 |-> 88, DSP_MONIT_AMP_CH3 |-> 92, DSP_MONIT_POS_X |-> 96,
          DSP_MONIT_POS_Y |-> 100, DSP_MONIT_POS_Q |-> 104, DSP_MONIT_POS_SUM |-> 108,
          DSP_MONIT_UPDT |-> 112, DSP_MONIT1_AMP_CH0 |-> 116, DSP_MONIT1_AMP_CH1 |-> 120,
          DSP_MONIT1_AMP_CH2 |-> 124, DSP_MONIT1_AMP_CH3 |-> 128, DSP_MONIT1_POS_X |-> 132,
          DSP_MONIT1_POS_Y |-> 136, DSP_MONIT1_POS_Q |-> 140, DSP_MONIT1_POS_SUM |-> 144,
          DSP_MONIT1_UPDT |-> 148, AMPFIFO_MONIT_R0 |-> 152, AMPFIFO_MONIT_R1 |-> 156,
          AMPFIFO_MONIT_R2 |-> 160, AMPFIFO_MONIT_R3 |-> 164, AMPFIFO_MONIT_CSR |-> 168,
          POSFIFO_MONIT_R0 |-> 172, POSFIFO_MONIT_R1 |-> 176, POSFIFO_MONIT_R2 |-> 180,
          POSFIFO_MONIT_R3 |-> 184, POSFIFO_MONIT_CSR |-> 188, AMPFIFO_MONIT1_R0 |-> 192,
          AMPFIFO_MONIT1_R1 |-> 196, AMPFIFO_MONIT1_R2 |-> 200, AMPFIFO_MONIT1_R3 |-> 204,
          AMPFIFO_MONIT1_CSR |-> 208, POSFIFO_MONIT1_R0 |-> 212, POSFIFO_MONIT1_R1 |-> 216,
          POSFIFO_MONIT1_R2 |-> 220, POSFIFO_MONIT1_R3 |-> 224, POSFIFO_MONIT1_CSR |-> 228, SW_TAG |-> 232,
          SW_DATA_MASK |-> 236, TBT_TAG |-> 240, TBT_DATA_MASK_CTL |-> 244, TBT_DATA_MASK_SAMPLES |-> 248,
          MONIT1_TAG |-> 252, MONIT1_DATA_MASK_CTL |-> 256, MONIT1_DATA_MASK_SAMPLES |-> 260,
          MONIT_TAG |-> 264, MONIT_DATA_MASK_CTL |-> 268, MONIT_DATA_MASK_SAMPLES |-> 272,
          OFFSET_X |-> 276, OFFSET_Y |-> 280])

Fmc100mBank ==
    [CH_CTL |-> [SSR |-> Bits(0, 7)],
     CH_STA |-> [VAL |-> Bits(0, 16)],
     CH_CALIB |-> [GAIN |-> Bits(0, 16), OFFSET |-> Bits(16, 16)],
     CH_SAT |-> [VAL |-> Bits(0, 15)],
     CH_TRIG_THRES |-> [VAL |-> Bits(0, 16), HYST |-> Bits(16, 16)]]

Fmc100mFields1 ==
    Regs([CTL |-> [FSM_CMD |-> Bits(0, 2), FMC_CLK_OE |-> Bit(2), OFFSET_DAC_CLR_N |-> Bit(3),
                   MAN_BITSLIP |-> Bit(4), TEST_DATA_EN |-> Bit(5), TRIG_LED |-> Bit(6),
                   ACQ_LED |-> Bit(7), CLEAR_TRIG_STAT |-> Bit(8)],
          STA |-> [FSM |-> Bits(0, 3), SERDES_PLL |-> Bit(3), SERDES_SYNCED |-> Bit(4),
                   ACQ_CFG |-> Bit(5)],
          TRIG_STAT |-> [EXT |-> Bit(0), SW |-> Bit(1), TIME |-> Bit(4), CH1 |-> Bit(8),
                         CH2 |-> Bit(9), CH3 |-> Bit(10), CH4 |-> Bit(11)],
          TRIG_EN |-> [EXT |-> Bit(0), SW |-> Bit(1), TIME |-> Bit(4), AUX_TIME |-> Bit(5),
                       CH1 |-> Bit(8), CH2 |-> Bit(9), CH3 |-> Bit(10), CH4 |-> Bit(11)],
          TRIG_POL |-> [EXT |-> Bit(0), CH1 |-> Bit(8), CH2 |-> Bit(9), CH3 |-> Bit(10),
                        CH4 |-> Bit(11)],
          SHOTS |-> [NBR |-> Bits(0, 16), REMAIN |-> Bits(16, 16)]])
 @@ Channels(1..2, Fmc100mBank)

Fmc100mFields2 ==
    Channels(3..4, Fmc100mBank)

Fmc100mAddrs1 ==
    Regs([CTL |-> 0, STA |-> 4, TRIG_STAT |-> 8, TRIG_EN |-> 12, TRIG_POL |-> 16, EXT_TRIG_DLY |-> 20,
          SW_TRIG |-> 24, SHOTS |-> 28, MULTI_DEPTH |-> 32, TRIG_POS |-> 36, FS_FREQ |-> 40,
          DOWNSAMPLE |-> 44, PRE_SAMPLES |-> 48, POST_SAMPLES |-> 52, SAMPLES_CNT |-> 56])
 @@ Bank("CH_CTL", 1, <<128, 192, 256>>)
 @@ Bank("CH_STA", 1, <<132, 196>>)
 @@ Bank("CH_CALIB", 1, <<136, 200>>)
 @@ Bank("CH_SAT", 1, <<140, 204>>)
 @@ Bank("CH_TRIG_THRES", 1, <<144, 208>>)
 @@ Bank("CH_TRIG_DLY", 1, <<148, 212>>)

Fmc100mAddrs2 ==
    Bank("CH_STA", 3, <<260, 324>>)
 @@ Bank("CH_CALIB", 3, <<264, 328>>)
 @@ Bank("CH_SAT", 3, <<268, 332>>)
 @@ Bank("CH_TRIG_THRES", 3, <<272, 336>>)
 @@ Bank("CH_TRIG_DLY", 3, <<276, 340>>)
 @@ Bank("CH_CTL", 4, <<320>>)

Fmc130mFields1 ==
    Regs([ADC |-> [RAND |-> Bit(0), DITH |-> Bit(1), SHDN |-> Bit(2), PGA |-> Bit(3)],
          FPGA_CTRL |-> [FMC_IDELAY_RST |-> Bit(0), FMC_FIFO_RST |-> Bit(1),
                         FMC_IDELAY0_RDY |-> Bit(2), FMC_IDELAY1_RDY |-> Bit(3),
                         FMC_IDELAY2_RDY |-> Bit(4), FMC_IDELAY3_RDY |-> Bit(5),
                         TEMP_ALARM |-> Bit(8)],
          IDELAY0_CAL |-> [UPDATE |-> Bit(0), LINE |-> Bits(1, 17), VAL |-> Bits(18, 5)],
          IDELAY1_CAL |-> [UPDATE |-> Bit(0), LINE |-> Bits(1, 17), VAL |-> Bits(18, 5)],
          IDELAY2_CAL |-> [UPDATE |-> Bit(0), LINE |-> Bits(1, 17), VAL |-> Bits(18, 5)],
          IDELAY3_CAL |-> [UPDATE |-> Bit(0), LINE |-> Bits(1, 17), VAL |-> Bits(18, 5)],
          DATA0 |-> [VAL |-> Bits(0, 32)]])

Fmc130mFields2 ==
    Regs([DATA1 |-> [VAL |-> Bits(0, 32)],
          DATA2 |-> [VAL |-> Bits(0, 32)],
          DATA3 |-> [VAL |-> Bits(0, 32)],
          DCM |-> [ADC_EN |-> Bit(0), ADC_PHASE |-> Bit(1), ADC_DONE |-> Bit(2),
                   ADC_STATUS0 |-> Bit(3), ADC_RESET |-> Bit(4)]])

Fmc130mAddrs ==
    Regs([ADC |-> 0, FPGA_CTRL |-> 4, IDELAY0_CAL |-> 8, IDELAY1_CAL |-> 12, IDELAY2_CAL |-> 16,
          IDELAY3_CAL |-> 20, DATA0 |-> 24, DATA1 |-> 28, DATA2 |-> 32, DATA3 |-> 36, DCM |-> 40])

Fmc250mFields1 ==
    Regs([ADC_STA |-> [CLK_CHAINS |-> Bits(0, 4), DATA_CHAINS |-> Bits(8, 4),
                       ADC_PKT_SIZE |-> Bits(16, 16)],
          ADC_CTL |-> [UPDATE_CLK_DLY |-> Bit(0), UPDATE_DATA_DLY |-> Bit(1), RST_ADCS |-> Bit(2),
                       RST_DIV_ADCS |-> Bit(3), SLEEP_ADCS |-> Bit(4)],
          CH0_STA |-> [VAL |-> Bits(0, 16)],
          CH0_FN_DLY |-> [CLK_CHAIN_DLY |-> Bits(0, 5), DATA_CHAIN_DLY |-> Bits(8, 5),
                          INC_CLK_CHAIN_DLY |-> Bit(16), DEC_CLK_CHAIN_DLY |-> Bit(17),
                          INC_DATA_CHAIN_DLY |-> Bit(24), DEC_DATA_CHAIN_DLY |-> Bit(25)],
          CH0_FN_SEL |-> [LINE |-> Bits(0, 17)],
          CH0_CS_DLY |-> [FE_DLY |-> Bits(0, 2), RG_DLY |-> Bits(8, 2)]])

Fmc250mFields2 ==
    Regs([CH1_STA |-> [VAL |-> Bits(0, 16)],
          CH1_FN_DLY |-> [CLK_CHAIN_DLY |-> Bits(0, 5), DATA_CHAIN_DLY |-> Bits(8, 5),
                          INC_CLK_CHAIN_DLY |-> Bit(16), DEC_CLK_CHAIN_DLY |-> Bit(17),
                          INC_DATA_CHAIN_DLY |-> Bit(24), DEC_DATA_CHAIN_DLY |-> Bit(25)],
          CH1_FN_SEL |-> [LINE |-> Bits(0, 17)],
          CH1_CS_DLY |-> [FE_DLY |-> Bits(0, 2), RG_DLY |-> Bits(8, 2)],
          CH2_STA |-> [VAL |-> Bits(0, 16)]])

Fmc250mFields3 ==
    Regs([CH2_FN_DLY |-> [CLK_CHAIN_DLY |-> Bits(0, 5), DATA_CHAIN_DLY |-> Bits(8, 5),
                          INC_CLK_CHAIN_DLY |-> Bit(16), DEC_CLK_CHAIN_DLY |-> Bit(17),
                          INC_DATA_CHAIN_DLY |-> Bit(24), DEC_DATA_CHAIN_DLY |-> Bit(25)],
          CH2_FN_SEL |-> [LINE |-> Bits(0, 17)],
          CH2_CS_DLY |-> [FE_DLY |-> Bits(0, 2), RG_DLY |-> Bits(8, 2)],
          CH3_STA |-> [VAL |-> Bits(0, 16)],
          CH3_FN_DLY |-> [CLK_CHAIN_DLY |-> Bits(0, 5), DATA_CHAIN_DLY |-> Bits(8, 5),
                          INC_CLK_CHAIN_DLY |-> Bit(16), DEC_CLK_CHAIN_DLY |-> Bit(17),
                          INC_DATA_CHAIN_DLY |-> Bit(24), DEC_DATA_CHAIN_DLY |-> Bit(25)]])

Fmc250mFields4 ==
    Regs([CH3_FN_SEL |-> [LINE |-> Bits(0, 17)],
          CH3_CS_DLY |-> [FE_DLY |-> Bits(0, 2), RG_DLY |-> Bits(8, 2)],
          TEMP |-> [MON_DEV |-> Bit(0)]])

Fmc250mAddrs ==
    Regs([ADC_STA |-> 0, ADC_CTL |-> 4, CH0_STA |-> 8, CH0_FN_DLY |-> 12, CH0_FN_SEL |-> 16,
          CH0_CS_DLY |-> 20, CH1_STA |-> 24, CH1_FN_DLY |-> 28, CH1_FN_SEL |-> 32, CH1_CS_DLY |-> 36,
          CH2_STA |-> 40, CH2_FN_DLY |-> 44, CH2_FN_SEL |-> 48, CH2_CS_DLY |-> 52, CH3_STA |-> 56,
          CH3_FN_DLY |-> 60, CH3_FN_SEL |-> 64, CH3_CS_DLY |-> 68, TEMP |-> 72])

FmcActiveClkFields ==
    Regs([CLK_DISTRIB |-> [SI571_OE |-> Bit(0), PLL_FUNCTION |-> Bit(1), PLL_STATUS |-> Bit(2),
                           CLK_SEL |-> Bit(3)]])

FmcActiveClkAddrs ==
    Regs([CLK_DISTRIB |-> 0, DUMMY |-> 4])

FmcAdcCommonFields ==
    Regs([FMC_STATUS |-> [MMCM_LOCKED |-> Bit(0), PWR_GOOD |-> Bit(1), PRST |-> Bit(2)],
          TRIGGER |-> [DIR |-> Bit(0), TERM |-> Bit(1), TRIG_VAL |-> Bit(2)],
          MONITOR |-> [TEST_DATA_EN |-> Bit(0), LED1 |-> Bit(1), LED2 |-> Bit(2), LED3 |-> Bit(3),
                       MMCM_RST |-> Bit(4)]])

FmcAdcCommonAddrs ==
    Regs([FMC_STATUS |-> 0, TRIGGER |-> 4, MONITOR |-> 8])

FmcPicoFields ==
    Regs([FMC_STATUS |-> [PRSNT |-> Bit(0), PG_M2C |-> Bit(1)],
          FMC_CTL |-> [LED1 |-> Bit(0), LED2 |-> Bit(1)],
          RNG_CTL |-> [R0 |-> Bit(0), R1 |-> Bit(8), R2 |-> Bit(16), R3 |-> Bit(24)]])

FmcPicoAddrs ==
    Regs([FMC_STATUS |-> 0, FMC_CTL |-> 4, RNG_CTL |-> 8, DATA0 |-> 12, DATA1 |-> 16, DATA2 |-> 20,
          DATA3 |-> 24])

FofbCtrlFields ==
    Regs([CFG_VAL |-> [ACT_PART |-> Bit(0), UNUSED |-> Bit(1), ERR_CLR |-> Bit(2),
                       CC_ENABLE |-> Bit(3), TFS_OVERRIDE |-> Bit(4)],
          TOA_CTL |-> [RD_EN |-> Bit(0), RD_STR |-> Bit(1)],
          TOA_DATA |-> [VAL |-> Bits(0, 32)],
          RCB_CTL |-> [RD_EN |-> Bit(0), RD_STR |-> Bit(1)],
          RCB_DATA |-> [VAL |-> Bits(0, 32)],
          XY_BUFF_CTL |-> [UNUSED |-> Bits(0, 16), ADDR |-> Bits(16, 16)],
          XY_BUFF_DATA_MSB |-> [VAL |-> Bits(0, 32)],
          XY_BUFF_DATA_LSB |-> [VAL |-> Bits(0, 32)]])

FofbCtrlAddrs ==
    Regs([CFG_VAL |-> 0, TOA_CTL |-> 4, TOA_DATA |-> 8, RCB_CTL |-> 12, RCB_DATA |-> 16,
          XY_BUFF_CTL |-> 20, XY_BUFF_DATA_MSB |-> 24, XY_BUFF_DATA_LSB |-> 28, BPM_ID |-> 8192,
          TIME_FRAME_LEN |-> 8196, MGT_POWERDOWN |-> 8200, MGT_LOOPBACK |-> 8204, TIME_FRAME_DLY |-> 8208,
          GOLDEN_ORB_X |-> 8212, GOLDEN_ORB_Y |-> 8216, CUST_FEATURE |-> 8220, RXPOLARITY |-> 8224,
          PAYLOADSEL |-> 8228, FOFBDATASEL |-> 8232, FIRMWARE_VER |-> 12284, SYS_STATUS |-> 11264,
          LINK_PARTNER_1 |-> 11268, LINK_PARTNER_2 |-> 11272, LINK_PARTNER_3 |-> 11276,
          LINK_PARTNER_4 |-> 11280, LINK_UP |-> 11284, TIME_FRAME_COUNT |-> 11288,
          HARD_ERR_CNT_1 |-> 11292, HARD_ERR_CNT_2 |-> 11296, HARD_ERR_CNT_3 |-> 11300,
          HARD_ERR_CNT_4 |-> 11304, SOFT_ERR_CNT_1 |-> 11308, SOFT_ERR_CNT_2 |-> 11312,
          SOFT_ERR_CNT_3 |-> 11316, SOFT_ERR_CNT_4 |-> 11320, FRAME_ERR_CNT_1 |-> 11324,
          FRAME_ERR_CNT_2 |-> 11328, FRAME_ERR_CNT_3 |-> 11332, FRAME_ERR_CNT_4 |-> 11336,
          RX_PCK_CNT_1 |-> 11340, RX_PCK_CNT_2 |-> 11344, RX_PCK_CNT_3 |-> 11348, RX_PCK_CNT_4 |-> 11352,
          TX_PCK_CNT_1 |-> 11356, TX_PCK_CNT_2 |-> 11360, TX_PCK_CNT_3 |-> 11364, TX_PCK_CNT_4 |-> 11368,
          FOD_PROCESS_TIME |-> 11372, BPM_COUNT |-> 11376, BPM_ID_RDBACK |-> 11380,
          TF_LENGTH_RDBACK |-> 11384, POWERDOWN_RDBACK |-> 11388, LOOPBACK_RDBACK |-> 11392,
          FAIVAL_RDBACK |-> 11396, FEATURE_RDBACK |-> 11400, RX_MAXCOUNT |-> 11404, TX_MAXCOUNT |-> 11408])

OrbitIntlkFields ==
    Regs([CTRL |-> [EN |-> Bit(0), CLR |-> Bit(1), MIN_SUM_EN |-> Bit(2), TRANS_EN |-> Bit(3),
                    TRANS_CLR |-> Bit(4), ANG_EN |-> Bit(5), ANG_CLR |-> Bit(6)],
          STS |-> [TRANS_BIGGER_X |-> Bit(0), TRANS_BIGGER_Y |-> Bit(1),
                   TRANS_BIGGER_LTC_X |-> Bit(2), TRANS_BIGGER_LTC_Y |-> Bit(3),
                   TRANS_BIGGER_ANY |-> Bit(4), TRANS_BIGGER |-> Bit(5),
                   TRANS_BIGGER_LTC |-> Bit(6), ANG_BIGGER_X |-> Bit(7), ANG_BIGGER_Y |-> Bit(8),
                   ANG_BIGGER_LTC_X |-> Bit(9), ANG_BIGGER_LTC_Y |-> Bit(10),
                   ANG_BIGGER_ANY |-> Bit(11), ANG_BIGGER |-> Bit(12), ANG_BIGGER_LTC |-> Bit(13),
                   INTLK |-> Bit(14), INTLK_LTC |-> Bit(15), TRANS_SMALLER_X |-> Bit(16),
                   TRANS_SMALLER_Y |-> Bit(17), TRANS_SMALLER_LTC_X |-> Bit(18),
                   TRANS_SMALLER_LTC_Y |-> Bit(19), TRANS_SMALLER_ANY |-> Bit(20),
                   TRANS_SMALLER |-> Bit(21), TRANS_SMALLER_LTC |-> Bit(22),
                   ANG_SMALLER_X |-> Bit(23), ANG_SMALLER_Y |-> Bit(24),
                   ANG_SMALLER_LTC_X |-> Bit(25), ANG_SMALLER_LTC_Y |-> Bit(26),
                   ANG_SMALLER_ANY |-> Bit(27), ANG_SMALLER |-> Bit(28),
                   ANG_SMALLER_LTC |-> Bit(29)]])

OrbitIntlkAddrs ==
    Regs([CTRL |-> 0, STS |-> 4, MIN_SUM |-> 8, TRANS_MAX_X |-> 12, TRANS_MAX_Y |-> 16, ANG_MAX_X |-> 20,
          ANG_MAX_Y |-> 24, TRANS_MIN_X |-> 28, TRANS_MIN_Y |-> 32, ANG_MIN_X |-> 36, ANG_MIN_Y |-> 40])

RtmlampBank ==
    [CH_STA |-> [AMP_IFLAG_L |-> Bit(0), AMP_TFLAG_L |-> Bit(1), AMP_IFLAG_R |-> Bit(2),
                 AMP_TFLAG_R |-> Bit(3)],
     CH_CTL |-> [AMP_EN |-> Bit(0)],
     CH_DAC |-> [DATA |-> Bits(0, 16), WR |-> Bit(16)]]

RtmlampFields1 ==
    Regs([CTL |-> [DAC_DATA_FROM_WB |-> Bit(0)]])
 @@ Channels(0..5, RtmlampBank)

RtmlampFields2 ==
    Channels(6..11, RtmlampBank)

RtmlampAddrs1 ==
    Regs([STA |-> 0, CTL |-> 4])
 @@ Bank("CH_STA", 0, <<256, 268, 280, 292, 304, 316, 328>>)
 @@ Bank("CH_CTL", 0, <<260, 272, 284, 296, 308, 320>>)
 @@ Bank("CH_DAC", 0, <<264, 276, 288, 300, 312, 324>>)

RtmlampAddrs2 ==
    Bank("CH_CTL", 6, <<332, 344, 356, 368, 380, 392>>)
 @@ Bank("CH_DAC", 6, <<336, 348, 360, 372, 384, 396>>)
 @@ Bank("CH_STA", 7, <<340, 352, 364, 376, 388>>)

SwapFields ==
    Regs([CTRL |-> [RST |-> Bit(0), MODE |-> Bits(1, 2), SWAP_DIV_F |-> Bits(8, 16)],
          DLY |-> [DESWAP |-> Bits(0, 16)]])

SwapAddrs ==
    Regs([CTRL |-> 0, DLY |-> 4])

TimRcvFields ==
    Regs([DMTD_A_CTL |-> [DEGLITCHER_THRES |-> Bits(0, 16)],
          DMTD_B_CTL |-> [DEGLITCHER_THRES |-> Bits(0, 16)],
          F_DMTD_A |-> [FREQ |-> Bits(0, 28), VALID |-> Bit(28)],
          F_DMTD_B |-> [FREQ |-> Bits(0, 28), VALID |-> Bit(28)]])

TimRcvAddrs ==
    Regs([PHASE_MEAS_NAVG |-> 0, DMTD_A_CTL |-> 4, DMTD_B_CTL |-> 8, PHASE_MEAS |-> 12, F_DMTD_A |-> 16,
          F_DMTD_B |-> 20])

TriggerIfaceBank ==
    [CH_CTL |-> [DIR |-> Bit(0), DIR_POL |-> Bit(1), RCV_COUNT_RST |-> Bit(2),
                 TRANSM_COUNT_RST |-> Bit(3)],
     CH_CFG |-> [RCV_LEN |-> Bits(0, 8), TRANSM_LEN |-> Bits(8, 8)],
     CH_COUNT |-> [RCV |-> Bits(0, 16), TRANSM |-> Bits(16, 16)]]

TriggerIfaceFields1 ==
    Channels(0..2, TriggerIfaceBank)

TriggerIfaceFields2 ==
    Channels(3..5, TriggerIfaceBank)

TriggerIfaceFields3 ==
    Channels(6..8, TriggerIfaceBank)

TriggerIfaceFields4 ==
    Channels(9..11, TriggerIfaceBank)

TriggerIfaceFields5 ==
    Channels(12..14, TriggerIfaceBank)

TriggerIfaceFields6 ==
    Channels(15..17, TriggerIfaceBank)

TriggerIfaceFields7 ==
    Channels(18..20, TriggerIfaceBank)

TriggerIfaceFields8 ==
    Channels(21..23, TriggerIfaceBank)

TriggerIfaceAddrs ==
    Bank("CH_CTL", 0, <<0, 12, 24, 36, 48, 60, 72, 84, 96, 108, 120, 132, 144, 156, 168, 180, 192,
            204, 216, 228, 240, 252, 264, 276>>)
 @@ Bank("CH_CFG", 0, <<4, 16, 28, 40, 52, 64, 76, 88, 100, 112, 124, 136, 148, 160, 172, 184, 196,
            208, 220, 232, 244, 256, 268, 280>>)
 @@ Bank("CH_COUNT", 0, <<8, 20, 32, 44, 56, 68, 80, 92, 104, 116, 128, 140, 152, 164, 176, 188, 200,
            212, 224, 236, 248, 260, 272, 284>>)

TriggerMuxBank ==
    [CH_CTL |-> [RCV_SRC |-> Bit(0), RCV_IN_SEL |-> Bits(8, 8), TRANSM_SRC |-> Bit(16),
                 TRANSM_OUT_SEL |-> Bits(24, 8)]]

TriggerMuxFields1 ==
    Channels(0..6, TriggerMuxBank)

TriggerMuxFields2 ==
    Channels(7..13, TriggerMuxBank)

TriggerMuxFields3 ==
    Channels(14..20, TriggerMuxBank)

TriggerMuxFields4 ==
    Channels(21..23, TriggerMuxBank)

TriggerMuxAddrs ==
    Bank("CH_CTL", 0, <<0, 8, 16, 24, 32, 40, 48, 56, 64, 72, 80, 88, 96, 104, 112, 120, 128, 136,
            144, 152, 160, 168, 176, 184>>)
 @@ Bank("CH_DUMMY", 0, <<4, 12, 20, 28, 36, 44, 52, 60, 68, 76, 84, 92, 100, 108, 116, 124, 132, 140,
            148, 156, 164, 172, 180, 188>>)

Fields ==
    [acq |-> AcqFields1 @@ AcqFields2 @@ AcqFields3 @@ AcqFields4 @@ AcqFields5 @@ AcqFields6,
     afc_diag |-> AfcDiagFields,
     afc_mgmt |-> AfcMgmtFields,
     afc_timing |-> AfcTimingFields1 @@ AfcTimingFields2 @@ AfcTimingFields3 @@ AfcTimingFields4 @@ AfcTimingFields5 @@ AfcTimingFields6,
     dsp |-> DspFields1 @@ DspFields2 @@ DspFields3 @@ DspFields4 @@ DspFields5,
     fmc100m_4ch |-> Fmc100mFields1 @@ Fmc100mFields2,
     fmc130m_4ch |-> Fmc130mFields1 @@ Fmc130mFields2,
     fmc250m_4ch |-> Fmc250mFields1 @@ Fmc250mFields2 @@ Fmc250mFields3 @@ Fmc250mFields4,
     fmc_active_clk |-> FmcActiveClkFields,
     fmc_adc_common |-> FmcAdcCommonFields,
     fmcpico1m_4ch |-> FmcPicoFields,
     fofb_ctrl |-> FofbCtrlFields,
     init |-> <<>>,
     orbit_intlk |-> OrbitIntlkFields,
     rffe |-> <<>>,
     rffe_scpi |-> <<>>,
     rtmlamp_ohwr |-> RtmlampFields1 @@ RtmlampFields2,
     swap |-> SwapFields,
     tim_rcv |-> TimRcvFields,
     trigger_iface |-> TriggerIfaceFields1 @@ TriggerIfaceFields2 @@ TriggerIfaceFields3 @@ TriggerIfaceFields4 @@ TriggerIfaceFields5 @@ TriggerIfaceFields6 @@ TriggerIfaceFields7 @@ TriggerIfaceFields8,
     trigger_mux |-> TriggerMuxFields1 @@ TriggerMuxFields2 @@ TriggerMuxFields3 @@ TriggerMuxFields4]

Addrs ==
    [acq |-> AcqAddrs,
     afc_diag |-> AfcDiagAddrs,
     afc_mgmt |-> AfcMgmtAddrs,
     afc_timing |-> AfcTimingAddrs1 @@ AfcTimingAddrs2,
     dsp |-> DspAddrs,
     fmc100m_4ch |-> Fmc100mAddrs1 @@ Fmc100mAddrs2,
     fmc130m_4ch |-> Fmc130mAddrs,
     fmc250m_4ch |-> Fmc250mAddrs,
     fmc_active_clk |-> FmcActiveClkAddrs,
     fmc_adc_common |-> FmcAdcCommonAddrs,
     fmcpico1m_4ch |-> FmcPicoAddrs,
     fofb_ctrl |-> FofbCtrlAddrs,
     init |-> <<>>,
     orbit_intlk |-> OrbitIntlkAddrs,
     rffe |-> <<>>,
     rffe_scpi |-> <<>>,
     rtmlamp_ohwr |-> RtmlampAddrs1 @@ RtmlampAddrs2,
     swap |-> SwapAddrs,
     tim_rcv |-> TimRcvAddrs,
     trigger_iface |-> TriggerIfaceAddrs,
     trigger_mux |-> TriggerMuxAddrs]

==============================================================================
