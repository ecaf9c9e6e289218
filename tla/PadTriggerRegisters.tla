------------------------- MODULE PadTriggerRegisters -------------------------
(***************************************************************************)
(* The FPGA registers of the pad trigger, PADTRIGGER_REGISTERS: 32 bits    *)
(* each.  There is no translation map: the code reads and writes           *)
(* sub-registers.                                                          *)
(***************************************************************************)
EXTENDS RegisterLayout

NUM_PFEBS == 24

CONTROL_REGISTERS ==
  [r \in {0, 3, 10, 14, 16, 17, 28} |->
     CASE r = 0  -> <<F("conf_ro_bc_offset[7]", 1), F("conf_ro_self_trigger", 1),
                      F("conf_ttc_calib", 4), F("conf_ocr_en", 1), F("conf_startIdleState", 1),
                      F("conf_bcid_offset", 12), F("conf_ro_en", 1), F("conf_ro_window_size", 4),
                      F("conf_ro_bc_offset", 7)>>
       [] r = 3  -> <<Unused(3), F("conf_ro_trig_bc_offset", 8), F("conf_ro_trig_offset_en", 1),
                      F("conf_auto_mask_pfeb_to_0", 1), F("conf_nsw_side", 1),
                      F("conf_ttc_latency", 5), F("conf_majority_sel", 2),
                      F("conf_BC_stretch_to_TP", 1), F("conf_BC_stretch", 1), F("pfeb_num", 5),
                      F("conf_sectorID", 4)>>
       [] r = 10 -> <<Unused(8)>> \o Row("sfeb", NUM_PFEBS - 1, 0, 1)
       [] r = 14 -> <<Unused(4), F("ro_bcid_error_rst", 1), F("trig_bcid_error_rst", 1),
                      F("bcid_error_rst", 2), F("gt_soft_reset", 24)>>
       [] r = 16 -> <<Unused(7), F("gt_rx_lol_reset", 1), F("gt_rx_reset", 24)>>
       [] r = 17 -> <<Unused(8), F("gt_tx_reset", 24)>>
       [] r = 28 -> <<Unused(20), F("trig_bcid_select", 12)>>]

\* Four bits for each pad FEB, in three registers: delays and BCIDs.
PFEB_DELAYS == [r \in 4..6 |-> Row("pfeb", 8 * (6 - r) + 7, 8 * (6 - r), 4)]
PFEB_BCIDS  == [r \in 7..9 |-> Row("pfeb", 8 * (9 - r) + 7, 8 * (9 - r), 4)]

STATUS_REGISTERS ==
  [r \in {1, 2, 11, 12, 13, 15} |->
     CASE r = 1  -> <<Unused(20), F("xadc_temp_out", 12)>>
       [] r = 2  -> <<F("l1id", 32)>>
       [] r = 11 -> <<F("trigger_rate", 32)>>
       [] r = 12 -> <<F("trig_bcid_rate", 32)>>
       [] r = 13 -> <<Unused(15), F("IdleState", 1), F("pfeb_hit_rate", 16)>>
       [] r = 15 -> <<Unused(8), F("status", 24)>>]
MONITOR_REGISTERS ==
  [r \in 18..27 |->
     CASE r = 18 -> <<F("pad_bcid_error_dif", 16), F("pad_bcid_error", 16)>>
       [] r = 19 -> <<Unused(24), F("pt_2_tp_lat", 8)>>
       [] r = 20 -> <<F("tp_bcid_error_dif", 16), F("tp_bcid_error", 16)>>
       [] r = 21 -> <<F("ttc_test_pulse_rate", 16), F("ttc_bcr_ocr_rate", 16)>>
       [] r = 22 -> <<Unused(20), F("trig_bcid", 12)>>
       [] r = 23 -> <<Unused(8), F("pfeb_bcid_error", 24)>>
       [] r = 24 -> <<Unused(8), F("gt_rx_lol", 24)>>
       [] r = 25 -> <<F("ttc_l0a_rate", 16), F("ttc_l1a_rate", 16)>>
       [] r = 26 -> <<F("ttc_ec0r_rate", 16), F("ttc_ecr_rate", 16)>>
       [] r = 27 -> <<F("ttc_sca_reset_rate", 16), F("ttc_soft_reset_rate", 16)>>]

\* The masks of the pads of a FEB: 104 bits in registers A, B, C and D.
PadMasks(first) ==
  [r \in first..first + 4 * NUM_PFEBS - 1 |->
     CASE (r - first) % 4 = 0 -> <<Unused(24), F("pads[103:96]", 8)>>
       [] (r - first) % 4 = 1 -> <<F("pads[95:64]", 32)>>
       [] (r - first) % 4 = 2 -> <<F("pads[63:32]", 32)>>
       [] (r - first) % 4 = 3 -> <<F("pads[31:0]", 32)>>]
MASKS_TO_0  == PadMasks(48)
MASKS_TO_1  == PadMasks(144)
MASK_ENABLE == [r \in {240} |-> <<Unused(8), F("pfeb_mask_enable", 24)>>]

PADTRIGGER_REGISTERS ==
  CONTROL_REGISTERS @@ PFEB_DELAYS @@ PFEB_BCIDS @@ STATUS_REGISTERS
    @@ MONITOR_REGISTERS @@ MASKS_TO_0 @@ MASKS_TO_1 @@ MASK_ENABLE
PADTRIGGER_READONLY ==
  DOMAIN PFEB_BCIDS \cup DOMAIN STATUS_REGISTERS \cup DOMAIN MONITOR_REGISTERS
=============================================================================
