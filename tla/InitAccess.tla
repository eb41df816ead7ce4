----------------------------- MODULE InitAccess -----------------------------
(***************************************************************************)
(* What is done to an attached instance between its starts and stops, in   *)
(* the words of InitSteps: the ioctls, which read and write the flash, the *)
(* VPD, the LEDs and the self tests, and the updates of the statistics.    *)
(*                                                                         *)
(* The object of a partition's update is the partition: "dcfg" the dynamic *)
(* configuration, which holds the VPD and the versions of the others, <<>> *)
(* another.  A loop whose rounds leave nothing behind is one round.        *)
(***************************************************************************)
EXTENDS InitQueues

(* Partitions.  A write or an erase is part of an update.                  *)
efx_mcdi_nvram_update_start == Plain(<<Try("partn_update", End)>>)
efx_mcdi_nvram_update_finish == Plain(<<Drop("partn_update")>>)
Within == Need("partn_update")

siena_nvram_type_to_partn == Plain(<<Ask(End)>>)
siena_nvram_partn_size == Plain(<<Mcdi(End)>>)
siena_nvram_partn_lock == Fn(<<Do("efx_mcdi_nvram_update_start", 1)>>, Empty(1))
siena_nvram_partn_read == Plain(<<Mcdi(End)>>)
siena_nvram_partn_erase == Plain(<<Within, Mcdi(End)>>)
siena_nvram_partn_write == Plain(<<Within, Mcdi(End)>>)
siena_nvram_partn_unlock == Plain(<<Run("efx_mcdi_nvram_update_finish")>>)
siena_nvram_partn_rw_start == Fn(<<Do("siena_nvram_partn_lock", 1)>>, Empty(1))
siena_nvram_partn_rw_finish == Plain(<<Run("siena_nvram_partn_unlock")>>)
siena_nvram_get_subtype == Plain(<<Mcdi(End)>>)
siena_nvram_get_dynamic_cfg ==
  Fn(<<Do("siena_nvram_partn_size", 1), Try("dcfg", 2), Do("siena_nvram_partn_read", 3),
       May("siena_nvram_partn_read", 4)>>,
     <<<<>>, <<Put("dcfg")>>, <<>>, <<>>>>)
siena_nvram_partn_get_version ==
  Fn(<<Ask(1), Do("siena_nvram_get_subtype", 2), Do("siena_nvram_get_dynamic_cfg", 3),
       Put("dcfg")>>, Empty(3))
siena_nvram_partn_set_version ==
  Fn(<<Do("siena_nvram_partn_size", 1), DoOn("siena_nvram_partn_lock", "dcfg", 2),
       Do("siena_nvram_get_dynamic_cfg", 3), Ask(4), Do("siena_nvram_get_subtype", 5),
       DoOn("siena_nvram_partn_erase", "dcfg", 6), DoOn("siena_nvram_partn_write", "dcfg", 7),
       Put("dcfg"), RunOn("siena_nvram_partn_unlock", "dcfg")>>,
     <<<<>>, <<>>, <<>>, <<Put("dcfg")>>, <<>>, <<>>, <<>>>>)

ef10_nvram_type_to_partn == Plain(<<Ask(End)>>)
ef10_nvram_partn_size == Plain(<<Mcdi(End)>>)
ef10_nvram_partn_lock == Fn(<<Do("efx_mcdi_nvram_update_start", 1)>>, Empty(1))
ef10_nvram_partn_read == Plain(<<Mcdi(End)>>)
ef10_nvram_partn_erase == Plain(<<Within, Mcdi(End)>>)
ef10_nvram_partn_write == Plain(<<Within, Mcdi(End)>>)
ef10_nvram_partn_unlock == Plain(<<Run("efx_mcdi_nvram_update_finish")>>)
ef10_nvram_partn_rw_start == Fn(<<Do("ef10_nvram_partn_lock", 1)>>, Empty(1))
ef10_nvram_partn_rw_finish == Plain(<<Run("ef10_nvram_partn_unlock")>>)
ef10_nvram_partn_get_version == Plain(<<Mcdi(End)>>)

(* The TLVs of a partition, read into a buffer of the caller's. *)
ef10_nvram_read_tlv_segment == Plain(<<Mcdi(End)>>)
ef10_nvram_buf_read_tlv == Plain(<<Ask(End), Opt("tlv_data", End)>>)
ef10_nvram_partn_read_tlv ==
  Fn(<<Do("ef10_nvram_partn_size", 1), Ask(2), Try("seg_data", 3),
       Do("ef10_nvram_read_tlv_segment", 4), Do("ef10_nvram_buf_read_tlv", 5), Put("seg_data")>>,
     <<<<>>, <<Put("seg_data")>>, <<>>, <<>>, <<>>>>)
ef10_nvram_segment_write_tlv ==
  Plain(<<Do("ef10_nvram_read_tlv_segment", End), Ask(End), Ask(End)>>)
ef10_nvram_partn_write_segment_tlv ==
  Fn(<<Do("ef10_nvram_partn_size", 1), Try("partn_data", 2), Do("ef10_nvram_partn_lock", 3),
       Do("ef10_nvram_segment_write_tlv", 4), Ask(5), Do("ef10_nvram_partn_erase", 6),
       Do("ef10_nvram_partn_write", 7), Run("ef10_nvram_partn_unlock"), Put("partn_data")>>,
     <<<<>>, <<>>, <<>>, <<Run("ef10_nvram_partn_unlock")>>, <<Put("partn_data")>>, <<>>, <<>>>>)
ef10_nvram_partn_set_version ==
  Fn(<<DoOn("ef10_nvram_partn_write_segment_tlv", "dcfg", 1)>>, Empty(1))

(***************************************************************************)
(* The flash.  The type of a locked partition has been translated before.  *)
(***************************************************************************)
efx_nvram_size ==
  Fn(<<Need("EFX_MOD_NVRAM"), Do("envo_type_to_partn", 1), Do("envo_partn_size", 2)>>, Empty(2))
efx_nvram_get_version ==
  Fn(<<Need("EFX_MOD_PROBE"), Need("EFX_MOD_NVRAM"), Do("envo_type_to_partn", 1),
       Do("envo_partn_get_version", 2)>>, Empty(2))
efx_nvram_rw_start ==
  Fn(<<Need("EFX_MOD_NVRAM"), Lacks("en_nvram_locked"), Do("envo_type_to_partn", 1),
       Do("envo_partn_rw_start", 2), Get("en_nvram_locked")>>, Empty(2))
Locked == <<Need("EFX_MOD_NVRAM"), Need("en_nvram_locked")>>
efx_nvram_read_chunk == Fn(Locked \o <<Do("envo_partn_read", 2)>>, Empty(2))
efx_nvram_erase == Fn(Locked \o <<Do("envo_partn_size", 2), Do("envo_partn_erase", 3)>>, Empty(3))
efx_nvram_write_chunk == Fn(Locked \o <<Do("envo_partn_write", 2)>>, Empty(2))
efx_nvram_rw_finish == Plain(Locked \o <<Run("envo_partn_rw_finish"), Put("en_nvram_locked")>>)
efx_nvram_set_version ==
  Fn(<<Need("EFX_MOD_PROBE"), Need("EFX_MOD_NVRAM"), Lacks("en_nvram_locked"),
       Do("envo_type_to_partn", 1), Do("envo_partn_set_version", 2)>>, Empty(2))

sfxge_nvram_rw ==
  Fn(<<Do("efx_nvram_rw_start", 1), Do("sfxge_nvram_op", 2), Run("efx_nvram_rw_finish")>>,
     <<<<Run("efx_nvram_rw_finish")>>, <<>>>>)
sfxge_nvram_op == Plain(<<Case("efx_nvram_read_chunk", ""), Do("efx_nvram_write_chunk", End)>>)
sfxge_nvram_erase ==
  Fn(<<Do("efx_nvram_rw_start", 1), Do("efx_nvram_erase", 2), Run("efx_nvram_rw_finish")>>,
     <<<<Run("efx_nvram_rw_finish")>>, <<>>>>)
sfxge_nvram_ioctl ==
  Plain(<<Ask(End), Case("efx_nvram_size", ""), Case("sfxge_nvram_rw", ""),
          Case("sfxge_nvram_rw", "dcfg"), Case("sfxge_nvram_erase", ""),
          Case("sfxge_nvram_erase", "dcfg"), Case("efx_nvram_get_version", ""),
          Do("efx_nvram_set_version", End)>>)

(***************************************************************************)
(* The VPD: a static part read when the module is set up, and a dynamic    *)
(* one in the dynamic configuration.  What the hunks hold is not told.     *)
(***************************************************************************)
siena_vpd_get_static ==
  Fn(<<Do("siena_nvram_partn_size", 1), Try("scfg", 2), Do("siena_nvram_partn_read", 3), Ask(4),
       May("siena_nvram_partn_read", 6), Ask(7), Opt("svpd", 8), Put("scfg")>>,
     <<<<>>, <<>>, <<>>, <<>>, <<>>, <<Put("scfg")>>, <<>>, <<>>>>)
siena_vpd_size == Plain(<<Do("siena_nvram_partn_size", End)>>)
siena_vpd_read ==
  Fn(<<Do("siena_nvram_get_dynamic_cfg", 1), Ask(2), Put("dcfg")>>, <<<<Put("dcfg")>>, <<>>>>)
siena_vpd_verify == Plain(<<Ask(End), Ask(End)>>)
siena_vpd_reinit == Plain(<<Ask(End), Ask(End)>>)
siena_vpd_get == Plain(<<Ask(End), Ask(End)>>)
siena_vpd_set == Plain(<<Ask(End), Ask(End)>>)
siena_vpd_write ==
  Fn(<<Ask(1), Do("siena_nvram_partn_size", 2), DoOn("siena_nvram_partn_lock", "dcfg", 3),
       Do("siena_nvram_get_dynamic_cfg", 4), Ask(5), DoOn("siena_nvram_partn_erase", "dcfg", 6),
       DoOn("siena_nvram_partn_write", "dcfg", 7), Put("dcfg"),
       RunOn("siena_nvram_partn_unlock", "dcfg")>>,
     <<<<>>, <<>>, <<Put("dcfg")>>, <<RunOn("siena_nvram_partn_unlock", "dcfg")>>, <<>>, <<>>,
       <<>>>>)

ef10_vpd_size == Plain(<<Ask(End)>>)
ef10_vpd_read ==
  Fn(<<Do("ef10_nvram_partn_read_tlv", 1), Ask(2), Drop("tlv_data")>>,
     <<<<Drop("tlv_data")>>, <<>>>>)
ef10_vpd_verify == Plain(<<Ask(End), Ask(End)>>)
ef10_vpd_reinit == Plain(<<Ask(End), Ask(End)>>)
ef10_vpd_get == Plain(<<Ask(End), Ask(End)>>)
ef10_vpd_set == Plain(<<Ask(End), Ask(End)>>)
ef10_vpd_write ==
  Fn(<<Ask(1), DoOn("ef10_nvram_partn_write_segment_tlv", "dcfg", 2)>>, Empty(2))

Vpd(op) == Plain(<<Need("EFX_MOD_VPD"), Do(op, End)>>)
efx_vpd_size == Vpd("evpdo_size")
efx_vpd_read == Vpd("evpdo_read")
efx_vpd_verify == Vpd("evpdo_verify")
efx_vpd_reinit == Vpd("evpdo_reinit")
efx_vpd_get == Vpd("evpdo_get")
efx_vpd_set == Vpd("evpdo_set")
efx_vpd_write == Vpd("evpdo_write")

sfxge_vpd_get_keyword ==
  Fn(<<Do("efx_vpd_size", 1), Get("vpd_buf"), Do("efx_vpd_read", 2), Do("efx_vpd_verify", 3),
       Do("efx_vpd_get", 4), Put("vpd_buf")>>,
     <<<<>>, <<>>, <<Put("vpd_buf")>>, <<>>>>)
(* VPD that is found to be bad is first replaced. *)
sfxge_vpd_set_keyword ==
  Fn(<<Do("efx_vpd_size", 1), Get("vpd_buf"), Do("efx_vpd_read", 2), Run("efx_vpd_verify"),
       May("efx_vpd_reinit", 3), Do("efx_vpd_verify", 4), Do("efx_vpd_set", 5),
       Do("efx_vpd_verify", 6), Do("efx_vpd_write", 7), Put("vpd_buf")>>,
     <<<<>>, <<>>, <<>>, <<>>, <<>>, <<Put("vpd_buf")>>, <<>>>>)
sfxge_vpd_ioctl ==
  Plain(<<Ask(End), Case("sfxge_vpd_get_keyword", ""), Do("sfxge_vpd_set_keyword", End)>>)

(***************************************************************************)
(* Tests, LEDs and requests.                                               *)
(***************************************************************************)
efx_bist_start ==
  Fn(<<Lacks("ep_current_bist"), Mcdi(2), Get("ep_current_bist")>>, Empty(2))
efx_bist_poll == Fn(<<Need("ep_current_bist"), Mcdi(2)>>, Empty(2))
efx_bist_stop == Plain(<<Need("ep_current_bist"), Drop("ep_current_bist")>>)
sfxge_phy_bist_ioctl ==
  Fn(<<Enter("mac_lock"), Ask(1), Do("efx_bist_start", 2), Do("efx_bist_poll", 3),
       Run("efx_bist_stop"), Exit("mac_lock")>>,
     <<<<Run("efx_bist_stop")>>, <<>>, <<Exit("mac_lock")>>>>)

efx_phy_led_set == Fn(<<Need("EFX_MOD_PORT"), Mcdi(2)>>, Empty(2))
sfxge_phy_led_mode_set ==
  Fn(<<Need("SFXGE_MAC_STARTED"), Ask(1), Enter("mac_lock"), Do("efx_phy_led_set", 2),
       Exit("mac_lock")>>,
     <<<<Exit("mac_lock")>>, <<>>>>)
sfxge_phy_ioctl == Fn(<<Do("sfxge_phy_led_mode_set", 1)>>, Empty(1))

efx_port_loopback_set == Fn(<<Need("EFX_MOD_PORT"), Mcdi(2)>>, Empty(2))
sfxge_mac_loopback_set ==
  Fn(<<Enter("mac_lock"), Need("SFXGE_MAC_STARTED"), Do("efx_port_loopback_set", 1),
       Exit("mac_lock")>>,
     <<<<Exit("mac_lock")>>>>)
sfxge_mac_ioctl == Fn(<<Do("sfxge_mac_loopback_set", 1)>>, Empty(1))

efx_sram_test ==
  Plain(<<Need("EFX_MOD_NIC"), Lacks("EFX_MOD_RX"), Lacks("EFX_MOD_TX"), Lacks("EFX_MOD_EV"),
          Ask(End)>>)
sfxge_sram_test ==
  Fn(<<Unless("SFXGE_SRAM_INITIALIZED", 1), Ask(2), Enter("ss_lock"), Do("efx_sram_test", 3),
       Exit("ss_lock")>>,
     <<<<Exit("ss_lock")>>, <<>>, <<>>>>)
sfxge_sram_ioctl == Fn(<<Do("sfxge_sram_test", 1)>>, Empty(1))

sfxge_mcdi_acquire == Plain(<<Enter("mcdi_lock"), Exit("mcdi_lock")>>)
sfxge_mcdi_release == Plain(<<Enter("mcdi_lock"), Exit("mcdi_lock")>>)
sfxge_mcdi_execute ==
  Plain(<<Run("sfxge_mcdi_acquire"), Enter("s_nic_lock"), Exit("s_nic_lock"),
          Run("sfxge_mcdi_release")>>)
sfxge_mcdi_ioctl ==
  Fn(<<Ask(2), Get("mcdi_out"), Run("sfxge_mcdi_execute"), Put("mcdi_out")>>, Empty(3))
sfxge_mcdi2_ioctl ==
  Fn(<<Ask(2), Get("mcdi_out"), Run("sfxge_mcdi_execute"), Put("mcdi_out")>>, Empty(3))

sfxge_bar_ioctl == Plain(<<Ask(End), Ask(End)>>)
sfxge_pci_ioctl == Plain(<<>>)

(* Packets sent to oneself: those that arrived are counted, or some sent.  *)
sfxge_rx_qloopback == Plain(<<Enter("se_lock"), Need("s_srp"), Exit("se_lock")>>)
sfxge_rx_loopback == Plain(<<All("sfxge_rx_qloopback")>>)
sfxge_rx_ioctl == Fn(<<Ask(1), Run("sfxge_rx_loopback")>>, Empty(1))
sfxge_tx_loopback ==
  Fn(<<Ask(1), Run("sfxge_mac_unicst_get"), May("sfxge_mac_unicst_get", 2), Try("loop_mp", 3),
       Ask(4), Ask(5), Put("loop_mp")>>,
     <<<<>>, <<Put("loop_mp")>>, <<>>, <<>>, <<>>>>)
sfxge_tx_ioctl == Fn(<<Do("sfxge_tx_loopback", 1)>>, Empty(1))

(* The command SFXGE_NIC_RESET_IOC is the dispatch of a restart.           *)
ioc_cmd ==
  Plain(<<Case("sfxge_start_locked", ""), Case("sfxge_stop_locked", ""),
          Case("sfxge_tx_ioctl", ""), Case("sfxge_rx_ioctl", ""), Case("sfxge_bar_ioctl", ""),
          Case("sfxge_pci_ioctl", ""), Case("sfxge_mac_ioctl", ""),
          Case("sfxge_phy_ioctl", ""), Case("sfxge_phy_bist_ioctl", ""),
          Case("sfxge_sram_ioctl", ""), Case("sfxge_nvram_ioctl", ""),
          Case("sfxge_mcdi_ioctl", ""), Case("sfxge_mcdi2_ioctl", ""), Do("sfxge_vpd_ioctl", End)>>)
sfxge_ioctl ==
  Fn(<<Enter("s_state_lock"), Ask(3), Do("ioc_cmd", 4), Exit("s_state_lock")>>,
     <<<<>>, <<>>, <<>>, <<Exit("s_state_lock")>>>>)

(***************************************************************************)
(* Statistics and scaling.  The framework enters the lock of a kstat.      *)
(***************************************************************************)
efx_mac_stats_update == Plain(<<Need("EFX_MOD_PORT"), Ask(End)>>)
sfxge_mac_kstat_update ==
  Plain(<<Holds("mac_lock"), DoneUnless("SFXGE_MAC_STARTED"), Run("efx_mac_stats_update")>>)
efx_phy_stats_update == Plain(<<Need("EFX_MOD_PORT"), DoneIf("ef10"), Mcdi(End)>>)
sfxge_phy_kstat_update ==
  Fn(<<Holds("mac_lock"), DoneUnless("SFXGE_MAC_STARTED"), Do("efx_phy_stats_update", 2)>>, Empty(2))
efx_mon_stats_update == Plain(<<Need("EFX_MOD_MON"), Mcdi(End)>>)
sfxge_mon_kstat_update ==
  Fn(<<Holds("mon_lock"), DoneUnless("SFXGE_MON_STARTED"), Do("efx_mon_stats_update", 2)>>, Empty(2))
sfxge_rx_scale_kstat_update ==
  Fn(<<Holds("srs_lock"), Ask(1), Try("freq", 2), Put("freq")>>, Empty(2))
kstat_read_queue ==
  Plain(<<Enter("se_lock"), Exit("se_lock"), Enter("st_lock"), Exit("st_lock")>>)
kstat_read ==
  Plain(<<All("kstat_read_queue"), Enter("mac_lock"), Run("sfxge_mac_kstat_update"),
          Run("sfxge_phy_kstat_update"), Exit("mac_lock"), Enter("mon_lock"), Run("sfxge_mon_kstat_update"), Exit("mon_lock"),
          Enter("srs_lock"), Run("sfxge_rx_scale_kstat_update"), Exit("srs_lock")>>)

efx_rx_scale_tbl_set == Fn(<<Need("EFX_MOD_RX"), Ef10Mcdi(1)>>, Empty(1))
sfxge_rx_scale_update ==
  Fn(<<Enter("srs_lock"), Unless("SFXGE_RX_SCALE_STARTED", 1), Try("tbl", 2), Try("rating", 3),
       Enter("cpu_lock"), Exit("cpu_lock"), Run("efx_rx_scale_tbl_set"), Exit("srs_lock"),
       Put("rating"), Put("tbl")>>,
     <<<<Put("tbl")>>, <<>>, <<Exit("srs_lock")>>>>)

SienaStore ==
  [envo_type_to_partn |-> "siena_nvram_type_to_partn", envo_partn_size |-> "siena_nvram_partn_size",
   envo_partn_rw_start |-> "siena_nvram_partn_rw_start", envo_partn_read |-> "siena_nvram_partn_read",
   envo_partn_erase |-> "siena_nvram_partn_erase", envo_partn_write |-> "siena_nvram_partn_write",
   envo_partn_rw_finish |-> "siena_nvram_partn_rw_finish",
   envo_partn_get_version |-> "siena_nvram_partn_get_version",
   envo_partn_set_version |-> "siena_nvram_partn_set_version"]
Ef10Store ==
  [envo_type_to_partn |-> "ef10_nvram_type_to_partn", envo_partn_size |-> "ef10_nvram_partn_size",
   envo_partn_rw_start |-> "ef10_nvram_partn_rw_start", envo_partn_read |-> "ef10_nvram_partn_read",
   envo_partn_erase |-> "ef10_nvram_partn_erase", envo_partn_write |-> "ef10_nvram_partn_write",
   envo_partn_rw_finish |-> "ef10_nvram_partn_rw_finish",
   envo_partn_get_version |-> "ef10_nvram_partn_get_version",
   envo_partn_set_version |-> "ef10_nvram_partn_set_version"]
SienaVpd ==
  [evpdo_size |-> "siena_vpd_size", evpdo_read |-> "siena_vpd_read",
   evpdo_verify |-> "siena_vpd_verify", evpdo_reinit |-> "siena_vpd_reinit",
   evpdo_get |-> "siena_vpd_get", evpdo_set |-> "siena_vpd_set", evpdo_write |-> "siena_vpd_write"]
Ef10Vpd ==
  [evpdo_size |-> "ef10_vpd_size", evpdo_read |-> "ef10_vpd_read",
   evpdo_verify |-> "ef10_vpd_verify", evpdo_reinit |-> "ef10_vpd_reinit",
   evpdo_get |-> "ef10_vpd_get", evpdo_set |-> "ef10_vpd_set", evpdo_write |-> "ef10_vpd_write"]
=============================================================================
