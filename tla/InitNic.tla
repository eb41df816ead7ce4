------------------------------ MODULE InitNic -------------------------------
(***************************************************************************)
(* The functions of the common code (efx, siena and ef10) that set the NIC *)
(* up and take it down.                                                    *)
(*                                                                         *)
(* A module of the NIC's handle stands for its flag in en_mod_flags.  A    *)
(* function of the controller's family goes by its name in the table of    *)
(* operations (eno_init, erxo_fini ...).  A request of the firmware that   *)
(* leaves nothing behind is an Mcdi, one that takes something from the     *)
(* firmware a Try or an Opt of it: see Firmware in InitPaths.              *)
(***************************************************************************)
EXTENDS InitSteps

LacksAll(modules) == [i \in 1..Len(modules) |-> Lacks(modules[i])]
Queues == <<"EFX_MOD_INTR", "EFX_MOD_EV", "EFX_MOD_RX", "EFX_MOD_TX">>
NotMcdi ==
  Queues \o <<"EFX_MOD_PROBE", "EFX_MOD_NVRAM", "EFX_MOD_VPD", "EFX_MOD_MON", "EFX_MOD_NIC",
              "EFX_MOD_PORT", "EFX_MOD_FILTER">>
Modules == NotMcdi \o <<"EFX_MOD_MCDI">>

(***************************************************************************)
(* The handle, the transport and the NIC itself.                           *)
(***************************************************************************)
efx_nic_create == Plain(<<Try("efx_nic", End)>>)
efx_nic_destroy == Plain(LacksAll(Modules) \o <<Put("efx_nic")>>)

efx_mcdi_new_epoch == Plain(<<Enter("s_nic_lock"), Exit("s_nic_lock")>>)
siena_mcdi_init == Plain(<<Ask(End)>>)
siena_mcdi_fini == Plain(<<>>)
ef10_mcdi_init == Plain(<<Ask(End), Run("efx_mcdi_new_epoch")>>)
ef10_mcdi_fini == Plain(<<>>)
efx_mcdi_init ==
  Plain(LacksAll(Modules) \o <<Ask(End), Do("emco_init", End), Get("EFX_MOD_MCDI")>>)
efx_mcdi_fini ==
  Plain(LacksAll(NotMcdi) \o <<Run("emco_fini"), Put("EFX_MOD_MCDI")>>)

efx_phy_probe == Plain(<<Get("epop")>>)
efx_phy_unprobe == Plain(<<Put("epop")>>)
mcdi_mon_cfg_build ==
  Fn(<<Mcdi(2), Try("sensor_mask", 3), Mcdi(4)>>, <<<<Put("sensor_mask")>>>> \o Empty(3))
mcdi_mon_cfg_free == Plain(<<Drop("sensor_mask")>>)

(* efx_mcdi_drv_attach(B_TRUE) makes the driver known to the controller.   *)
siena_nic_probe ==
  Plain(<<Ask(End), Mcdi(End), Mcdi(End), Try("drv_attach", End), Do("siena_board_cfg", End),
          Mcdi(End), Run("siena_nic_reset"), Mcdi(End), Mcdi(End), Mcdi(End), Mcdi(End),
          Do("mcdi_mon_cfg_build", End)>>)
siena_board_cfg == Plain(<<Mcdi(End), Mcdi(End)>>)
siena_nic_unprobe == Plain(<<Run("mcdi_mon_cfg_free"), Put("drv_attach")>>)
(* It returns 0 whatever the controller answers. *)
siena_nic_reset == Plain(<<Mcdi(0)>>)
siena_nic_init == Plain(<<Mcdi(End), Mcdi(End)>>)
siena_nic_fini == Plain(<<>>)

ef10_nic_probe ==
  Plain(<<Mcdi(End), Mcdi(End), Try("drv_attach", End), Allow("hunt_board_cfg", End),
          Mcdi(End), Mcdi(End), Allow("mcdi_mon_cfg_build", End)>>)
hunt_board_cfg == Plain([i \in 1..14 |-> IF i = 2 THEN Ask(End) ELSE Mcdi(End)])
ef10_nic_unprobe == Plain(<<Run("mcdi_mon_cfg_free"), Put("drv_attach")>>)
(* A reset of the function gives its resources back to the controller. *)
ef10_nic_reset ==
  Plain(<<Mcdi(End), Mcdi(End), Mcdi(End),
          Drop("vis"), Drop("piobufs"), Drop("vadaptor"), Drop("rss_context")>>)
ef10_nic_alloc_piobufs == Plain(<<Opt("piobufs", 0)>>)
ef10_nic_free_piobufs == Plain(<<Drop("piobufs")>>)
ef10_nic_init ==
  Fn(<<Mcdi(1), Run("ef10_nic_alloc_piobufs"), Mcdi(2), Drop("vis"), Try("vis", 3), Ask(4),
       Try("vadaptor", 5)>>,
     <<<<>>, <<>>, <<>>, <<>>, <<Run("ef10_nic_free_piobufs")>>, <<>>>>)
ef10_nic_fini ==
  Plain(<<Put("vadaptor"), Run("ef10_nic_free_piobufs"), Put("vis")>>)

efx_nic_probe ==
  Fn(<<Need("EFX_MOD_MCDI"), Lacks("EFX_MOD_PROBE"), Do("eno_probe", 1), Do("efx_phy_probe", 2),
       Get("EFX_MOD_PROBE")>>,
     <<<<Run("eno_unprobe")>>, <<>>>>)
efx_nic_unprobe ==
  Plain(<<Need("EFX_MOD_MCDI"), Need("EFX_MOD_PROBE")>> \o LacksAll(Queues \o <<"EFX_MOD_NIC">>)
        \o <<Run("efx_phy_unprobe"), Run("eno_unprobe"), Put("EFX_MOD_PROBE")>>)
efx_nic_init ==
  Plain(<<Need("EFX_MOD_PROBE"), If("EFX_MOD_NIC", End), Do("eno_init", End), Get("EFX_MOD_NIC")>>)
efx_nic_fini ==
  Plain(<<Need("EFX_MOD_PROBE"), Need("EFX_MOD_NIC")>> \o LacksAll(Queues)
        \o <<Run("eno_fini"), Put("EFX_MOD_NIC")>>)
efx_nic_reset ==
  Plain(<<Need("EFX_MOD_PROBE")>>
        \o LacksAll(Queues \o <<"EFX_MOD_NIC", "EFX_MOD_PORT", "EFX_MOD_FILTER">>)
        \o <<Do("eno_reset", End)>>)

(***************************************************************************)
(* The modules of the handle that the probe makes room for.                *)
(***************************************************************************)
efx_nvram_init ==
  Plain(<<Need("EFX_MOD_PROBE"), Lacks("EFX_MOD_NVRAM"), Get("EFX_MOD_NVRAM")>>)
efx_nvram_fini ==
  Plain(<<Need("EFX_MOD_PROBE"), Need("EFX_MOD_NVRAM"), Put("EFX_MOD_NVRAM")>>)

(* The static VPD is read, or there is none to be read; on an EF10         *)
(* controller it may be one that this function has no access to.           *)
siena_vpd_init ==
  Fn(<<Do("siena_vpd_get_static", 1), Ask(2)>>, <<<<Drop("svpd")>>, <<>>>>)
siena_vpd_fini == Plain(<<Drop("svpd")>>)
ef10_vpd_init ==
  Fn(<<Need("EFX_MOD_PROBE"), Allow("ef10_nvram_partn_read_tlv", 1), Pass("tlv_data", "svpd"),
       Ask(2)>>,
     <<<<Drop("svpd")>>, <<>>>>)
ef10_vpd_fini == Plain(<<Drop("svpd")>>)
efx_vpd_init ==
  Plain(<<Need("EFX_MOD_PROBE"), Lacks("EFX_MOD_VPD"), Do("evpdo_init", End), Get("EFX_MOD_VPD")>>)
efx_vpd_fini ==
  Plain(<<Need("EFX_MOD_PROBE"), Need("EFX_MOD_VPD"), Run("evpdo_fini"), Put("EFX_MOD_VPD")>>)

efx_mon_init ==
  Plain(<<Need("EFX_MOD_PROBE"), If("EFX_MOD_MON", End), Get("EFX_MOD_MON")>>)
efx_mon_fini ==
  Plain(<<Need("EFX_MOD_PROBE"), Need("EFX_MOD_MON"), Put("EFX_MOD_MON")>>)

(***************************************************************************)
(* The modules that stand while the NIC is initialised.                    *)
(***************************************************************************)
siena_filter_init ==
  Fn(<<Try("filter_table", 1), Try("sft_bitmap", 3), Try("sft_spec", 4)>>,
     <<<<>>, <<>>, <<Run("siena_filter_fini")>>, <<>>>>)
siena_filter_fini ==
  Plain(<<Need("EFX_MOD_PROBE"), Drop("sft_bitmap"), Drop("sft_spec"), Put("filter_table")>>)
ef10_filter_init == Plain(<<Try("filter_table", End)>>)
ef10_filter_fini == Plain(<<Put("filter_table")>>)
efx_filter_init ==
  Fn(<<Need("EFX_MOD_PROBE"), Lacks("EFX_MOD_FILTER"), Do("efo_init", 2), Get("EFX_MOD_FILTER")>>,
     <<<<>>, <<Drop("EFX_MOD_FILTER")>>>>)
efx_filter_fini ==
  Plain(<<Need("EFX_MOD_PROBE"), Need("EFX_MOD_FILTER"), Run("efo_fini"), Put("EFX_MOD_FILTER")>>)

efx_intr_init ==
  Plain(<<Need("EFX_MOD_NIC"), If("EFX_MOD_INTR", End), Get("EFX_MOD_INTR")>>)
efx_intr_fini ==
  Plain(<<Need("EFX_MOD_NIC"), Need("EFX_MOD_INTR"), Put("EFX_MOD_INTR")>>)

efx_ev_init ==
  Fn(<<Need("EFX_MOD_INTR"), If("EFX_MOD_EV", 1), LacksAny("efx_evq"), Get("EFX_MOD_EV")>>,
     <<<<>>, <<Drop("EFX_MOD_EV")>>>>)
efx_ev_fini ==
  Plain(<<Need("EFX_MOD_INTR"), Need("EFX_MOD_EV"), Lacks("EFX_MOD_RX"), Lacks("EFX_MOD_TX"),
          LacksAny("efx_evq"), Put("EFX_MOD_EV")>>)
efx_ev_qcreate ==
  Fn(<<Need("EFX_MOD_EV"), Try("efx_evq", 1), Ef10Mcdi(2)>>, <<<<Put("efx_evq")>>, <<>>>>)
efx_ev_qdestroy == Plain(<<Need("efx_evq"), Ef10Mcdi(0), Put("efx_evq")>>)

(* Without a context of its own the function receives on one queue. *)
siena_rx_init == Plain(<<>>)
siena_rx_fini == Plain(<<>>)
ef10_rx_init == Plain(<<Opt("rss_context", 0)>>)
ef10_rx_fini == Plain(<<Drop("rss_context")>>)
efx_rx_init ==
  Fn(<<Need("EFX_MOD_NIC"), Unless("EFX_MOD_EV", 1), If("EFX_MOD_RX", 2), Do("erxo_init", 4),
       Get("EFX_MOD_RX")>>,
     Empty(3) \o <<<<Drop("EFX_MOD_RX")>>>>)
efx_rx_fini ==
  Plain(<<Need("EFX_MOD_NIC"), Need("EFX_MOD_RX"), LacksAny("efx_rxq"), Run("erxo_fini"),
          Put("EFX_MOD_RX")>>)
efx_rx_qdestroy == Plain(<<Run("erxo_qdestroy")>>)
efx_rx_qcreate ==
  Fn(<<Need("EFX_MOD_RX"), Try("efx_rxq", 1), Ef10Mcdi(2)>>, <<<<Put("efx_rxq")>>, <<>>>>)
efx_rx_qflush == Plain(<<Need("efx_rxq"), Ef10Mcdi(End)>>)
siena_rx_qdestroy == Plain(<<Need("efx_rxq"), Put("efx_rxq")>>)
ef10_rx_qdestroy == Plain(<<Need("efx_rxq"), Put("efx_rxq")>>)

efx_tx_init ==
  Fn(<<Need("EFX_MOD_NIC"), Unless("EFX_MOD_EV", 1), If("EFX_MOD_TX", 2), LacksAny("efx_txq"),
       Get("EFX_MOD_TX")>>,
     Empty(3) \o <<<<Drop("EFX_MOD_TX")>>>>)
efx_tx_fini ==
  Plain(<<Need("EFX_MOD_NIC"), Need("EFX_MOD_TX"), LacksAny("efx_txq"), Put("EFX_MOD_TX")>>)
efx_tx_qcreate ==
  Fn(<<Need("EFX_MOD_TX"), Try("efx_txq", 1), Ef10Mcdi(2)>>, <<<<Put("efx_txq")>>, <<>>>>)
efx_tx_qflush == Plain(<<Need("efx_txq"), Ef10Mcdi(End)>>)
efx_tx_qdestroy == Plain(<<Need("efx_txq"), Put("efx_txq")>>)

efx_port_init ==
  Fn(<<Need("EFX_MOD_PROBE"), Need("EFX_MOD_NIC"), If("EFX_MOD_PORT", 1), Get("EFX_MOD_PORT"),
       Ask(1), Mcdi(2), Mcdi(3)>>,
     Empty(2) \o <<<<Drop("EFX_MOD_PORT")>>>>)
efx_port_fini ==
  Plain(<<Need("EFX_MOD_PROBE"), Need("EFX_MOD_NIC"), Need("EFX_MOD_PORT"), Put("EFX_MOD_PORT")>>)

(* Entries of the buffer table, of which Huntington has none. *)
efx_sram_buf_tbl_set ==
  Fn(<<Need("EFX_MOD_NIC"), DoneIf("ef10"), Ask(1), Get("buf_tbl"), Ask(2)>>,
     <<<<>>, <<Put("buf_tbl")>>, <<>>>>)
efx_sram_buf_tbl_clear == Plain(<<Need("EFX_MOD_NIC"), DoneIf("ef10"), Put("buf_tbl")>>)

(***************************************************************************)
(* The tables of operations of the two families.                           *)
(***************************************************************************)
SienaOps ==
  [emco_init |-> "siena_mcdi_init", emco_fini |-> "siena_mcdi_fini",
   eno_probe |-> "siena_nic_probe", eno_unprobe |-> "siena_nic_unprobe",
   eno_reset |-> "siena_nic_reset", eno_init |-> "siena_nic_init", eno_fini |-> "siena_nic_fini",
   evpdo_init |-> "siena_vpd_init", evpdo_fini |-> "siena_vpd_fini",
   efo_init |-> "siena_filter_init", efo_fini |-> "siena_filter_fini",
   erxo_init |-> "siena_rx_init", erxo_fini |-> "siena_rx_fini",
   erxo_qdestroy |-> "siena_rx_qdestroy"]
Ef10Ops ==
  [emco_init |-> "ef10_mcdi_init", emco_fini |-> "ef10_mcdi_fini",
   eno_probe |-> "ef10_nic_probe", eno_unprobe |-> "ef10_nic_unprobe",
   eno_reset |-> "ef10_nic_reset", eno_init |-> "ef10_nic_init", eno_fini |-> "ef10_nic_fini",
   evpdo_init |-> "ef10_vpd_init", evpdo_fini |-> "ef10_vpd_fini",
   efo_init |-> "ef10_filter_init", efo_fini |-> "ef10_filter_fini",
   erxo_init |-> "ef10_rx_init", erxo_fini |-> "ef10_rx_fini",
   erxo_qdestroy |-> "ef10_rx_qdestroy"]
=============================================================================
