---------------------------- MODULE InitDriver ------------------------------
(***************************************************************************)
(* The functions of the driver (sfxge) that bring it up and down, written  *)
(* with the words of InitSteps.                                            *)
(***************************************************************************)
EXTENDS InitNic

(***************************************************************************)
(* DMA buffers, the configuration space and the BAR.                       *)
(***************************************************************************)
sfxge_dma_buffer_create ==
  Fn(<<Try("esm_dma_handle", 1), Try("esm_acc_handle", 2), Try("esm_bound", 3)>>,
     <<<<Put("esm_acc_handle")>>, <<Put("esm_dma_handle")>>, <<>>>>)
sfxge_dma_buffer_destroy ==
  Plain(<<Put("esm_bound"), Put("esm_acc_handle"), Put("esm_dma_handle")>>)

sfxge_pci_init ==
  Fn(<<Ask(1), Try("s_pci_handle", 1), Ask(2), Ask(3)>>,
     <<<<>>, <<Put("s_pci_handle")>>, <<>>>>)
sfxge_pci_fini == Plain(<<Put("s_pci_handle")>>)
sfxge_bar_init == Plain(<<Try("esb_handle", End), Get("esb_lock")>>)
sfxge_bar_fini == Plain(<<Put("esb_handle"), Put("esb_lock")>>)

(***************************************************************************)
(* The transport of requests.                                              *)
(***************************************************************************)
sfxge_mcdi_init ==
  Fn(<<Lacks("SFXGE_MCDI_INITIALIZED"), DoOn("sfxge_dma_buffer_create", "mcdi", 1),
       Get("mcdi_lock"), Get("SFXGE_MCDI_INITIALIZED"), Get("mcdi_kv"), Do("efx_mcdi_init", 2)>>,
     <<<<Put("mcdi_kv"), Put("mcdi_lock"), RunOn("sfxge_dma_buffer_destroy", "mcdi"),
         Put("SFXGE_MCDI_INITIALIZED")>>, <<>>>>)
sfxge_mcdi_fini ==
  Plain(<<Enter("mcdi_lock"), Need("SFXGE_MCDI_INITIALIZED"), Run("efx_mcdi_fini"), Put("mcdi_kv"),
          Exit("mcdi_lock"), RunOn("sfxge_dma_buffer_destroy", "mcdi"), Put("mcdi_lock"),
          Put("SFXGE_MCDI_INITIALIZED")>>)

(***************************************************************************)
(* The buffer table: ss_id is a range of it, ss_count one that is set.     *)
(***************************************************************************)
sfxge_sram_init ==
  Plain(<<Lacks("SFXGE_SRAM_INITIALIZED"), Get("ss_lock"), Get("ss_buf_tbl"),
          Get("SFXGE_SRAM_INITIALIZED")>>)
sfxge_sram_fini ==
  Plain(<<Put("ss_buf_tbl"), Put("ss_lock"), Put("SFXGE_SRAM_INITIALIZED")>>)
sfxge_sram_start ==
  Plain(<<Enter("ss_lock"), LacksAny("ss_count"),
          Move("SFXGE_SRAM_INITIALIZED", "SFXGE_SRAM_STARTED"), Exit("ss_lock")>>)
sfxge_sram_stop ==
  Plain(<<Enter("ss_lock"), LacksAny("ss_count"),
          Move("SFXGE_SRAM_STARTED", "SFXGE_SRAM_INITIALIZED"), Exit("ss_lock")>>)
sfxge_sram_buf_tbl_alloc ==
  Fn(<<Enter("ss_lock"), Need("ss_buf_tbl"), Try("ss_id", 1), Exit("ss_lock")>>,
     <<<<Exit("ss_lock")>>>>)
sfxge_sram_buf_tbl_free ==
  Plain(<<Enter("ss_lock"), Need("ss_buf_tbl"), Put("ss_id"), Exit("ss_lock")>>)
sfxge_sram_buf_tbl_set ==
  Fn(<<Enter("ss_lock"), Need("SFXGE_SRAM_STARTED"), Need("ss_id"), Do("efx_sram_buf_tbl_set", 1),
       Get("ss_count"), Exit("ss_lock")>>,
     <<<<Exit("ss_lock")>>>>)
sfxge_sram_buf_tbl_clear ==
  Plain(<<Enter("ss_lock"), Need("SFXGE_SRAM_STARTED"), Put("ss_count"),
          Run("efx_sram_buf_tbl_clear"), Exit("ss_lock")>>)

(***************************************************************************)
(* The sensors.                                                            *)
(***************************************************************************)
sfxge_mon_kstat_init ==
  Fn(<<Try("mon_statbuf", 1), Try("mon_ksp", 2)>>, <<<<Put("mon_statbuf")>>, <<>>>>)
sfxge_mon_kstat_fini == Plain(<<Put("mon_ksp"), Put("mon_statbuf")>>)
sfxge_mon_init ==
  Fn(<<Lacks("SFXGE_MON_INITIALIZED"), Get("mon_lock"), DoOn("sfxge_dma_buffer_create", "mon", 1),
       Get("SFXGE_MON_INITIALIZED"), Do("sfxge_mon_kstat_init", 2)>>,
     <<<<RunOn("sfxge_dma_buffer_destroy", "mon")>>, <<Put("mon_lock")>>>>)
sfxge_mon_fini ==
  Plain(<<Need("SFXGE_MON_INITIALIZED"), Run("sfxge_mon_kstat_fini"), Put("SFXGE_MON_INITIALIZED"),
          Put("mon_lock"), RunOn("sfxge_dma_buffer_destroy", "mon")>>)
sfxge_mon_start ==
  Fn(<<Enter("mon_lock"), Need("SFXGE_MON_INITIALIZED"), Do("efx_mon_init", 1),
       Move("SFXGE_MON_INITIALIZED", "SFXGE_MON_STARTED"), Exit("mon_lock")>>,
     <<<<Exit("mon_lock")>>>>)
sfxge_mon_stop ==
  Plain(<<Enter("mon_lock"), Move("SFXGE_MON_STARTED", "SFXGE_MON_INITIALIZED"),
          Run("efx_mon_fini"), Exit("mon_lock")>>)

(***************************************************************************)
(* Interrupts: a vector for each queue.  The bus enables them one by one,  *)
(* or in a block.                                                          *)
(***************************************************************************)
sfxge_intr_init ==
  Fn(<<Lacks("SFXGE_INTR_INITIALIZED"), Ask(1), Ask(2), Get("si_table"),
       Enter("sfxge_global_lock"), Opt("intr_handles", 0), Exit("sfxge_global_lock"),
       Unless("intr_handles", 3), Enter("sfxge_global_lock"), Exit("sfxge_global_lock"),
       DoOn("sfxge_dma_buffer_create", "intr", 4), Ask(5), Get("SFXGE_INTR_INITIALIZED")>>,
     <<<<>>, <<Exit("sfxge_global_lock"), Put("intr_handles"), Exit("sfxge_global_lock")>>,
       <<Put("si_table")>>, <<>>, <<>>>>)
sfxge_intr_fini ==
  Plain(<<Put("SFXGE_INTR_INITIALIZED"), RunOn("sfxge_dma_buffer_destroy", "intr"),
          Enter("sfxge_global_lock"), Put("intr_handles"), Exit("sfxge_global_lock"),
          Put("si_table")>>)
ddi_intr_add_handler == Plain(<<Try("intr_handler", End)>>)
ddi_intr_remove_handler == Plain(<<Put("intr_handler")>>)
ddi_intr_enable == Plain(<<Try("intr_enabled", End)>>)
ddi_intr_disable == Plain(<<Put("intr_enabled")>>)
EnableBlock == Plain(<<DoneUnless("si_cap"), Try("block_enabled", End)>>)
EnableEach ==
  Fn(<<DoneIf("si_cap"), Each("ddi_intr_enable", 1)>>, <<<<Undo("ddi_intr_disable")>>>>)
DisableBlock == Plain(<<DoneUnless("si_cap"), Put("block_enabled")>>)
DisableEach == Plain(<<DoneIf("si_cap"), All("ddi_intr_disable")>>)
sfxge_intr_bus_enable ==
  Fn(<<Enter("sfxge_global_lock"), Each("ddi_intr_add_handler", 2), Drop("si_cap"), Opt("si_cap", 3),
       Do("EnableBlock", 4), Do("EnableEach", 4), Exit("sfxge_global_lock")>>,
     <<<<>>, <<>>, <<Undo("ddi_intr_remove_handler")>>, <<Exit("sfxge_global_lock")>>>>)
sfxge_intr_bus_disable ==
  Plain(<<Enter("sfxge_global_lock"), Run("DisableBlock"), Run("DisableEach"), Drop("si_cap"),
          All("ddi_intr_remove_handler"), Exit("sfxge_global_lock")>>)
sfxge_intr_nic_enable ==
  Fn(<<Do("efx_intr_init", 1), DoneIf("ef10"), Ask(2)>>, <<<<Run("efx_intr_fini")>>, <<>>>>)
sfxge_intr_nic_disable == Plain(<<Run("efx_intr_fini")>>)
sfxge_intr_start ==
  Fn(<<Need("SFXGE_INTR_INITIALIZED"), Do("sfxge_intr_bus_enable", 1),
       Move("SFXGE_INTR_INITIALIZED", "SFXGE_INTR_TESTING"), Do("sfxge_intr_nic_enable", 2),
       Move("SFXGE_INTR_TESTING", "SFXGE_INTR_STARTED")>>,
     <<<<Run("sfxge_intr_bus_disable"), Move("SFXGE_INTR_TESTING", "SFXGE_INTR_INITIALIZED")>>,
       <<>>>>)
sfxge_intr_stop ==
  Plain(<<Move("SFXGE_INTR_STARTED", "SFXGE_INTR_INITIALIZED"), Run("sfxge_intr_nic_disable"),
          Run("sfxge_intr_bus_disable")>>)

(***************************************************************************)
(* Event queues.  kmem_cache_alloc is the constructor of the object, and   *)
(* kmem_cache_free its destructor.                                         *)
(***************************************************************************)
_sfxge_ev_qctor ==
  Fn(<<DoOn("sfxge_dma_buffer_create", "se", 1), DoOn("sfxge_sram_buf_tbl_alloc", "se", 2)>>,
     <<<<RunOn("sfxge_dma_buffer_destroy", "se")>>, <<>>>>)
_sfxge_ev_qdtor ==
  Plain(<<RunOn("sfxge_sram_buf_tbl_free", "se"), RunOn("sfxge_dma_buffer_destroy", "se")>>)
sfxge_ev_kstat_init == Plain(<<Try("se_ksp", End)>>)
sfxge_ev_kstat_fini == Plain(<<Put("se_ksp")>>)
sfxge_ev_qinit ==
  Fn(<<Need("s_eqc"), Do("_sfxge_ev_qctor", 1), Get("se_lock"), Get("se_init_kv"),
       Do("sfxge_ev_kstat_init", 2), Get("SFXGE_EVQ_INITIALIZED")>>,
     <<<<Put("se_init_kv"), Put("se_lock"), Run("_sfxge_ev_qdtor")>>, <<>>>>)
sfxge_ev_qfini ==
  Plain(<<Put("SFXGE_EVQ_INITIALIZED"), Run("sfxge_ev_kstat_fini"), Put("se_init_kv"),
          Put("se_lock"), Run("_sfxge_ev_qdtor")>>)
sfxge_ev_init ==
  Fn(<<Need("SFXGE_INTR_INITIALIZED"), Ask(1), Get("s_eqc"), Each("sfxge_ev_qinit", 2)>>,
     <<<<Undo("sfxge_ev_qfini")>>, <<Put("s_eqc")>>>>)
sfxge_ev_fini ==
  Plain(<<Need("SFXGE_INTR_INITIALIZED"), All("sfxge_ev_qfini"), Put("s_eqc")>>)
sfxge_ev_qstart ==
  Fn(<<Enter("se_lock"), Need("SFXGE_EVQ_INITIALIZED"), DoOn("sfxge_sram_buf_tbl_set", "se", 1),
       Do("efx_ev_qcreate", 2), Ask(3), Unless("SFXGE_INTR_STARTED", 4),
       Move("SFXGE_EVQ_INITIALIZED", "SFXGE_EVQ_STARTING"), Ask(5),
       Move("SFXGE_EVQ_STARTING", "SFXGE_EVQ_STARTED"), Exit("se_lock")>>,
     <<<<Move("SFXGE_EVQ_STARTING", "SFXGE_EVQ_INITIALIZED")>>, <<>>, <<Run("efx_ev_qdestroy")>>,
       <<RunOn("sfxge_sram_buf_tbl_clear", "se")>>, <<Exit("se_lock")>>>>)
sfxge_ev_qstop ==
  Plain(<<Enter("se_lock"), Move("SFXGE_EVQ_STARTED", "SFXGE_EVQ_INITIALIZED"),
          Run("efx_ev_qdestroy"), Exit("se_lock"), RunOn("sfxge_sram_buf_tbl_clear", "se")>>)
sfxge_ev_start ==
  Fn(<<Need("SFXGE_INTR_STARTED"), Do("efx_ev_init", 1), Each("sfxge_ev_qstart", 2)>>,
     <<<<Undo("sfxge_ev_qstop"), Run("efx_ev_fini")>>, <<>>>>)
sfxge_ev_stop ==
  Plain(<<Need("SFXGE_INTR_STARTED"), All("sfxge_ev_qstop"), Run("efx_ev_fini")>>)

(***************************************************************************)
(* The MAC and the PHY.  sfxge_mac_poll runs from the start to the stop of *)
(* the MAC, and the controller writes statistics to its buffer.            *)
(***************************************************************************)
sfxge_phy_kstat_init ==
  Fn(<<Try("sp_statbuf", 1), Try("sp_ksp", 2)>>, <<<<Put("sp_statbuf")>>, <<>>>>)
sfxge_phy_kstat_fini == Plain(<<Put("sp_ksp"), Put("sp_statbuf")>>)
sfxge_phy_init == Plain(<<DoOn("sfxge_dma_buffer_create", "phy", End)>>)
sfxge_phy_fini == Plain(<<RunOn("sfxge_dma_buffer_destroy", "phy")>>)
sfxge_mac_kstat_init == Plain(<<Try("mac_ksp", End)>>)
sfxge_mac_kstat_fini == Plain(<<Put("mac_ksp")>>)
(* Mutant: the buffer of the statistics is left. *)
sfxge_mac_initMut ==
  Fn(<<Lacks("SFXGE_MAC_INITIALIZED"), Get("mac_lock"), Get("sm_link_poll_kv"), Try("mac_tqp", 1),
       Do("sfxge_phy_init", 2), DoOn("sfxge_dma_buffer_create", "mac", 3),
       Do("sfxge_mac_kstat_init", 3), Do("sfxge_phy_kstat_init", 5), Get("SFXGE_MAC_INITIALIZED")>>,
     <<<<Run("sfxge_mac_kstat_fini")>>, <<RunOn("sfxge_dma_buffer_destroy", "mac")>>,
       <<Run("sfxge_phy_fini")>>, <<Put("mac_tqp")>>, <<Put("sm_link_poll_kv"), Put("mac_lock")>>>>)
sfxge_mac_init ==
  Fn(<<Lacks("SFXGE_MAC_INITIALIZED"), Get("mac_lock"), Get("sm_link_poll_kv"), Try("mac_tqp", 1),
       Do("sfxge_phy_init", 2), DoOn("sfxge_dma_buffer_create", "mac", 3),
       Do("sfxge_mac_kstat_init", 4), Do("sfxge_phy_kstat_init", 5), Get("SFXGE_MAC_INITIALIZED")>>,
     <<<<Run("sfxge_mac_kstat_fini")>>, <<RunOn("sfxge_dma_buffer_destroy", "mac")>>,
       <<Run("sfxge_phy_fini")>>, <<Put("mac_tqp")>>, <<Put("sm_link_poll_kv"), Put("mac_lock")>>>>)
sfxge_mac_fini ==
  Plain(<<Need("SFXGE_MAC_INITIALIZED"), Run("sfxge_phy_kstat_fini"), Run("sfxge_mac_kstat_fini"),
          Put("SFXGE_MAC_INITIALIZED"), Run("sfxge_phy_fini"),
          RunOn("sfxge_dma_buffer_destroy", "mac"), Put("mac_tqp"), Put("mac_lock")>>)
sfxge_mac_poll_start ==
  Plain(<<Holds("mac_lock"), Need("SFXGE_MAC_STARTED"), Get("sfxge_mac_poll")>>)
sfxge_mac_poll_stop ==
  Plain(<<Holds("mac_lock"), Need("SFXGE_MAC_INITIALIZED"), Exit("mac_lock"),
          Put("sfxge_mac_poll"), Enter("mac_lock")>>)
sfxge_mac_start ==
  Fn(<<Enter("mac_lock"), Need("SFXGE_MAC_INITIALIZED"), Do("efx_port_init", 1), Mcdi(2), Mcdi(3),
       Mcdi(4), Mcdi(5), Mcdi(6), Try("mac_stats", 7), Mcdi(8),
       Move("SFXGE_MAC_INITIALIZED", "SFXGE_MAC_STARTED"), Run("sfxge_mac_poll_start"),
       Exit("mac_lock")>>,
     <<<<Put("mac_stats")>>, <<>>, <<>>, <<>>, <<>>, <<>>, <<Run("efx_port_fini")>>,
       <<Exit("mac_lock")>>>>)
sfxge_mac_stop ==
  Plain(<<Enter("mac_lock"), Move("SFXGE_MAC_STARTED", "SFXGE_MAC_INITIALIZED"), Put("mac_stats"),
          Run("sfxge_mac_poll_stop"), Run("efx_port_fini"), Exit("mac_lock")>>)
sfxge_mac_unicst_get ==
  Fn(<<Enter("mac_lock"), Unless("SFXGE_MAC_INITIALIZED", 2), Exit("mac_lock")>>,
     <<<<Exit("mac_lock")>>, <<>>>>)

(***************************************************************************)
(* Registration with the GLDv3 framework.                                  *)
(***************************************************************************)
sfxge_gld_nd_register ==
  Fn(<<Lacks("s_ndh"), Try("s_ndp", 1), Get("s_ndh"), Try("s_nd_ksp", 2)>>,
     <<<<Put("s_ndh"), Put("s_ndp")>>, <<>>>>)
sfxge_gld_nd_unregister == Plain(<<Put("s_nd_ksp"), Put("s_ndh"), Put("s_ndp")>>)
sfxge_gld_priv_prop_init == Plain(<<Get("s_mac_priv_props")>>)
sfxge_gld_priv_prop_fini == Plain(<<Put("s_mac_priv_props")>>)
sfxge_gld_register ==
  Fn(<<Do("sfxge_gld_nd_register", End), Try("mrp", 1), Get("m_src_addr"),
       Do("sfxge_mac_unicst_get", 2), Run("sfxge_gld_priv_prop_init"), Try("s_mh", 3),
       Put("m_src_addr"), Put("mrp")>>,
     <<<<>>, <<Put("m_src_addr"), Put("mrp"), Run("sfxge_gld_priv_prop_fini")>>,
       <<Run("sfxge_gld_nd_unregister")>>>>)
sfxge_gld_unregister ==
  Plain(<<Ask(End), Put("s_mh"), Run("sfxge_gld_priv_prop_fini"), Run("sfxge_gld_nd_unregister")>>)

=============================================================================
