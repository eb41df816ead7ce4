---------------------------- MODULE InitQueues ------------------------------
(***************************************************************************)
(* The queues of sfxge_rx.c and sfxge_tx.c and the life cycle of sfxge.c,  *)
(* written with the words of InitSteps.                                    *)
(*                                                                         *)
(* A receive queue keeps the packets it was made with, of which one is     *)
(* modelled; those it adds while it is started are RxQueue's.              *)
(***************************************************************************)
EXTENDS InitDriver

(***************************************************************************)
(* Received packets.                                                       *)
(***************************************************************************)
sfxge_rx_packet_ctor == Fn(<<Try("srp_dma_handle", 1)>>, Empty(1))
sfxge_rx_packet_dtor == Plain(<<Put("srp_dma_handle")>>)
sfxge_rx_qpacket_create ==
  Fn(<<Do("sfxge_rx_packet_ctor", 1), Try("srp_acc_handle", 2), Try("srp_bound", 3),
       Try("srp_mp", 4)>>,
     <<<<Put("srp_bound")>>, <<Put("srp_acc_handle")>>, <<Run("sfxge_rx_packet_dtor")>>, <<>>>>)
sfxge_rx_qpacket_destroy ==
  Plain(<<Lacks("srp_mp"), Put("srp_bound"), Put("srp_acc_handle"), Run("sfxge_rx_packet_dtor")>>)
sfxge_rx_qpreallocate == Plain(<<Run("sfxge_rx_qpacket_create")>>)
(* The put lists, one for each processor, of the packets that come back.   *)
sfxge_rx_qfpp_put == Plain(<<Enter("srfpl_lock"), Exit("srfpl_lock")>>)
sfxge_rx_qfpp_swizzle ==
  Plain(<<Holds("se_lock"), Enter("srfpl_lock"), Exit("srfpl_lock")>>)
sfxge_rx_qrefill ==
  Plain(<<Holds("se_lock"), DoneUnless("SFXGE_RXQ_STARTED"), Run("sfxge_rx_qfpp_swizzle")>>)
sfxge_rx_qfpp_empty ==
  Fn(<<Enter("se_lock"), Run("sfxge_rx_qfpp_swizzle"), Lacks("loaned"), Unless("srp_mp", 1),
       Put("srp_mp"), Run("sfxge_rx_qpacket_destroy"), Exit("se_lock")>>,
     <<<<Exit("se_lock")>>>>)

(***************************************************************************)
(* Receive queues.                                                         *)
(***************************************************************************)
sfxge_rx_qctor ==
  Fn(<<DoOn("sfxge_dma_buffer_create", "sr", 1), DoOn("sfxge_sram_buf_tbl_alloc", "sr", 2),
       Try("sr_srpp", 3), Try("sr_flow", 4), Try("srfpp_putp", 5), Get("srfpl_lock"),
       Get("sr_flush_kv"), Run("sfxge_rx_qpreallocate")>>,
     <<<<Put("sr_flow")>>, <<Put("sr_srpp")>>, <<RunOn("sfxge_sram_buf_tbl_free", "sr")>>,
       <<RunOn("sfxge_dma_buffer_destroy", "sr")>>, <<>>>>)
sfxge_rx_qdtor ==
  Plain(<<Put("sr_flush_kv"), Put("srfpl_lock"), Put("srfpp_putp"), Put("sr_flow"), Put("sr_srpp"),
          RunOn("sfxge_sram_buf_tbl_free", "sr"), RunOn("sfxge_dma_buffer_destroy", "sr")>>)
sfxge_rx_kstat_init == Fn(<<Try("sr_ksp", 1)>>, Empty(1))
sfxge_rx_kstat_fini == Plain(<<Put("sr_ksp")>>)
sfxge_rx_qinit ==
  Fn(<<Need("s_rqc"), Do("sfxge_rx_qctor", 1), Lacks("SFXGE_RXQ_INITIALIZED"), Get("s_srp"),
       Do("sfxge_rx_kstat_init", 2), Get("SFXGE_RXQ_INITIALIZED")>>,
     <<<<Run("sfxge_rx_qdtor")>>, <<>>>>)
sfxge_rx_qstart ==
  Fn(<<Enter("se_lock"), Need("SFXGE_RXQ_INITIALIZED"), Need("SFXGE_EVQ_STARTED"),
       DoOn("sfxge_sram_buf_tbl_set", "sr", 1), Do("efx_rx_qcreate", 2),
       Move("SFXGE_RXQ_INITIALIZED", "SFXGE_RXQ_STARTED"), Run("sfxge_rx_qrefill"),
       Exit("se_lock")>>,
     <<<<RunOn("sfxge_sram_buf_tbl_clear", "sr")>>, <<Exit("se_lock")>>>>)
(* A packet that arrived may be freed, and the ring is filled again; when  *)
(* the queue is stopped those left in the ring are freed.                  *)
sfxge_rx_qcomplete ==
  Plain(<<Holds("se_lock"), May("sfxge_rx_qfpp_put", End), Run("sfxge_rx_qrefill")>>)
sfxge_rx_qstop ==
  Plain(<<Holds("s_state_lock"), Enter("se_lock"),
          Move("SFXGE_RXQ_STARTED", "SFXGE_RXQ_INITIALIZED"), Run("efx_rx_qflush"),
          Run("efx_rx_qdestroy"), RunOn("sfxge_sram_buf_tbl_clear", "sr"),
          Run("sfxge_rx_qcomplete"), Exit("se_lock")>>)
sfxge_rx_qfini ==
  Plain(<<Need("SFXGE_RXQ_INITIALIZED"), Put("s_srp"), Put("SFXGE_RXQ_INITIALIZED"),
          Run("sfxge_rx_kstat_fini"), Run("sfxge_rx_qfpp_empty"), Run("sfxge_rx_qdtor")>>)

(***************************************************************************)
(* The spread of the received packets over the queues.                     *)
(***************************************************************************)
sfxge_toeplitz_hash_init == Plain(<<Ef10Mcdi(End), Ef10Mcdi(End), Get("s_toeplitz_cache")>>)
sfxge_toeplitz_hash_fini == Plain(<<Drop("s_toeplitz_cache")>>)
sfxge_rx_scale_kstat_init == Fn(<<Try("srs_ksp", 1)>>, Empty(1))
sfxge_rx_scale_kstat_fini == Plain(<<Put("srs_ksp")>>)
sfxge_rx_scale_init ==
  Fn(<<Lacks("SFXGE_RX_SCALE_INITIALIZED"), Get("srs_cpu"), Get("srs_lock"),
       Do("sfxge_rx_scale_kstat_init", 1), Get("SFXGE_RX_SCALE_INITIALIZED")>>,
     <<<<Put("srs_lock")>>>>)
sfxge_rx_scale_start ==
  Fn(<<Enter("srs_lock"), Need("SFXGE_RX_SCALE_INITIALIZED"), Run("efx_rx_scale_tbl_set"),
       Do("sfxge_toeplitz_hash_init", 1),
       Move("SFXGE_RX_SCALE_INITIALIZED", "SFXGE_RX_SCALE_STARTED"), Exit("srs_lock")>>,
     <<<<Exit("srs_lock")>>>>)
sfxge_rx_scale_stop ==
  Plain(<<Enter("srs_lock"), Move("SFXGE_RX_SCALE_STARTED", "SFXGE_RX_SCALE_INITIALIZED"),
          Enter("cpu_lock"), Exit("cpu_lock"), Run("efx_rx_scale_tbl_set"), Exit("srs_lock")>>)
sfxge_rx_scale_fini ==
  Plain(<<Put("SFXGE_RX_SCALE_INITIALIZED"), Run("sfxge_rx_scale_kstat_fini"), Put("srs_lock"),
          Put("srs_cpu"), Run("sfxge_toeplitz_hash_fini")>>)

sfxge_rx_init ==
  Fn(<<Unless("SFXGE_INTR_INITIALIZED", 1), Do("sfxge_rx_scale_init", 2), Get("s_rpc"),
       Get("s_rqc"), Each("sfxge_rx_qinit", 3)>>,
     <<<<Undo("sfxge_rx_qfini"), Put("s_rqc"), Put("s_rpc"), Run("sfxge_rx_scale_fini")>>,
       <<>>, <<>>>>)
sfxge_rx_start ==
  Fn(<<Enter("mac_lock"), Do("efx_rx_init", 1), Exit("mac_lock"), Do("sfxge_rx_scale_start", 2),
       Each("sfxge_rx_qstart", 3), Need("SFXGE_RX_SCALE_STARTED"), Ef10Mcdi(4)>>,
     <<<<>>, <<Undo("sfxge_rx_qstop"), Run("sfxge_rx_scale_stop")>>,
       <<Enter("mac_lock"), Run("efx_rx_fini")>>, <<Exit("mac_lock")>>>>)
sfxge_rx_stop ==
  Plain(<<Holds("s_state_lock"), Ef10Mcdi(0), All("sfxge_rx_qstop"), Run("sfxge_rx_scale_stop"),
          Enter("mac_lock"), Run("efx_rx_fini"), Exit("mac_lock")>>)
sfxge_rx_qloaned ==
  Plain(<<Enter("se_lock"), Run("sfxge_rx_qfpp_swizzle"), Exit("se_lock")>>)
sfxge_rx_loaned == Plain(<<Need("SFXGE_INTR_INITIALIZED"), All("sfxge_rx_qloaned")>>)
sfxge_rx_fini ==
  Plain(<<Need("SFXGE_INTR_INITIALIZED"), All("sfxge_rx_qfini"), LacksAny("srp_bound"),
          Put("s_rqc"), Put("s_rpc"), Run("sfxge_rx_scale_fini")>>)

(***************************************************************************)
(* Transmit queues.                                                        *)
(***************************************************************************)
sfxge_tx_qctor ==
  Fn(<<DoOn("sfxge_dma_buffer_create", "st", 1), DoOn("sfxge_sram_buf_tbl_alloc", "st", 2),
       Try("st_eb", 3), Try("st_stmp", 4), Try("st_stbp", 5), Try("st_mp", 6)>>,
     <<<<Put("st_stbp")>>, <<Put("st_stmp")>>, <<Put("st_eb")>>,
       <<RunOn("sfxge_sram_buf_tbl_free", "st")>>, <<RunOn("sfxge_dma_buffer_destroy", "st")>>,
       <<>>>>)
sfxge_tx_qdtor ==
  Plain(<<Put("st_mp"), Put("st_stbp"), Put("st_stmp"), Put("st_eb"),
          RunOn("sfxge_sram_buf_tbl_free", "st"), RunOn("sfxge_dma_buffer_destroy", "st")>>)
sfxge_tx_kstat_init == Fn(<<Try("st_ksp", 1)>>, Empty(1))
sfxge_tx_kstat_fini == Plain(<<Put("st_ksp")>>)
sfxge_ev_txlabel_alloc ==
  Fn(<<Enter("se_lock"), Try("se_label_stp", 3), Exit("se_lock")>>,
     Empty(2) \o <<<<Exit("se_lock")>>>>)
sfxge_ev_txlabel_free == Plain(<<Enter("se_lock"), Put("se_label_stp"), Exit("se_lock")>>)
(* Mutant: the wrong label. *)
sfxge_tx_qinitMut ==
  Fn(<<Need("s_tqc"), Do("sfxge_tx_qctor", 2), Lacks("SFXGE_TXQ_INITIALIZED"), Get("st_lock"),
       Do("sfxge_tx_kstat_init", 2), Do("sfxge_ev_txlabel_alloc", 2),
       Get("SFXGE_TXQ_INITIALIZED"), Get("s_stp")>>,
     <<<<Run("sfxge_tx_kstat_fini"), Put("st_lock"), Run("sfxge_tx_qdtor")>>, <<>>>>)
sfxge_tx_qinit ==
  Fn(<<Need("s_tqc"), Do("sfxge_tx_qctor", 1), Lacks("SFXGE_TXQ_INITIALIZED"), Get("st_lock"),
       Do("sfxge_tx_kstat_init", 2), Do("sfxge_ev_txlabel_alloc", 2),
       Get("SFXGE_TXQ_INITIALIZED"), Get("s_stp")>>,
     <<<<Run("sfxge_tx_kstat_fini"), Put("st_lock"), Run("sfxge_tx_qdtor")>>, <<>>>>)
sfxge_tx_qstart ==
  Fn(<<Enter("st_lock"), Need("SFXGE_TXQ_INITIALIZED"), Need("SFXGE_EVQ_STARTED"),
       DoOn("sfxge_sram_buf_tbl_set", "st", 1), Do("efx_tx_qcreate", 2),
       Move("SFXGE_TXQ_INITIALIZED", "SFXGE_TXQ_STARTED"), Exit("st_lock")>>,
     <<<<RunOn("sfxge_sram_buf_tbl_clear", "st")>>, <<Exit("st_lock")>>>>)
(* A queue that is started is now being flushed. *)
sfxge_tx_qflush ==
  Fn(<<Holds("s_state_lock"), Holds("s_tx_flush_lock"), Enter("st_lock"),
       Unless("SFXGE_TXQ_STARTED", 1), Run("efx_tx_qflush"),
       Move("SFXGE_TXQ_STARTED", "SFXGE_TXQ_FLUSH"), Exit("st_lock")>>,
     <<<<Exit("st_lock")>>>>)
(* The packets of the lists and of the ring are freed; one of them may     *)
(* have been received and sent on.                                         *)
sfxge_tx_qdpl_flush_locked == Plain(<<Holds("st_lock"), May("sfxge_rx_qfpp_put", End)>>)
sfxge_tx_qdpl_flush ==
  Plain(<<Enter("st_lock"), Run("sfxge_tx_qdpl_flush_locked"), Exit("st_lock")>>)
(* A queue that was not started has nothing to stop (done). *)
sfxge_tx_qstop ==
  Fn(<<Enter("se_lock"), Enter("st_lock"), If("SFXGE_TXQ_INITIALIZED", 1), Need("SFXGE_TXQ_FLUSH"),
       Run("efx_tx_qdestroy"), RunOn("sfxge_sram_buf_tbl_clear", "st"),
       Run("sfxge_tx_qdpl_flush_locked"), Move("SFXGE_TXQ_FLUSH", "SFXGE_TXQ_INITIALIZED"),
       Exit("st_lock"), Exit("se_lock")>>,
     <<<<Exit("st_lock"), Exit("se_lock")>>>>)
sfxge_tx_qfini ==
  Plain(<<Put("SFXGE_TXQ_INITIALIZED"), Put("s_stp"), Run("sfxge_ev_txlabel_free"),
          Run("sfxge_tx_kstat_fini"), Put("st_lock"), Run("sfxge_tx_qdtor")>>)

TxCachesDestroy == <<Put("s_tqc"), Put("s_tmc"), Put("s_tbc"), Put("s_tpc")>>
sfxge_tx_init ==
  Fn(<<Get("s_tpc"), Get("s_tbc"), Get("s_tmc"), Get("s_tqc"), Each("sfxge_tx_qinit", 1)>>,
     <<<<Undo("sfxge_tx_qfini")>> \o TxCachesDestroy>>)
sfxge_tx_start ==
  Fn(<<Do("efx_tx_init", 1), Each("sfxge_tx_qstart", 2)>>, <<<<Run("sfxge_tx_stop")>>, <<>>>>)
(* The wait for the flushes leaves s_tx_flush_lock, and the events that    *)
(* end it are handled: FlushPoll is the poll of a queue that has no other  *)
(* (sfxge_ev_qpoll).                                                       *)
FlushPoll == Plain(<<Enter("se_lock"), Run("sfxge_ev_txq_flush_done"), Exit("se_lock")>>)
sfxge_tx_stop ==
  Plain(<<Holds("s_state_lock"), Enter("s_tx_flush_lock"), All("sfxge_tx_qflush"),
          Exit("s_tx_flush_lock"), All("FlushPoll"), Enter("s_tx_flush_lock"),
          Exit("s_tx_flush_lock"), All("sfxge_tx_qstop"), Run("efx_tx_fini")>>)
sfxge_tx_fini == Plain(<<All("sfxge_tx_qfini")>> \o TxCachesDestroy)

(***************************************************************************)
(* The life cycle of an instance.                                          *)
(***************************************************************************)
sfxge_create ==
  Fn(<<Try("sfxge_ss", 1), Get("s_state_lock"), Try("s_tqp", 2), Do("sfxge_pci_init", 3),
       Do("sfxge_bar_init", 4), Get("s_nic_lock"), Do("efx_nic_create", 5),
       Do("sfxge_mcdi_init", 6), Do("efx_nic_probe", 7), Do("efx_nvram_init", 8),
       Do("efx_vpd_init", 9), Do("efx_nic_reset", 10), Run("sfxge_sram_init"),
       Do("sfxge_intr_init", 11), Do("sfxge_ev_init", 12), Do("sfxge_mac_init", 13),
       Do("sfxge_rx_init", 14), Do("sfxge_tx_init", 15), Do("sfxge_mon_init", 16),
       Get("s_tx_flush_lock"), Get("s_tx_flush_kv"), Get("SFXGE_INITIALIZED")>>,
     <<<<Run("sfxge_tx_fini")>>, <<Run("sfxge_rx_fini")>>, <<Run("sfxge_mac_fini")>>,
       <<Run("sfxge_ev_fini")>>, <<Run("sfxge_intr_fini")>>,
       <<Run("sfxge_sram_fini"), Run("efx_nic_reset")>>, <<Run("efx_vpd_fini")>>,
       <<Run("efx_nvram_fini")>>, <<Run("efx_nic_unprobe")>>, <<Run("sfxge_mcdi_fini")>>,
       <<Run("efx_nic_destroy")>>, <<Put("s_nic_lock"), Run("sfxge_bar_fini")>>,
       <<Run("sfxge_pci_fini")>>, <<Put("s_tqp")>>, <<Put("s_state_lock"), Put("sfxge_ss")>>,
       <<>>>>)
(* A packet that the stack holds keeps the instance. *)
sfxge_can_destroy ==
  Plain(<<All("sfxge_tx_qdpl_flush"), Run("sfxge_rx_loaned"), If("loaned", End)>>)
sfxge_destroy ==
  Plain(<<Need("SFXGE_INITIALIZED"), Do("sfxge_can_destroy", End), Put("SFXGE_INITIALIZED"),
          Put("s_tx_flush_kv"), Put("s_tx_flush_lock"), Run("sfxge_mon_fini"),
          Run("sfxge_tx_fini"), Run("sfxge_rx_fini"), Run("sfxge_mac_fini"), Run("sfxge_ev_fini"),
          Run("sfxge_intr_fini"), Run("sfxge_sram_fini"), Run("efx_nic_reset"),
          Run("efx_vpd_fini"), Run("efx_nvram_fini"), Run("efx_nic_unprobe"),
          Run("sfxge_mcdi_fini"), Run("efx_nic_destroy"), Put("s_nic_lock"), Run("sfxge_bar_fini"),
          Run("sfxge_pci_fini"), Put("s_tqp"), Put("s_state_lock"), Put("sfxge_ss")>>)

sfxge_start_locked ==
  Fn(<<Holds("s_state_lock"), DoneIf("SFXGE_STARTED"), Unless("SFXGE_REGISTERED", 1),
       Move("SFXGE_REGISTERED", "SFXGE_STARTING"), Run("efx_mcdi_new_epoch"),
       Do("efx_nic_reset", 2), Do("efx_nic_init", 3), Do("efx_filter_init", 4),
       Do("sfxge_sram_start", 5), Do("sfxge_intr_start", 6), Do("sfxge_ev_start", 7),
       Do("sfxge_mac_start", 8), Do("sfxge_rx_start", 9), Do("sfxge_tx_start", 10),
       Do("sfxge_mon_start", 11), Move("SFXGE_STARTING", "SFXGE_STARTED")>>,
     <<<<Run("sfxge_tx_stop")>>, <<Run("sfxge_rx_stop")>>, <<Run("sfxge_mac_stop")>>,
       <<Run("sfxge_ev_stop")>>, <<Run("sfxge_intr_stop")>>, <<Run("sfxge_sram_stop")>>,
       <<Run("efx_filter_fini")>>, <<Run("efx_nic_fini")>>, <<Run("efx_nic_reset")>>,
       <<Move("SFXGE_STARTING", "SFXGE_REGISTERED")>>, <<>>>>)
(* Mutant: the interrupts are stopped before the event queues. *)
sfxge_stop_lockedMut ==
  Plain(<<Holds("s_state_lock"), DoneUnless("SFXGE_STARTED"),
          Move("SFXGE_STARTED", "SFXGE_STOPPING"), Run("sfxge_mon_stop"), Run("sfxge_tx_stop"),
          Run("sfxge_rx_stop"), Run("sfxge_mac_stop"), Run("sfxge_intr_stop"),
          Run("sfxge_ev_stop"), Run("sfxge_sram_stop"), Run("efx_filter_fini"),
          Run("efx_nic_fini"), Run("efx_nic_reset"), Move("SFXGE_STOPPING", "SFXGE_REGISTERED")>>)
sfxge_stop_locked ==
  Plain(<<Holds("s_state_lock"), DoneUnless("SFXGE_STARTED"),
          Move("SFXGE_STARTED", "SFXGE_STOPPING"), Run("sfxge_mon_stop"), Run("sfxge_tx_stop"),
          Run("sfxge_rx_stop"), Run("sfxge_mac_stop"), Run("sfxge_ev_stop"),
          Run("sfxge_intr_stop"), Run("sfxge_sram_stop"), Run("efx_filter_fini"),
          Run("efx_nic_fini"), Run("efx_nic_reset"), Move("SFXGE_STOPPING", "SFXGE_REGISTERED")>>)
sfxge_start ==
  Fn(<<Enter("s_state_lock"), Do("sfxge_start_locked", 1), Exit("s_state_lock")>>,
     <<<<Exit("s_state_lock")>>>>)
sfxge_stop ==
  Plain(<<Enter("s_state_lock"), Run("sfxge_stop_locked"), Exit("s_state_lock")>>)
(* After an error the instance may be left stopped. *)
_sfxge_restart ==
  Fn(<<Enter("s_state_lock"), Unless("SFXGE_STARTED", 1), Run("sfxge_stop_locked"), Ask(1),
       Do("sfxge_start_locked", 1), Exit("s_state_lock")>>,
     <<<<Exit("s_state_lock")>>>>)

sfxge_register ==
  Fn(<<Need("SFXGE_INITIALIZED"), Do("sfxge_gld_register", 1),
       Move("SFXGE_INITIALIZED", "SFXGE_REGISTERED")>>, Empty(1))
sfxge_unregister ==
  Fn(<<Need("SFXGE_REGISTERED"), Do("sfxge_gld_unregister", 1),
       Move("SFXGE_REGISTERED", "SFXGE_INITIALIZED")>>, Empty(1))

_sfxge_vpd_kstat_init == Plain(<<Run("efx_vpd_get")>>)
sfxge_vpd_kstat_init ==
  Fn(<<Do("efx_vpd_size", 1), Try("vpd", 2), Try("svk_vv", 3), Do("efx_vpd_read", 4),
       Try("svk_ksp", 5), Run("_sfxge_vpd_kstat_init"), Put("vpd")>>,
     <<<<>>, <<Put("svk_vv")>>, <<Put("vpd")>>, <<>>, <<>>>>)
sfxge_vpd_kstat_fini == Plain(<<DoneUnless("svk_ksp"), Put("svk_ksp"), Put("svk_vv")>>)
sfxge_cfg_kstat_init == Fn(<<Try("s_cfg_ksp", 1)>>, Empty(1))
sfxge_cfg_kstat_fini == Plain(<<DoneUnless("s_cfg_ksp"), Put("s_cfg_ksp")>>)

sfxge_attach ==
  Fn(<<If("sfxge_ss", End), Do("sfxge_create", 1), Do("sfxge_cfg_kstat_init", 2),
       Allow("sfxge_vpd_kstat_init", 3), Do("sfxge_register", 4)>>,
     <<<<Run("sfxge_vpd_kstat_fini")>>, <<Run("sfxge_cfg_kstat_fini")>>, <<Run("sfxge_destroy")>>,
       <<>>>>)
DetachUnregister == Plain(<<DoneUnless("SFXGE_REGISTERED"), Do("sfxge_unregister", End)>>)
sfxge_detach ==
  Fn(<<Unless("sfxge_ss", End), Run("sfxge_stop"), Do("DetachUnregister", 1),
       Run("sfxge_vpd_kstat_fini"), Run("sfxge_cfg_kstat_fini"), Do("sfxge_destroy", 2)>>,
     Empty(2))

_init ==
  Fn(<<Get("sfxge_global_lock"), Get("sfxge_cpu"), Try("soft_state", 1), Get("mac_ops"),
       Try("modlinkage", 2)>>,
     <<<<Put("mac_ops"), Put("soft_state")>>, <<>>>>)
_fini ==
  Plain(<<Ask(End), Put("modlinkage"), Put("mac_ops"), Put("soft_state"), Put("sfxge_cpu"),
          Put("sfxge_global_lock")>>)
=============================================================================
