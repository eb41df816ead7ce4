---------------------------- MODULE MCInitPaths -----------------------------
(***************************************************************************)
(* The functions of InitNic, InitDriver, InitQueues, InitAccess and        *)
(* InitEvents, and the instance that TLC checks: two queues, and one thing *)
(* missing.                                                                *)
(***************************************************************************)
EXTENDS InitEvents

CONSTANTS Queue, Optional, MaxLacking
VARIABLES stack, held, rest, lacking

MCQueue == <<"q0", "q1">>
MCOptional ==
  {"svpd", "ef10_nvram_partn_read_tlv", "hunt_board_cfg", "sfxge_vpd_kstat_init", "si_cap",
   "intr_handles"}

(* The functions by name. *)
Program ==
  [efx_nic_create |-> efx_nic_create, efx_nic_destroy |-> efx_nic_destroy,
   efx_mcdi_new_epoch |-> efx_mcdi_new_epoch, siena_mcdi_init |-> siena_mcdi_init,
   siena_mcdi_fini |-> siena_mcdi_fini, ef10_mcdi_init |-> ef10_mcdi_init,
   ef10_mcdi_fini |-> ef10_mcdi_fini, efx_mcdi_init |-> efx_mcdi_init,
   efx_mcdi_fini |-> efx_mcdi_fini, efx_phy_probe |-> efx_phy_probe,
   efx_phy_unprobe |-> efx_phy_unprobe, mcdi_mon_cfg_build |-> mcdi_mon_cfg_build,
   mcdi_mon_cfg_free |-> mcdi_mon_cfg_free, siena_nic_probe |-> siena_nic_probe,
   siena_board_cfg |-> siena_board_cfg, siena_nic_unprobe |-> siena_nic_unprobe,
   siena_nic_reset |-> siena_nic_reset, siena_nic_init |-> siena_nic_init,
   siena_nic_fini |-> siena_nic_fini, ef10_nic_probe |-> ef10_nic_probe,
   hunt_board_cfg |-> hunt_board_cfg, ef10_nic_unprobe |-> ef10_nic_unprobe,
   ef10_nic_reset |-> ef10_nic_reset, ef10_nic_alloc_piobufs |-> ef10_nic_alloc_piobufs,
   ef10_nic_free_piobufs |-> ef10_nic_free_piobufs, ef10_nic_init |-> ef10_nic_init,
   ef10_nic_fini |-> ef10_nic_fini, efx_nic_probe |-> efx_nic_probe,
   efx_nic_unprobe |-> efx_nic_unprobe, efx_nic_init |-> efx_nic_init,
   efx_nic_fini |-> efx_nic_fini, efx_nic_reset |-> efx_nic_reset,
   efx_nvram_init |-> efx_nvram_init, efx_nvram_fini |-> efx_nvram_fini,
   siena_vpd_init |-> siena_vpd_init, siena_vpd_fini |-> siena_vpd_fini,
   ef10_vpd_init |-> ef10_vpd_init, ef10_vpd_fini |-> ef10_vpd_fini, efx_vpd_init |-> efx_vpd_init,
   efx_vpd_fini |-> efx_vpd_fini, efx_mon_init |-> efx_mon_init, efx_mon_fini |-> efx_mon_fini,
   siena_filter_init |-> siena_filter_init, siena_filter_fini |-> siena_filter_fini,
   ef10_filter_init |-> ef10_filter_init, ef10_filter_fini |-> ef10_filter_fini,
   efx_filter_init |-> efx_filter_init, efx_filter_fini |-> efx_filter_fini,
   efx_intr_init |-> efx_intr_init, efx_intr_fini |-> efx_intr_fini, efx_ev_init |-> efx_ev_init,
   efx_ev_fini |-> efx_ev_fini, efx_ev_qcreate |-> efx_ev_qcreate,
   efx_ev_qdestroy |-> efx_ev_qdestroy, siena_rx_init |-> siena_rx_init,
   siena_rx_fini |-> siena_rx_fini, ef10_rx_init |-> ef10_rx_init, ef10_rx_fini |-> ef10_rx_fini,
   efx_rx_init |-> efx_rx_init, efx_rx_fini |-> efx_rx_fini, efx_rx_qdestroy |-> efx_rx_qdestroy,
   efx_rx_qcreate |-> efx_rx_qcreate, efx_rx_qflush |-> efx_rx_qflush,
   siena_rx_qdestroy |-> siena_rx_qdestroy, ef10_rx_qdestroy |-> ef10_rx_qdestroy,
   efx_tx_init |-> efx_tx_init, efx_tx_fini |-> efx_tx_fini, efx_tx_qcreate |-> efx_tx_qcreate,
   efx_tx_qflush |-> efx_tx_qflush, efx_tx_qdestroy |-> efx_tx_qdestroy,
   efx_port_init |-> efx_port_init, efx_port_fini |-> efx_port_fini,
   efx_sram_buf_tbl_set |-> efx_sram_buf_tbl_set,
   efx_sram_buf_tbl_clear |-> efx_sram_buf_tbl_clear,
   sfxge_dma_buffer_create |-> sfxge_dma_buffer_create,
   sfxge_dma_buffer_destroy |-> sfxge_dma_buffer_destroy, sfxge_pci_init |-> sfxge_pci_init,
   sfxge_pci_fini |-> sfxge_pci_fini, sfxge_bar_init |-> sfxge_bar_init,
   sfxge_bar_fini |-> sfxge_bar_fini, sfxge_mcdi_init |-> sfxge_mcdi_init,
   sfxge_mcdi_fini |-> sfxge_mcdi_fini, sfxge_sram_init |-> sfxge_sram_init,
   sfxge_sram_fini |-> sfxge_sram_fini, sfxge_sram_start |-> sfxge_sram_start,
   sfxge_sram_stop |-> sfxge_sram_stop, sfxge_sram_buf_tbl_alloc |-> sfxge_sram_buf_tbl_alloc,
   sfxge_sram_buf_tbl_free |-> sfxge_sram_buf_tbl_free,
   sfxge_sram_buf_tbl_set |-> sfxge_sram_buf_tbl_set,
   sfxge_sram_buf_tbl_clear |-> sfxge_sram_buf_tbl_clear,
   sfxge_mon_kstat_init |-> sfxge_mon_kstat_init, sfxge_mon_kstat_fini |-> sfxge_mon_kstat_fini,
   sfxge_mon_init |-> sfxge_mon_init, sfxge_mon_fini |-> sfxge_mon_fini,
   sfxge_mon_start |-> sfxge_mon_start, sfxge_mon_stop |-> sfxge_mon_stop,
   sfxge_intr_init |-> sfxge_intr_init, sfxge_intr_fini |-> sfxge_intr_fini,
   ddi_intr_add_handler |-> ddi_intr_add_handler,
   ddi_intr_remove_handler |-> ddi_intr_remove_handler, ddi_intr_enable |-> ddi_intr_enable,
   ddi_intr_disable |-> ddi_intr_disable, EnableBlock |-> EnableBlock, EnableEach |-> EnableEach,
   DisableBlock |-> DisableBlock, DisableEach |-> DisableEach,
   sfxge_intr_bus_enable |-> sfxge_intr_bus_enable,
   sfxge_intr_bus_disable |-> sfxge_intr_bus_disable,
   sfxge_intr_nic_enable |-> sfxge_intr_nic_enable,
   sfxge_intr_nic_disable |-> sfxge_intr_nic_disable, sfxge_intr_start |-> sfxge_intr_start,
   sfxge_intr_stop |-> sfxge_intr_stop, _sfxge_ev_qctor |-> _sfxge_ev_qctor,
   _sfxge_ev_qdtor |-> _sfxge_ev_qdtor, sfxge_ev_kstat_init |-> sfxge_ev_kstat_init,
   sfxge_ev_kstat_fini |-> sfxge_ev_kstat_fini, sfxge_ev_qinit |-> sfxge_ev_qinit,
   sfxge_ev_qfini |-> sfxge_ev_qfini, sfxge_ev_init |-> sfxge_ev_init,
   sfxge_ev_fini |-> sfxge_ev_fini, sfxge_ev_qstart |-> sfxge_ev_qstart,
   sfxge_ev_qstop |-> sfxge_ev_qstop, sfxge_ev_start |-> sfxge_ev_start,
   sfxge_ev_stop |-> sfxge_ev_stop, sfxge_phy_kstat_init |-> sfxge_phy_kstat_init,
   sfxge_phy_kstat_fini |-> sfxge_phy_kstat_fini, sfxge_phy_init |-> sfxge_phy_init,
   sfxge_phy_fini |-> sfxge_phy_fini, sfxge_mac_kstat_init |-> sfxge_mac_kstat_init,
   sfxge_mac_kstat_fini |-> sfxge_mac_kstat_fini, sfxge_mac_init |-> sfxge_mac_init,
   sfxge_mac_fini |-> sfxge_mac_fini, sfxge_mac_poll_start |-> sfxge_mac_poll_start,
   sfxge_mac_poll_stop |-> sfxge_mac_poll_stop, sfxge_mac_start |-> sfxge_mac_start,
   sfxge_mac_stop |-> sfxge_mac_stop, sfxge_mac_unicst_get |-> sfxge_mac_unicst_get,
   sfxge_gld_nd_register |-> sfxge_gld_nd_register,
   sfxge_gld_nd_unregister |-> sfxge_gld_nd_unregister,
   sfxge_gld_priv_prop_init |-> sfxge_gld_priv_prop_init,
   sfxge_gld_priv_prop_fini |-> sfxge_gld_priv_prop_fini,
   sfxge_gld_register |-> sfxge_gld_register, sfxge_gld_unregister |-> sfxge_gld_unregister,
   sfxge_rx_packet_ctor |-> sfxge_rx_packet_ctor, sfxge_rx_packet_dtor |-> sfxge_rx_packet_dtor,
   sfxge_rx_qpacket_create |-> sfxge_rx_qpacket_create,
   sfxge_rx_qpacket_destroy |-> sfxge_rx_qpacket_destroy,
   sfxge_rx_qpreallocate |-> sfxge_rx_qpreallocate, sfxge_rx_qfpp_put |-> sfxge_rx_qfpp_put,
   sfxge_rx_qfpp_swizzle |-> sfxge_rx_qfpp_swizzle, sfxge_rx_qrefill |-> sfxge_rx_qrefill,
   sfxge_rx_qcomplete |-> sfxge_rx_qcomplete, sfxge_rx_qfpp_empty |-> sfxge_rx_qfpp_empty,
   sfxge_rx_qctor |-> sfxge_rx_qctor, sfxge_rx_qdtor |-> sfxge_rx_qdtor,
   sfxge_rx_kstat_init |-> sfxge_rx_kstat_init, sfxge_rx_kstat_fini |-> sfxge_rx_kstat_fini,
   sfxge_rx_qinit |-> sfxge_rx_qinit, sfxge_rx_qstart |-> sfxge_rx_qstart,
   sfxge_rx_qstop |-> sfxge_rx_qstop, sfxge_rx_qfini |-> sfxge_rx_qfini,
   sfxge_toeplitz_hash_init |-> sfxge_toeplitz_hash_init,
   sfxge_toeplitz_hash_fini |-> sfxge_toeplitz_hash_fini,
   sfxge_rx_scale_kstat_init |-> sfxge_rx_scale_kstat_init,
   sfxge_rx_scale_kstat_fini |-> sfxge_rx_scale_kstat_fini,
   sfxge_rx_scale_init |-> sfxge_rx_scale_init, sfxge_rx_scale_start |-> sfxge_rx_scale_start,
   sfxge_rx_scale_stop |-> sfxge_rx_scale_stop, sfxge_rx_scale_fini |-> sfxge_rx_scale_fini,
   sfxge_rx_init |-> sfxge_rx_init, sfxge_rx_start |-> sfxge_rx_start,
   sfxge_rx_stop |-> sfxge_rx_stop, sfxge_rx_qloaned |-> sfxge_rx_qloaned,
   sfxge_rx_loaned |-> sfxge_rx_loaned, sfxge_rx_fini |-> sfxge_rx_fini,
   sfxge_tx_qctor |-> sfxge_tx_qctor, sfxge_tx_qdtor |-> sfxge_tx_qdtor,
   sfxge_tx_kstat_init |-> sfxge_tx_kstat_init, sfxge_tx_kstat_fini |-> sfxge_tx_kstat_fini,
   sfxge_ev_txlabel_alloc |-> sfxge_ev_txlabel_alloc,
   sfxge_ev_txlabel_free |-> sfxge_ev_txlabel_free, sfxge_tx_qinit |-> sfxge_tx_qinit,
   sfxge_tx_qstart |-> sfxge_tx_qstart, sfxge_tx_qflush |-> sfxge_tx_qflush,
   sfxge_tx_qdpl_flush_locked |-> sfxge_tx_qdpl_flush_locked,
   sfxge_tx_qdpl_flush |-> sfxge_tx_qdpl_flush, sfxge_tx_qstop |-> sfxge_tx_qstop,
   sfxge_tx_qfini |-> sfxge_tx_qfini, sfxge_tx_init |-> sfxge_tx_init, FlushPoll |-> FlushPoll,
   sfxge_tx_start |-> sfxge_tx_start, sfxge_tx_stop |-> sfxge_tx_stop,
   sfxge_tx_fini |-> sfxge_tx_fini, sfxge_create |-> sfxge_create,
   sfxge_can_destroy |-> sfxge_can_destroy, sfxge_destroy |-> sfxge_destroy,
   sfxge_start_locked |-> sfxge_start_locked, sfxge_stop_locked |-> sfxge_stop_locked,
   sfxge_start |-> sfxge_start, sfxge_stop |-> sfxge_stop, _sfxge_restart |-> _sfxge_restart,
   sfxge_register |-> sfxge_register, sfxge_unregister |-> sfxge_unregister,
   _sfxge_vpd_kstat_init |-> _sfxge_vpd_kstat_init, sfxge_vpd_kstat_init |-> sfxge_vpd_kstat_init,
   sfxge_vpd_kstat_fini |-> sfxge_vpd_kstat_fini, sfxge_cfg_kstat_init |-> sfxge_cfg_kstat_init,
   sfxge_cfg_kstat_fini |-> sfxge_cfg_kstat_fini, sfxge_attach |-> sfxge_attach,
   DetachUnregister |-> DetachUnregister, sfxge_detach |-> sfxge_detach, _init |-> _init,
   _fini |-> _fini, efx_mcdi_nvram_update_start |-> efx_mcdi_nvram_update_start,
   efx_mcdi_nvram_update_finish |-> efx_mcdi_nvram_update_finish,
   siena_nvram_type_to_partn |-> siena_nvram_type_to_partn,
   siena_nvram_partn_size |-> siena_nvram_partn_size,
   siena_nvram_partn_lock |-> siena_nvram_partn_lock,
   siena_nvram_partn_read |-> siena_nvram_partn_read,
   siena_nvram_partn_erase |-> siena_nvram_partn_erase,
   siena_nvram_partn_write |-> siena_nvram_partn_write,
   siena_nvram_partn_unlock |-> siena_nvram_partn_unlock,
   siena_nvram_partn_rw_start |-> siena_nvram_partn_rw_start,
   siena_nvram_partn_rw_finish |-> siena_nvram_partn_rw_finish,
   siena_nvram_get_subtype |-> siena_nvram_get_subtype,
   siena_nvram_get_dynamic_cfg |-> siena_nvram_get_dynamic_cfg,
   siena_nvram_partn_get_version |-> siena_nvram_partn_get_version,
   siena_nvram_partn_set_version |-> siena_nvram_partn_set_version,
   ef10_nvram_type_to_partn |-> ef10_nvram_type_to_partn,
   ef10_nvram_partn_size |-> ef10_nvram_partn_size,
   ef10_nvram_partn_lock |-> ef10_nvram_partn_lock,
   ef10_nvram_partn_read |-> ef10_nvram_partn_read,
   ef10_nvram_partn_erase |-> ef10_nvram_partn_erase,
   ef10_nvram_partn_write |-> ef10_nvram_partn_write,
   ef10_nvram_partn_unlock |-> ef10_nvram_partn_unlock,
   ef10_nvram_partn_rw_start |-> ef10_nvram_partn_rw_start,
   ef10_nvram_partn_rw_finish |-> ef10_nvram_partn_rw_finish,
   ef10_nvram_partn_get_version |-> ef10_nvram_partn_get_version,
   ef10_nvram_read_tlv_segment |-> ef10_nvram_read_tlv_segment,
   ef10_nvram_buf_read_tlv |-> ef10_nvram_buf_read_tlv,
   ef10_nvram_partn_read_tlv |-> ef10_nvram_partn_read_tlv,
   ef10_nvram_segment_write_tlv |-> ef10_nvram_segment_write_tlv,
   ef10_nvram_partn_write_segment_tlv |-> ef10_nvram_partn_write_segment_tlv,
   ef10_nvram_partn_set_version |-> ef10_nvram_partn_set_version,
   efx_nvram_size |-> efx_nvram_size, efx_nvram_get_version |-> efx_nvram_get_version,
   efx_nvram_rw_start |-> efx_nvram_rw_start, efx_nvram_read_chunk |-> efx_nvram_read_chunk,
   efx_nvram_erase |-> efx_nvram_erase, efx_nvram_write_chunk |-> efx_nvram_write_chunk,
   efx_nvram_rw_finish |-> efx_nvram_rw_finish, efx_nvram_set_version |-> efx_nvram_set_version,
   sfxge_nvram_rw |-> sfxge_nvram_rw, sfxge_nvram_op |-> sfxge_nvram_op,
   sfxge_nvram_erase |-> sfxge_nvram_erase, sfxge_nvram_ioctl |-> sfxge_nvram_ioctl,
   siena_vpd_get_static |-> siena_vpd_get_static, siena_vpd_size |-> siena_vpd_size,
   siena_vpd_read |-> siena_vpd_read, siena_vpd_verify |-> siena_vpd_verify,
   siena_vpd_reinit |-> siena_vpd_reinit, siena_vpd_get |-> siena_vpd_get,
   siena_vpd_set |-> siena_vpd_set, siena_vpd_write |-> siena_vpd_write,
   ef10_vpd_size |-> ef10_vpd_size, ef10_vpd_read |-> ef10_vpd_read,
   ef10_vpd_verify |-> ef10_vpd_verify, ef10_vpd_reinit |-> ef10_vpd_reinit,
   ef10_vpd_get |-> ef10_vpd_get, ef10_vpd_set |-> ef10_vpd_set, ef10_vpd_write |-> ef10_vpd_write,
   efx_vpd_size |-> efx_vpd_size, efx_vpd_read |-> efx_vpd_read, efx_vpd_verify |-> efx_vpd_verify,
   efx_vpd_reinit |-> efx_vpd_reinit, efx_vpd_get |-> efx_vpd_get, efx_vpd_set |-> efx_vpd_set,
   efx_vpd_write |-> efx_vpd_write, sfxge_vpd_get_keyword |-> sfxge_vpd_get_keyword,
   sfxge_vpd_set_keyword |-> sfxge_vpd_set_keyword, sfxge_vpd_ioctl |-> sfxge_vpd_ioctl,
   efx_bist_start |-> efx_bist_start, efx_bist_poll |-> efx_bist_poll,
   efx_bist_stop |-> efx_bist_stop, sfxge_phy_bist_ioctl |-> sfxge_phy_bist_ioctl,
   efx_phy_led_set |-> efx_phy_led_set, sfxge_phy_led_mode_set |-> sfxge_phy_led_mode_set,
   sfxge_phy_ioctl |-> sfxge_phy_ioctl, efx_port_loopback_set |-> efx_port_loopback_set,
   sfxge_mac_loopback_set |-> sfxge_mac_loopback_set, sfxge_mac_ioctl |-> sfxge_mac_ioctl,
   efx_sram_test |-> efx_sram_test, sfxge_sram_test |-> sfxge_sram_test,
   sfxge_sram_ioctl |-> sfxge_sram_ioctl, sfxge_mcdi_acquire |-> sfxge_mcdi_acquire,
   sfxge_mcdi_release |-> sfxge_mcdi_release, sfxge_mcdi_execute |-> sfxge_mcdi_execute,
   sfxge_mcdi_ioctl |-> sfxge_mcdi_ioctl, sfxge_mcdi2_ioctl |-> sfxge_mcdi2_ioctl,
   sfxge_bar_ioctl |-> sfxge_bar_ioctl, sfxge_pci_ioctl |-> sfxge_pci_ioctl,
   sfxge_rx_qloopback |-> sfxge_rx_qloopback, sfxge_rx_loopback |-> sfxge_rx_loopback,
   sfxge_rx_ioctl |-> sfxge_rx_ioctl, sfxge_tx_loopback |-> sfxge_tx_loopback,
   sfxge_tx_ioctl |-> sfxge_tx_ioctl, ioc_cmd |-> ioc_cmd, sfxge_ioctl |-> sfxge_ioctl,
   efx_mac_stats_update |-> efx_mac_stats_update,
   sfxge_mac_kstat_update |-> sfxge_mac_kstat_update,
   efx_phy_stats_update |-> efx_phy_stats_update,
   sfxge_phy_kstat_update |-> sfxge_phy_kstat_update,
   efx_mon_stats_update |-> efx_mon_stats_update,
   sfxge_mon_kstat_update |-> sfxge_mon_kstat_update,
   sfxge_rx_scale_kstat_update |-> sfxge_rx_scale_kstat_update,
   kstat_read_queue |-> kstat_read_queue, kstat_read |-> kstat_read,
   efx_rx_scale_tbl_set |-> efx_rx_scale_tbl_set, sfxge_rx_scale_update |-> sfxge_rx_scale_update,
   sfxge_tx_qdpl_service |-> sfxge_tx_qdpl_service, sfxge_tx_qunblock |-> sfxge_tx_qunblock,
   sfxge_tx_qcomplete |-> sfxge_tx_qcomplete, sfxge_tx_qflush_done |-> sfxge_tx_qflush_done,
   sfxge_mac_link_update |-> sfxge_mac_link_update, efx_mcdi_ev_death |-> efx_mcdi_ev_death,
   sfxge_ev_rx |-> sfxge_ev_rx, sfxge_ev_tx |-> sfxge_ev_tx,
   sfxge_ev_txq_flush_done |-> sfxge_ev_txq_flush_done,
   sfxge_ev_link_change |-> sfxge_ev_link_change, sfxge_ev_qcomplete |-> sfxge_ev_qcomplete,
   sfxge_ev_qpoll |-> sfxge_ev_qpoll, sfxge_intr_line |-> sfxge_intr_line,
   sfxge_mac_poll |-> sfxge_mac_poll]

P == INSTANCE InitPaths WITH Code <- Program
Spec == P!Spec

(* No function of the driver takes, gives back, uses or locks what it must *)
(* not, whichever goto fail is taken: see InitPaths.                       *)
Balanced == P!Balanced

(* The assertions of these functions about modules, states, queues and     *)
(* locks hold on every path, of the failures too: see InitPaths.           *)
Asserted == P!Asserted

(* sfxge_attach, _start, the ioctls and the rest that fail or are undone   *)
(* leave nothing behind beyond what is listed: see InitPaths.              *)
Undone == P!Undone

(* The mutexes of the driver are entered in one order: see InitPaths.      *)
LocksOrdered == P!LocksOrdered
=============================================================================
