----------------------------- MODULE InitEvents -----------------------------
(***************************************************************************)
(* What runs of its own accord while the driver is started, in the words   *)
(* of InitSteps: the interrupt and the handlers of the events of a queue,  *)
(* and the poll of the link.  EventQueue, TxDpl, TxRing and RxQueue tell   *)
(* what they do with events and packets; here they enter the locks, in the *)
(* order they do.                                                          *)
(*                                                                         *)
(* An event queue, a receive queue and a transmit queue go by one name.    *)
(***************************************************************************)
EXTENDS InitAccess

(* A packet that has been sent, or cannot be, is freed; one that had been  *)
(* received comes back to its queue.                                       *)
sfxge_tx_qdpl_service ==
  Plain(<<Holds("st_lock"), May("sfxge_rx_qfpp_put", End), Exit("st_lock")>>)
sfxge_tx_qunblock ==
  Fn(<<Holds("se_lock"), Enter("st_lock"), Unless("SFXGE_TXQ_STARTED", 1),
       Run("sfxge_tx_qdpl_service")>>,
     <<<<Exit("st_lock")>>>>)
sfxge_tx_qcomplete ==
  Plain(<<Holds("se_lock"), May("sfxge_rx_qfpp_put", End), May("sfxge_tx_qunblock", End)>>)

(* Mutant: the flush is counted down before the queue's lock is left. *)
sfxge_tx_qflush_doneMut ==
  Fn(<<Holds("se_lock"), Enter("st_lock"), Unless("SFXGE_TXQ_FLUSH", 1), Enter("s_tx_flush_lock"),
       Exit("s_tx_flush_lock"), Exit("st_lock")>>,
     <<<<Exit("st_lock")>>>>)
(* That a queue which is not being flushed is flushed by the firmware of   *)
(* its own accord is left out.                                             *)
sfxge_tx_qflush_done ==
  Plain(<<Holds("se_lock"), Enter("st_lock"), Exit("st_lock"), DoneUnless("SFXGE_TXQ_FLUSH"),
          Enter("s_tx_flush_lock"), Exit("s_tx_flush_lock")>>)

sfxge_mac_link_update == Plain(<<Enter("mac_lock"), Exit("mac_lock")>>)
efx_mcdi_ev_death == Plain(<<Enter("s_nic_lock"), Exit("s_nic_lock")>>)

(* The handlers of the events.  What has arrived or has been sent is       *)
(* completed in batches, and what is left of it at the end of the poll.    *)
sfxge_ev_qcomplete == Plain(<<May("sfxge_tx_qcomplete", End), May("sfxge_rx_qcomplete", End)>>)
sfxge_ev_rx ==
  Plain(<<Holds("se_lock"), DoneUnless("SFXGE_RXQ_STARTED"), Run("sfxge_ev_qcomplete")>>)
sfxge_ev_tx ==
  Plain(<<Holds("se_lock"), DoneUnless("SFXGE_TXQ_STARTED"), May("sfxge_tx_qcomplete", End)>>)
sfxge_ev_txq_flush_done == Plain(<<Holds("se_lock"), Run("sfxge_tx_qflush_done")>>)
sfxge_ev_link_change == Plain(<<Run("sfxge_mac_link_update")>>)
sfxge_ev_qpoll ==
  Fn(<<Enter("se_lock"), Unless("SFXGE_EVQ_STARTED", 1), May("sfxge_ev_rx", 1),
       May("sfxge_ev_tx", 1), May("sfxge_ev_txq_flush_done", 1), May("sfxge_ev_link_change", 1),
       May("efx_mcdi_ev_death", 1), Run("sfxge_ev_qcomplete"), Exit("se_lock")>>,
     <<<<Exit("se_lock")>>>>)
sfxge_intr_line == Plain(<<DoneUnless("SFXGE_INTR_STARTED"), All("sfxge_ev_qpoll")>>)

(* The task asks the link's mode until the MAC is stopped. *)
sfxge_mac_poll ==
  Fn(<<Enter("mac_lock"), Unless("SFXGE_MAC_STARTED", 1), Mcdi(0), Mcdi(0), Exit("mac_lock")>>,
     <<<<Exit("mac_lock")>>>>)
=============================================================================
