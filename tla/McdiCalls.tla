------------------------------ MODULE McdiCalls ------------------------------
(***************************************************************************)
(* The functions that put a request to the management controller: common/  *)
(* efx_mcdi.c, ef10_*.c, hunt_phy.c, siena_*.c, efx_nvram.c, efx_nic.c,    *)
(* efx_wol.c, mcdi_mon.c.  Each keeps request and response in one payload  *)
(* on its stack: it clears it, writes the fields of the request, executes  *)
(* it, compares the length of the response with what it needs and reads    *)
(* the fields of the response out of the same bytes.  A definition is the  *)
(* set of the sequences of calls its function may make.                    *)
(***************************************************************************)
EXTENDS McdiLayout, Sequences, FiniteSetsExt

(* EFX_EVQ_NBUFS(EFX_EVQ_MAXNEVS), EFX_RXQ_NBUFS(EFX_RXQ_MAXNDESCS), EFX_TXQ_MAX_BUFS. *)
EVQ_MAXNBUFS == (32768 * 8) \div 4096
RXQ_MAXNBUFS == (4096 * 8) \div 4096
TXQ_MAXNBUFS == 8
PHY_MEDIA_INFO_PAGE_SIZE == 128
MCDI_CTL_SDU_LEN_MAX_V2 == 1024
MCDI_CTL_SDU_LEN_MAX == MCDI_CTL_SDU_LEN_MAX_V2

(* Steps of reading a response: give up when it is shorter than n, or not  *)
(* of length n; read fields, read them when the response is long enough, or *)
(* read from byte n to where the controller says that its response ends.   *)
Need(n) == [kind |-> "need", n |-> n, bytes |-> {}]
Same(n) == [kind |-> "same", n |-> n, bytes |-> {}]
Read(fields) == [kind |-> "read", n |-> 0, bytes |-> UNION fields]
More(n, fields) == [kind |-> "more", n |-> n, bytes |-> UNION fields]
Rest(n) == [kind |-> "rest", n |-> n, bytes |-> {}]

(* A call whose payload is uint8_t payload[MAX(in, out)], cleared by memset *)
(* before the fields of the request are set; Bare omits the memset, and     *)
(* Empty has no buffers at all.                                             *)
Call(in, set, out, take) ==
  [in |-> in, set |-> UNION set, out |-> out, take |-> take, buf |-> Max({in, out}), clear |-> TRUE,
   retry |-> 0]
Bare(in, set, out, take) == [Call(in, set, out, take) EXCEPT !.clear = FALSE]
Empty == Bare(0, {}, 0, <<>>)
One(call) == {<<call>>}

efx_mcdi_init_evq ==
  LET c == INIT_EVQ IN
  UNION {One([Call(c.IN_LEN[n], {c.IN_SIZE, c.IN_INSTANCE, c.IN_IRQ_NUM, c.IN_FLAGS, c.IN_TMR_MODE,
                     c.IN_TMR_LOAD, c.IN_TMR_RELOAD, c.IN_COUNT_MODE, c.IN_COUNT_THRSHLD,
                     c.IN_DMA_ADDR[n]}, c.OUT_LEN,
                   <<Need(c.OUT_LEN), Read({c.OUT_IRQ})>>) EXCEPT !.buf = c.IN_LEN[EVQ_MAXNBUFS]]) :
           n \in {m \in {1, EVQ_MAXNBUFS} : c.IN_LEN[m] <= c.IN_LENMAX}}

efx_mcdi_fini_evq ==
  LET c == FINI_EVQ IN
  One(Call(c.IN_LEN, {c.IN_INSTANCE}, c.OUT_LEN, <<>>))

efx_mcdi_driver_event ==
  LET c == DRIVER_EVENT IN
  One(Bare(c.IN_LEN, {c.IN_EVQ, c.IN_DATA_LO, c.IN_DATA_HI}, c.OUT_LEN, <<>>))

efx_mcdi_filter_op_add ==
  LET c == FILTER_OP IN
  One(Call(c.IN_LEN, {c.IN_HANDLE_LO, c.IN_HANDLE_HI, c.IN_OP, c.IN_PORT_ID,
           c.IN_MATCH_FIELDS, c.IN_RX_DEST, c.IN_RX_QUEUE, c.IN_RX_CONTEXT,
           c.IN_RX_MODE, c.IN_TX_DEST, c.IN_SRC_MAC, c.IN_DST_MAC, c.IN_SRC_PORT,
           c.IN_DST_PORT, c.IN_ETHER_TYPE, c.IN_INNER_VLAN, c.IN_OUTER_VLAN,
           c.IN_IP_PROTO, c.IN_SRC_IP, c.IN_DST_IP}, c.OUT_LEN, <<Need(c.OUT_LEN),
           Read({c.OUT_HANDLE_LO, c.OUT_HANDLE_HI})>>))

efx_mcdi_filter_op_delete ==
  LET c == FILTER_OP IN
  One(Call(c.IN_LEN, {c.IN_OP, c.IN_HANDLE_LO, c.IN_HANDLE_HI}, c.OUT_LEN,
           <<Need(c.OUT_LEN)>>))

efx_mcdi_get_parser_disp_info ==
  LET c == GET_PARSER_DISP_INFO IN
  UNION {One(Call(c.IN_LEN, {c.OUT_OP}, c.OUT_LENMAX,
                  <<Read({c.OUT_NUM_SUPPORTED_MATCHES}), Need(c.OUT_LEN[n]),
                    Read({c.OUT_SUPPORTED_MATCHES[n]})>>)) : n \in {0, 1, 61}}

efx_mcdi_trigger_interrupt ==
  LET c == TRIGGER_INTERRUPT IN
  One(Call(c.IN_LEN, {c.IN_INTR_LEVEL}, c.OUT_LEN, <<>>))

efx_mcdi_vadapter_set_mac ==
  LET c == VADAPTOR_SET_MAC IN
  One(Call(c.IN_LEN, {c.IN_UPSTREAM_PORT_ID, c.IN_MACADDR}, c.OUT_LEN, <<>>))

efx_mcdi_mtu_set ==
  LET c == SET_MAC IN
  One(Call(c.EXT_IN_LEN, {c.EXT_IN_MTU, c.EXT_IN_CONTROL}, c.OUT_LEN, <<>>))

ef10_mac_reconfigure ==
  LET c == SET_MAC IN
  One(Call(c.IN_LEN, {c.IN_MTU, c.IN_DRAIN, c.IN_ADDR, c.IN_REJECT, c.IN_FCNTL, c.IN_FLAGS},
           c.OUT_LEN, <<>>))

efx_mcdi_get_port_assignment ==
  LET c == GET_PORT_ASSIGNMENT IN
  One(Call(c.IN_LEN, {}, c.OUT_LEN, <<Need(c.OUT_LEN), Read({c.OUT_PORT})>>))

efx_mcdi_get_port_modes ==
  LET c == GET_PORT_MODES IN
  One(Call(c.IN_LEN, {}, c.OUT_LEN, <<Need(c.OUT_CURRENT_MODE_OFST), Read({c.OUT_MODES})>>))

efx_mcdi_vadaptor_alloc ==
  LET c == VADAPTOR_ALLOC IN
  One(Call(c.IN_LEN, {c.IN_UPSTREAM_PORT_ID, c.IN_FLAGS}, c.OUT_LEN, <<>>))

efx_mcdi_vadaptor_free ==
  LET c == VADAPTOR_FREE IN
  One(Call(c.IN_LEN, {c.IN_UPSTREAM_PORT_ID}, c.OUT_LEN, <<>>))

efx_mcdi_get_mac_address_pf ==
  LET c == GET_MAC_ADDRESSES IN
  One(Call(c.IN_LEN, {}, c.OUT_LEN, <<Need(c.OUT_LEN), Read({c.OUT_MAC_COUNT,
           c.OUT_MAC_ADDR_BASE})>>))

efx_mcdi_get_mac_address_vf ==
  LET c == VPORT_GET_MAC_ADDRESSES
      with(take) == One(Call(c.IN_LEN, {c.IN_VPORT_ID}, c.OUT_LENMAX,
                             <<Need(c.OUT_LENMIN), Read({c.OUT_MACADDR_COUNT})>> \o take))
  IN with(<<>>) \cup with(<<Read({c.OUT_MACADDR})>>)

efx_mcdi_get_clock ==
  LET c == GET_CLOCK IN
  One(Call(c.IN_LEN, {}, c.OUT_LEN, <<Need(c.OUT_LEN), Read({c.OUT_SYS_FREQ})>>))

efx_mcdi_get_vector_cfg ==
  LET c == GET_VECTOR_CFG IN
  One(Call(c.IN_LEN, {}, c.OUT_LEN, <<Need(c.OUT_LEN), Read({c.OUT_VEC_BASE,
           c.OUT_VECS_PER_PF, c.OUT_VECS_PER_VF})>>))

efx_mcdi_get_capabilities ==
  LET c == GET_CAPABILITIES IN
  One(Call(c.IN_LEN, {}, c.V2_OUT_LEN,
           <<Need(c.OUT_LEN), Read({c.OUT_FLAGS1}), More(c.V2_OUT_LEN, {c.V2_OUT_FLAGS2})>>))

efx_mcdi_alloc_vis ==
  LET c == ALLOC_VIS IN
  One(Call(c.IN_LEN, {c.IN_MIN_VI_COUNT, c.IN_MAX_VI_COUNT}, c.OUT_LEN,
           <<Need(c.OUT_LEN), Read({c.OUT_VI_BASE, c.OUT_VI_COUNT}),
             More(c.EXT_OUT_LEN, {c.EXT_OUT_VI_SHIFT})>>))

efx_mcdi_free_vis == One(Empty)

efx_mcdi_alloc_piobuf ==
  LET c == ALLOC_PIOBUF IN
  One(Call(c.IN_LEN, {}, c.OUT_LEN, <<Need(c.OUT_LEN), Read({c.OUT_PIOBUF_HANDLE})>>))

efx_mcdi_free_piobuf ==
  LET c == FREE_PIOBUF IN
  One(Call(c.IN_LEN, {c.IN_PIOBUF_HANDLE}, c.OUT_LEN, <<>>))

efx_mcdi_link_piobuf ==
  LET c == LINK_PIOBUF IN
  One(Call(c.IN_LEN, {c.IN_PIOBUF_HANDLE, c.IN_TXQ_INSTANCE}, c.OUT_LEN, <<>>))

efx_mcdi_unlink_piobuf ==
  LET c == UNLINK_PIOBUF IN
  One(Call(c.IN_LEN, {c.IN_TXQ_INSTANCE}, c.OUT_LEN, <<>>))

ef10_nic_reset ==
  LET c == ENTITY_RESET IN
  One(Call(c.IN_LEN, {c.IN_FLAG}, c.OUT_LEN, <<>>))

ef10_phy_get_link ==
  LET c == GET_LINK IN
  One(Call(c.IN_LEN, {}, c.OUT_LEN, <<Need(c.OUT_LEN), Read({c.OUT_CAP, c.OUT_LP_CAP,
           c.OUT_FLAGS, c.OUT_LINK_SPEED, c.OUT_FCNTL, c.OUT_LOOPBACK_MODE,
           c.OUT_MAC_FAULT})>>))

SetLink ==
  Call(SET_LINK.IN_LEN, {SET_LINK.IN_CAP, SET_LINK.IN_LOOPBACK_MODE, SET_LINK.IN_LOOPBACK_SPEED,
                         SET_LINK.IN_FLAGS}, SET_LINK.OUT_LEN, <<>>)
SetIdLed == Call(SET_ID_LED.IN_LEN, {SET_ID_LED.IN_STATE}, SET_ID_LED.OUT_LEN, <<>>)

ef10_phy_reconfigure ==
  LET payload == Max({SET_LINK.IN_LEN, SET_LINK.OUT_LEN})
  IN {<<[SetLink EXCEPT !.buf = payload], [SetIdLed EXCEPT !.buf = payload]>>}

ef10_phy_verify ==
  LET c == GET_PHY_STATE IN
  One(Call(c.IN_LEN, {}, c.OUT_LEN, <<Need(c.OUT_LEN), Read({c.OUT_STATE})>>))

efx_mcdi_init_rxq ==
  LET c == INIT_RXQ IN
  UNION {One([Call(c.IN_LEN[n], {c.IN_SIZE, c.IN_TARGET_EVQ, c.IN_LABEL, c.IN_INSTANCE, c.IN_FLAGS,
                     c.IN_OWNER_ID, c.IN_PORT_ID, c.IN_DMA_ADDR[n]}, c.OUT_LEN, <<>>)
                   EXCEPT !.buf = c.IN_LEN[RXQ_MAXNBUFS]]) : n \in {1, RXQ_MAXNBUFS}}

efx_mcdi_fini_rxq ==
  LET c == FINI_RXQ IN
  One(Call(c.IN_LEN, {c.IN_INSTANCE}, c.OUT_LEN, <<>>))

efx_mcdi_rss_context_alloc ==
  LET c == RSS_CONTEXT_ALLOC IN
  One(Call(c.IN_LEN, {c.IN_UPSTREAM_PORT_ID, c.IN_TYPE, c.IN_NUM_QUEUES}, c.OUT_LEN,
           <<Need(c.OUT_LEN), Read({c.OUT_RSS_CONTEXT_ID})>>))

efx_mcdi_rss_context_free ==
  LET c == RSS_CONTEXT_FREE IN
  One(Call(c.IN_LEN, {c.IN_RSS_CONTEXT_ID}, c.OUT_LEN, <<>>))

efx_mcdi_rss_context_set_flags ==
  LET c == RSS_CONTEXT_SET_FLAGS IN
  One(Call(c.IN_LEN, {c.IN_RSS_CONTEXT_ID, c.IN_FLAGS}, c.OUT_LEN, <<>>))

efx_mcdi_rss_context_set_key ==
  LET c == RSS_CONTEXT_SET_KEY IN
  One(Call(c.IN_LEN, {c.IN_RSS_CONTEXT_ID, c.IN_TOEPLITZ_KEY}, c.OUT_LEN, <<>>))

efx_mcdi_rss_context_set_table ==
  LET c == RSS_CONTEXT_SET_TABLE IN
  One(Call(c.IN_LEN, {c.IN_RSS_CONTEXT_ID, c.IN_INDIRECTION_TABLE}, c.OUT_LEN, <<>>))

efx_mcdi_init_txq ==
  LET c == INIT_TXQ IN
  UNION {One([Call(c.IN_LEN[n], {c.IN_SIZE, c.IN_TARGET_EVQ, c.IN_LABEL, c.IN_INSTANCE, c.IN_FLAGS,
                     c.IN_OWNER_ID, c.IN_PORT_ID, c.IN_DMA_ADDR[n]}, c.OUT_LEN, <<>>)
                   EXCEPT !.buf = c.IN_LEN[TXQ_MAXNBUFS]]) : n \in {1, TXQ_MAXNBUFS}}

efx_mcdi_fini_txq ==
  LET c == FINI_TXQ IN
  One(Call(c.IN_LEN, {c.IN_INSTANCE}, c.OUT_LEN, <<>>))

efx_mcdi_version ==
  LET c == GET_VERSION
      b == GET_BOOT_STATUS
      of(call) == [call EXCEPT !.buf = Max({c.IN_LEN, c.OUT_LEN, b.IN_LEN, b.OUT_LEN})]
      version == {of(Call(c.IN_LEN, {}, c.OUT_LEN, <<Same(c.V0_OUT_LEN), Read({c.OUT_FIRMWARE})>>)),
                  of(Call(c.IN_LEN, {}, c.OUT_LEN,
                          <<Need(c.OUT_LEN), Read({c.OUT_VERSION, c.OUT_FIRMWARE})>>))}
      status == of(Call(b.IN_LEN, {}, b.OUT_LEN, <<Need(b.OUT_LEN), Read({b.OUT_FLAGS})>>))
  IN {<<v>> : v \in version} \cup {<<v, status>> : v \in version}

efx_mcdi_do_reboot ==
  LET c == REBOOT IN
  One(Call(c.IN_LEN, {c.IN_FLAGS}, c.OUT_LEN, <<>>))

efx_mcdi_read_assertion ==
  LET c == GET_ASSERTS IN
  One([Call(c.IN_LEN, {c.IN_CLEAR}, c.OUT_LEN,
            <<Need(c.OUT_LEN), Read({c.OUT_GLOBAL_FLAGS, c.OUT_SAVED_PC_OFFS, c.OUT_THREAD_OFFS,
                                     c.OUT_GP_REGS_OFFS})>>) EXCEPT !.retry = 2])

efx_mcdi_drv_attach ==
  LET c == DRV_ATTACH
      with(take) == One(Call(c.IN_LEN, {c.IN_NEW_STATE, c.IN_UPDATE, c.IN_FIRMWARE_ID},
                             c.EXT_OUT_LEN, <<Need(c.OUT_LEN)>> \o take))
  IN with(<<>>) \cup with(<<Need(c.EXT_OUT_LEN), Read({c.EXT_OUT_FUNC_FLAGS})>>)

efx_mcdi_get_board_cfg ==
  LET c == GET_BOARD_CFG IN
  One(Call(c.IN_LEN, {}, c.OUT_LENMIN, <<Need(c.OUT_LENMIN), Read({c.OUT_MAC_ADDR_BASE_PORT0,
           c.OUT_MAC_ADDR_BASE_PORT1, c.OUT_CAPABILITIES_PORT0,
           c.OUT_CAPABILITIES_PORT1, c.OUT_BOARD_TYPE})>>))

efx_mcdi_get_resource_limits ==
  LET c == GET_RESOURCE_LIMITS IN
  One(Call(c.IN_LEN, {}, c.OUT_LEN, <<Need(c.OUT_LEN), Read({c.OUT_EVQ, c.OUT_RXQ,
           c.OUT_TXQ})>>))

efx_mcdi_get_phy_cfg ==
  LET c == GET_PHY_CFG IN
  One(Call(c.IN_LEN, {}, c.OUT_LEN, <<Need(c.OUT_LEN), Read({c.OUT_TYPE, c.OUT_NAME,
           c.OUT_REVISION, c.OUT_MEDIA_TYPE, c.OUT_SUPPORTED_CAP, c.OUT_FLAGS,
           c.OUT_PRT, c.OUT_CHANNEL, c.OUT_STATS_MASK})>>))

efx_mcdi_bist_enable_offline == One(Empty)

efx_mcdi_bist_start ==
  LET c == START_BIST IN
  One(Call(c.IN_LEN, {c.IN_TYPE}, c.OUT_LEN, <<>>))

efx_mcdi_log_ctrl ==
  LET c == LOG_CTRL IN
  One(Call(c.IN_LEN, {c.IN_LOG_DEST, c.IN_LOG_DEST_EVQ}, c.OUT_LEN, <<>>))

efx_mcdi_mac_stats ==
  LET c == MAC_STATS IN
  One(Call(c.IN_LEN, {c.IN_CMD, c.IN_DMA_ADDR_LO, c.IN_DMA_ADDR_HI, c.IN_DMA_LEN,
           c.IN_PORT_ID}, c.OUT_DMA_LEN, <<>>))

efx_mcdi_get_function_info ==
  LET c == GET_FUNCTION_INFO IN
  One(Call(c.IN_LEN, {}, c.OUT_LEN, <<Need(c.OUT_LEN), Read({c.OUT_PF, c.OUT_VF})>>))

efx_mcdi_privilege_mask ==
  LET c == PRIVILEGE_MASK IN
  One(Call(c.IN_LEN, {c.IN_FUNCTION}, c.OUT_LEN, <<Need(c.OUT_LEN), Read({c.OUT_OLD_MASK})>>))

efx_mcdi_set_workaround ==
  LET c == WORKAROUND IN
  One([Call(c.IN_LEN, {c.IN_TYPE, c.IN_ENABLED}, c.OUT_LEN, <<More(c.EXT_OUT_LEN, {c.EXT_OUT_FLAGS})>>)
       EXCEPT !.buf = Max({c.IN_LEN, c.EXT_OUT_LEN})])

efx_mcdi_get_workarounds ==
  LET c == GET_WORKAROUNDS IN
  One(Call(0, {}, c.OUT_LEN, <<Read({c.OUT_IMPLEMENTED, c.OUT_ENABLED})>>))

efx_mcdi_get_phy_media_info ==
  LET c == GET_PHY_MEDIA_INFO
      page == PHY_MEDIA_INFO_PAGE_SIZE
  IN One(Call(c.IN_LEN, {c.IN_PAGE}, c.OUT_LEN[page],
              <<Same(c.OUT_LEN[page]), Read({c.OUT_DATALEN, c.OUT_DATA[page]})>>))

efx_mcdi_get_loopback_modes ==
  LET c == GET_LOOPBACK_MODES IN
  One(Call(c.IN_LEN, {}, c.OUT_LEN,
           <<Need(Max(c.OUT_SUGGESTED) + 1),
             Read({c.OUT_SUGGESTED, c.OUT_100M, c.OUT_1G, c.OUT_10G}),
             More(Max(c.OUT_40G) + 1, {c.OUT_40G})>>))

efx_mcdi_nvram_partitions ==
  LET c == NVRAM_PARTITIONS IN
  UNION {One(Call(c.IN_LEN, {}, c.OUT_LENMAX,
                  <<Need(c.OUT_LENMIN), Read({c.OUT_NUM_PARTITIONS}), Need(c.OUT_LEN[n]),
                    Read({c.OUT_TYPE_ID[n]})>>)) : n \in {0, 1, 62}}

(* The description is wanted or not (descp); only EFSYS_ASSERT3U compares   *)
(* its length with the room that a response has for it.                    *)
efx_mcdi_nvram_metadata ==
  LET c == NVRAM_METADATA
      known == {c.OUT_FLAGS, c.OUT_SUBTYPE, c.OUT_VERSION_W, c.OUT_VERSION_X, c.OUT_VERSION_Y,
                c.OUT_VERSION_Z}
      with(take) == One(Call(c.IN_LEN, {c.IN_TYPE}, c.OUT_LENMAX,
                             <<Need(c.OUT_LENMIN), Read(known)>> \o take))
  IN with(<<>>) \cup with(<<Rest(c.OUT_LEN[0])>>)

(* Mutant: the write size is read whatever the length of the response. *)
NvramInfoMut ==
  LET c == NVRAM_INFO IN
  One(Call(c.IN_LEN, {c.IN_TYPE}, c.V2_OUT_LEN,
           <<Need(c.OUT_LEN), Read({c.OUT_SIZE, c.OUT_PHYSADDR, c.OUT_ERASESIZE, c.V2_OUT_WRITESIZE})>>))

efx_mcdi_nvram_info ==
  LET c == NVRAM_INFO IN
  One(Call(c.IN_LEN, {c.IN_TYPE}, c.V2_OUT_LEN,
           <<Need(c.OUT_LEN), Read({c.OUT_SIZE, c.OUT_PHYSADDR, c.OUT_ERASESIZE}),
             More(c.V2_OUT_LEN, {c.V2_OUT_WRITESIZE})>>))

efx_mcdi_nvram_update_start ==
  LET c == NVRAM_UPDATE_START IN
  One(Call(c.IN_LEN, {c.IN_TYPE}, c.OUT_LEN, <<>>))

efx_mcdi_nvram_read ==
  LET c == NVRAM_READ IN
  UNION {One(Call(c.IN_V2_LEN, {c.IN_V2_TYPE, c.IN_V2_OFFSET, c.IN_V2_LENGTH, c.IN_V2_MODE},
                  c.OUT_LENMAX, <<Need(c.OUT_LEN[n]), Read({c.OUT_READ_BUFFER[n]})>>)) :
           n \in {1, c.OUT_LENMAX}}

efx_mcdi_nvram_erase ==
  LET c == NVRAM_ERASE IN
  One(Call(c.IN_LEN, {c.IN_TYPE, c.IN_OFFSET, c.IN_LENGTH}, c.OUT_LEN, <<>>))

efx_mcdi_nvram_write ==
  LET c == NVRAM_WRITE IN
  UNION {One([Call(c.IN_LEN[n], {c.IN_TYPE, c.IN_OFFSET, c.IN_LENGTH, c.IN_WRITE_BUFFER[n]},
                   c.OUT_LEN, <<>>) EXCEPT !.buf = MCDI_CTL_SDU_LEN_MAX_V2]) :
           n \in {m \in {1, 240, 1012} : m <= MCDI_CTL_SDU_LEN_MAX_V2 - c.IN_LEN[0]}}

efx_mcdi_nvram_update_finish ==
  LET c == NVRAM_UPDATE_FINISH IN
  One(Call(c.IN_LEN, {c.IN_TYPE, c.IN_REBOOT}, c.OUT_LEN, <<>>))

efx_mcdi_nvram_test ==
  LET c == NVRAM_TEST IN
  One(Call(c.IN_LEN, {c.IN_TYPE}, c.OUT_LEN, <<Need(c.OUT_LEN), Read({c.OUT_RESULT})>>))

efx_wol_filter_clear ==
  LET c == WOL_FILTER_RESET IN
  One(Call(c.IN_LEN, {c.IN_MASK}, c.OUT_LEN, <<>>))

efx_wol_filter_add ==
  LET c == WOL_FILTER_SET
      of(param) == One(Call(c.IN_LEN, {c.IN_FILTER_MODE, c.IN_WOL_TYPE} \cup param, c.OUT_LEN,
                            <<Need(c.OUT_LEN), Read({c.OUT_FILTER_ID})>>))
  IN UNION {of({c.IN_MAGIC_MAC}), of({c.IN_BITMAP_MASK, c.IN_BITMAP_BITMAP, c.IN_BITMAP_LEN}),
            of({c.IN_LINK_MASK})}

efx_wol_filter_remove ==
  LET c == WOL_FILTER_REMOVE IN
  One(Call(c.IN_LEN, {c.IN_FILTER_ID}, c.OUT_LEN, <<>>))

(* Mutant: the payload is sized for the shorter of the two requests. *)
LightsoutOffloadAddMut ==
  LET c == ADD_LIGHTSOUT_OFFLOAD IN
  One([Call(c.IN_NS_LEN, {c.IN_PROTOCOL, c.IN_NS_MAC, c.IN_NS_SNIPV6, c.IN_NS_IPV6}, c.OUT_LEN,
            <<Need(c.OUT_LEN), Read({c.OUT_FILTER_ID})>>)
       EXCEPT !.buf = Max({c.IN_ARP_LEN, c.OUT_LEN})])

efx_lightsout_offload_add ==
  LET c == ADD_LIGHTSOUT_OFFLOAD
      of(len, param) == One([Call(len, {c.IN_PROTOCOL} \cup param, c.OUT_LEN,
                                  <<Need(c.OUT_LEN), Read({c.OUT_FILTER_ID})>>)
                             EXCEPT !.buf = Max({c.IN_ARP_LEN, c.IN_NS_LEN, c.OUT_LEN})])
  IN of(c.IN_ARP_LEN, {c.IN_ARP_MAC, c.IN_ARP_IP})
       \cup of(c.IN_NS_LEN, {c.IN_NS_MAC, c.IN_NS_SNIPV6, c.IN_NS_IPV6})

efx_lightsout_offload_remove ==
  LET c == REMOVE_LIGHTSOUT_OFFLOAD IN
  One(Call(c.IN_LEN, {c.IN_PROTOCOL, c.IN_FILTER_ID}, c.OUT_LEN, <<>>))

hunt_bist_poll ==
  LET c == POLL_BIST
      with(take) == One(Call(c.IN_LEN, {}, MCDI_CTL_SDU_LEN_MAX,
                             <<Need(4), Read({c.OUT_RESULT})>> \o take))
  IN UNION {with(<<>>), with(<<Read({c.OUT_MRSFP_TEST})>>),
            with(<<Read({c.OUT_MEM_TEST, c.OUT_MEM_ADDR, c.OUT_MEM_BUS, c.OUT_MEM_EXPECT,
                         c.OUT_MEM_ACTUAL, c.OUT_MEM_ECC, c.OUT_MEM_ECC_PARITY,
                         c.OUT_MEM_ECC_FATAL})>>)}

efx_mcdi_read_sensors ==
  LET c == READ_SENSORS IN
  One(Bare(c.EXT_IN_LEN, {c.EXT_IN_DMA_ADDR_LO, c.EXT_IN_DMA_ADDR_HI, c.EXT_IN_LENGTH},
           c.EXT_OUT_LEN, <<>>))

efx_mcdi_sensor_info_npages ==
  LET c == SENSOR_INFO
      page == Call(c.EXT_IN_LEN, {c.EXT_IN_PAGE}, c.OUT_LENMAX, <<Read({c.OUT_MASK})>>)
  IN {<<page>>, <<page, page>>}

efx_mcdi_sensor_info ==
  LET c == SENSOR_INFO
      page == Call(c.EXT_IN_LEN, {c.EXT_IN_PAGE}, c.OUT_LENMAX, <<Read({c.OUT_MASK})>>)
  IN {<<page>>, <<page, page>>}

siena_mac_reconfigure ==
  LET c == SET_MAC
      h == SET_MCAST_HASH
      of(call) == [call EXCEPT !.buf = Max({c.IN_LEN, c.OUT_LEN, h.IN_LEN, h.OUT_LEN})]
  IN {<<of(Call(c.IN_LEN, {c.IN_MTU, c.IN_DRAIN, c.IN_ADDR, c.IN_REJECT, c.IN_FCNTL}, c.OUT_LEN, <<>>)),
        of(Call(h.IN_LEN, {h.IN_HASH0, h.IN_HASH1}, h.OUT_LEN, <<>>))>>}

siena_nic_get_partn_mask ==
  LET c == NVRAM_TYPES IN
  One(Call(c.IN_LEN, {}, c.OUT_LEN, <<Need(c.OUT_LEN), Read({c.OUT_TYPES})>>))

siena_nic_reset == One(Empty)

siena_nvram_get_subtype ==
  LET c == GET_BOARD_CFG
      entry(partn) == Word(c.OUT_FW_SUBTYPE_LIST_OFST + 2 * partn)
  IN UNION {One(Call(c.IN_LEN, {}, c.OUT_LENMAX,
                     <<Need(c.OUT_LENMIN), Need(Max(entry(partn)) + 1), Read({entry(partn)})>>)) :
              partn \in {0, 12, 31}}

siena_phy_get_link == ef10_phy_get_link

siena_phy_reconfigure ==
  LET of(call) == [call EXCEPT !.buf = Max({SET_ID_LED.IN_LEN, SET_ID_LED.OUT_LEN,
                                            SET_LINK.IN_LEN, SET_LINK.OUT_LEN})]
      link == of(SetLink)
      led == of(SetIdLed)
  IN {<<link, led>>}

siena_phy_verify == ef10_phy_verify

siena_phy_stats_update ==
  LET c == PHY_STATS IN
  One(Call(c.IN_LEN, {c.IN_DMA_ADDR_LO, c.IN_DMA_ADDR_HI}, c.OUT_DMA_LEN, <<>>))

siena_phy_bist_poll ==
  LET c == POLL_BIST
      with(take) == One(Call(c.IN_LEN, {}, MCDI_CTL_SDU_LEN_MAX,
                             <<Need(4), Read({c.OUT_RESULT})>> \o take))
  IN UNION {with(<<>>), with(<<Read({c.OUT_MRSFP_TEST})>>),
            with(<<More(c.OUT_SFT9001_LEN,
                        {c.OUT_SFT9001_CABLE_LENGTH_A, c.OUT_SFT9001_CABLE_LENGTH_B,
                         c.OUT_SFT9001_CABLE_LENGTH_C, c.OUT_SFT9001_CABLE_LENGTH_D,
                         c.OUT_SFT9001_CABLE_STATUS_A, c.OUT_SFT9001_CABLE_STATUS_B,
                         c.OUT_SFT9001_CABLE_STATUS_C, c.OUT_SFT9001_CABLE_STATUS_D})>>)}

(* The functions, by name. *)
Calls ==
  [efx_mcdi_init_evq |-> efx_mcdi_init_evq, efx_mcdi_fini_evq |-> efx_mcdi_fini_evq,
   efx_mcdi_driver_event |-> efx_mcdi_driver_event,
   efx_mcdi_filter_op_add |-> efx_mcdi_filter_op_add,
   efx_mcdi_filter_op_delete |-> efx_mcdi_filter_op_delete,
   efx_mcdi_get_parser_disp_info |-> efx_mcdi_get_parser_disp_info,
   efx_mcdi_trigger_interrupt |-> efx_mcdi_trigger_interrupt,
   efx_mcdi_vadapter_set_mac |-> efx_mcdi_vadapter_set_mac,
   efx_mcdi_mtu_set |-> efx_mcdi_mtu_set, ef10_mac_reconfigure |-> ef10_mac_reconfigure,
   efx_mcdi_get_port_assignment |-> efx_mcdi_get_port_assignment,
   efx_mcdi_get_port_modes |-> efx_mcdi_get_port_modes,
   efx_mcdi_vadaptor_alloc |-> efx_mcdi_vadaptor_alloc,
   efx_mcdi_vadaptor_free |-> efx_mcdi_vadaptor_free,
   efx_mcdi_get_mac_address_pf |-> efx_mcdi_get_mac_address_pf,
   efx_mcdi_get_mac_address_vf |-> efx_mcdi_get_mac_address_vf,
   efx_mcdi_get_clock |-> efx_mcdi_get_clock,
   efx_mcdi_get_vector_cfg |-> efx_mcdi_get_vector_cfg,
   efx_mcdi_get_capabilities |-> efx_mcdi_get_capabilities,
   efx_mcdi_alloc_vis |-> efx_mcdi_alloc_vis, efx_mcdi_free_vis |-> efx_mcdi_free_vis,
   efx_mcdi_alloc_piobuf |-> efx_mcdi_alloc_piobuf,
   efx_mcdi_free_piobuf |-> efx_mcdi_free_piobuf,
   efx_mcdi_link_piobuf |-> efx_mcdi_link_piobuf,
   efx_mcdi_unlink_piobuf |-> efx_mcdi_unlink_piobuf, ef10_nic_reset |-> ef10_nic_reset,
   ef10_phy_get_link |-> ef10_phy_get_link,
   ef10_phy_reconfigure |-> ef10_phy_reconfigure, ef10_phy_verify |-> ef10_phy_verify,
   efx_mcdi_init_rxq |-> efx_mcdi_init_rxq, efx_mcdi_fini_rxq |-> efx_mcdi_fini_rxq,
   efx_mcdi_rss_context_alloc |-> efx_mcdi_rss_context_alloc,
   efx_mcdi_rss_context_free |-> efx_mcdi_rss_context_free,
   efx_mcdi_rss_context_set_flags |-> efx_mcdi_rss_context_set_flags,
   efx_mcdi_rss_context_set_key |-> efx_mcdi_rss_context_set_key,
   efx_mcdi_rss_context_set_table |-> efx_mcdi_rss_context_set_table,
   efx_mcdi_init_txq |-> efx_mcdi_init_txq, efx_mcdi_fini_txq |-> efx_mcdi_fini_txq,
   efx_mcdi_version |-> efx_mcdi_version, efx_mcdi_do_reboot |-> efx_mcdi_do_reboot,
   efx_mcdi_read_assertion |-> efx_mcdi_read_assertion,
   efx_mcdi_drv_attach |-> efx_mcdi_drv_attach,
   efx_mcdi_get_board_cfg |-> efx_mcdi_get_board_cfg,
   efx_mcdi_get_resource_limits |-> efx_mcdi_get_resource_limits,
   efx_mcdi_get_phy_cfg |-> efx_mcdi_get_phy_cfg,
   efx_mcdi_bist_enable_offline |-> efx_mcdi_bist_enable_offline,
   efx_mcdi_bist_start |-> efx_mcdi_bist_start, efx_mcdi_log_ctrl |-> efx_mcdi_log_ctrl,
   efx_mcdi_mac_stats |-> efx_mcdi_mac_stats,
   efx_mcdi_get_function_info |-> efx_mcdi_get_function_info,
   efx_mcdi_privilege_mask |-> efx_mcdi_privilege_mask,
   efx_mcdi_set_workaround |-> efx_mcdi_set_workaround,
   efx_mcdi_get_workarounds |-> efx_mcdi_get_workarounds,
   efx_mcdi_get_phy_media_info |-> efx_mcdi_get_phy_media_info,
   efx_mcdi_get_loopback_modes |-> efx_mcdi_get_loopback_modes,
   efx_mcdi_nvram_partitions |-> efx_mcdi_nvram_partitions,
   efx_mcdi_nvram_metadata |-> efx_mcdi_nvram_metadata,
   efx_mcdi_nvram_info |-> efx_mcdi_nvram_info,
   efx_mcdi_nvram_update_start |-> efx_mcdi_nvram_update_start,
   efx_mcdi_nvram_read |-> efx_mcdi_nvram_read,
   efx_mcdi_nvram_erase |-> efx_mcdi_nvram_erase,
   efx_mcdi_nvram_write |-> efx_mcdi_nvram_write,
   efx_mcdi_nvram_update_finish |-> efx_mcdi_nvram_update_finish,
   efx_mcdi_nvram_test |-> efx_mcdi_nvram_test,
   efx_wol_filter_clear |-> efx_wol_filter_clear,
   efx_wol_filter_add |-> efx_wol_filter_add,
   efx_wol_filter_remove |-> efx_wol_filter_remove,
   efx_lightsout_offload_add |-> efx_lightsout_offload_add,
   efx_lightsout_offload_remove |-> efx_lightsout_offload_remove,
   hunt_bist_poll |-> hunt_bist_poll, efx_mcdi_read_sensors |-> efx_mcdi_read_sensors,
   efx_mcdi_sensor_info_npages |-> efx_mcdi_sensor_info_npages,
   efx_mcdi_sensor_info |-> efx_mcdi_sensor_info,
   siena_mac_reconfigure |-> siena_mac_reconfigure,
   siena_nic_get_partn_mask |-> siena_nic_get_partn_mask,
   siena_nic_reset |-> siena_nic_reset,
   siena_nvram_get_subtype |-> siena_nvram_get_subtype,
   siena_phy_get_link |-> siena_phy_get_link,
   siena_phy_reconfigure |-> siena_phy_reconfigure,
   siena_phy_verify |-> siena_phy_verify,
   siena_phy_stats_update |-> siena_phy_stats_update,
   siena_phy_bist_poll |-> siena_phy_bist_poll]
=============================================================================
