----------------------------- MODULE McdiLayout -----------------------------
(***************************************************************************)
(* The requests and responses of the management controller the common code *)
(* uses (common/efx_regs_mcdi.h).  One record per command, named as the    *)
(* header names it without MC_CMD_: the lengths of the messages, and of    *)
(* every field the driver touches the bytes it takes.  A message that ends *)
(* in a list has a function of the number of its elements.                 *)
(***************************************************************************)
EXTENDS Naturals

Bytes(ofst, len) == ofst..(ofst + len - 1)
Byte(ofst) == Bytes(ofst, 1)
Word(ofst) == Bytes(ofst, 2)
Dword(ofst) == Bytes(ofst, 4)
Qword(ofst) == Bytes(ofst, 8)

GET_BOOT_STATUS ==
  [IN_LEN |-> 0, OUT_LEN |-> 8, OUT_FLAGS |-> Dword(4)]

GET_ASSERTS ==
  [IN_LEN |-> 4, IN_CLEAR |-> Dword(0), OUT_LEN |-> 140, OUT_GLOBAL_FLAGS |-> Dword(0),
   OUT_SAVED_PC_OFFS |-> Dword(4), OUT_GP_REGS_OFFS |-> Bytes(8, 124),
   OUT_THREAD_OFFS |-> Dword(132)]

LOG_CTRL ==
  [IN_LEN |-> 8, IN_LOG_DEST |-> Dword(0), IN_LOG_DEST_EVQ |-> Dword(4), OUT_LEN |-> 0]

GET_VERSION ==
  [IN_LEN |-> 0, OUT_LEN |-> 32, V0_OUT_LEN |-> 4, OUT_FIRMWARE |-> Dword(0),
   OUT_VERSION |-> Qword(24)]

GET_BOARD_CFG ==
  [IN_LEN |-> 0, OUT_LENMIN |-> 96, OUT_LENMAX |-> 136, OUT_BOARD_TYPE |-> Dword(0),
   OUT_CAPABILITIES_PORT0 |-> Dword(36), OUT_CAPABILITIES_PORT1 |-> Dword(40),
   OUT_MAC_ADDR_BASE_PORT0 |-> Bytes(44, 6), OUT_MAC_ADDR_BASE_PORT1 |-> Bytes(50, 6),
   OUT_FW_SUBTYPE_LIST_OFST |-> 72]

DRV_ATTACH ==
  [IN_LEN |-> 12, IN_NEW_STATE |-> Dword(0), IN_UPDATE |-> Dword(4),
   IN_FIRMWARE_ID |-> Dword(8), EXT_OUT_LEN |-> 8, OUT_LEN |-> 4,
   EXT_OUT_FUNC_FLAGS |-> Dword(4)]

ENTITY_RESET ==
  [IN_LEN |-> 4, IN_FLAG |-> Dword(0), OUT_LEN |-> 0]

GET_PHY_CFG ==
  [IN_LEN |-> 0, OUT_LEN |-> 72, OUT_FLAGS |-> Dword(0), OUT_TYPE |-> Dword(4),
   OUT_SUPPORTED_CAP |-> Dword(8), OUT_CHANNEL |-> Dword(12), OUT_PRT |-> Dword(16),
   OUT_STATS_MASK |-> Dword(20), OUT_NAME |-> Bytes(24, 20),
   OUT_MEDIA_TYPE |-> Dword(44), OUT_REVISION |-> Bytes(52, 20)]

START_BIST ==
  [IN_LEN |-> 4, IN_TYPE |-> Dword(0), OUT_LEN |-> 0]

POLL_BIST ==
  [IN_LEN |-> 0, OUT_SFT9001_LEN |-> 36, OUT_RESULT |-> Dword(0),
   OUT_MEM_TEST |-> Dword(4), OUT_MRSFP_TEST |-> Dword(4),
   OUT_SFT9001_CABLE_LENGTH_A |-> Dword(4), OUT_MEM_ADDR |-> Dword(8),
   OUT_SFT9001_CABLE_LENGTH_B |-> Dword(8), OUT_MEM_BUS |-> Dword(12),
   OUT_SFT9001_CABLE_LENGTH_C |-> Dword(12), OUT_MEM_EXPECT |-> Dword(16),
   OUT_SFT9001_CABLE_LENGTH_D |-> Dword(16), OUT_MEM_ACTUAL |-> Dword(20),
   OUT_SFT9001_CABLE_STATUS_A |-> Word(20), OUT_MEM_ECC |-> Dword(24),
   OUT_SFT9001_CABLE_STATUS_B |-> Word(24), OUT_MEM_ECC_PARITY |-> Dword(28),
   OUT_SFT9001_CABLE_STATUS_C |-> Word(28), OUT_MEM_ECC_FATAL |-> Dword(32),
   OUT_SFT9001_CABLE_STATUS_D |-> Word(32)]

GET_LOOPBACK_MODES ==
  [IN_LEN |-> 0, OUT_LEN |-> 40, OUT_100M |-> Qword(0), OUT_1G |-> Qword(8),
   OUT_10G |-> Qword(16), OUT_SUGGESTED |-> Qword(24), OUT_40G |-> Qword(32)]

GET_LINK ==
  [IN_LEN |-> 0, OUT_LEN |-> 28, OUT_CAP |-> Dword(0), OUT_LP_CAP |-> Dword(4),
   OUT_LINK_SPEED |-> Dword(8), OUT_LOOPBACK_MODE |-> Dword(12),
   OUT_FLAGS |-> Dword(16), OUT_FCNTL |-> Dword(20), OUT_MAC_FAULT |-> Dword(24)]

SET_LINK ==
  [IN_LEN |-> 16, IN_CAP |-> Dword(0), IN_FLAGS |-> Dword(4),
   IN_LOOPBACK_MODE |-> Dword(8), IN_LOOPBACK_SPEED |-> Dword(12), OUT_LEN |-> 0]

SET_ID_LED ==
  [IN_LEN |-> 4, IN_STATE |-> Dword(0), OUT_LEN |-> 0]

SET_MAC ==
  [EXT_IN_LEN |-> 32, IN_LEN |-> 28, EXT_IN_MTU |-> Dword(0), IN_MTU |-> Dword(0),
   IN_DRAIN |-> Dword(4), IN_ADDR |-> Qword(8), IN_REJECT |-> Dword(16),
   IN_FCNTL |-> Dword(20), IN_FLAGS |-> Dword(24), EXT_IN_CONTROL |-> Dword(28),
   OUT_LEN |-> 0]

PHY_STATS ==
  [IN_LEN |-> 8, IN_DMA_ADDR_LO |-> Dword(0), IN_DMA_ADDR_HI |-> Dword(4),
   OUT_DMA_LEN |-> 0]

MAC_STATS ==
  [IN_LEN |-> 20, IN_DMA_ADDR_LO |-> Dword(0), IN_DMA_ADDR_HI |-> Dword(4),
   IN_CMD |-> Dword(8), IN_DMA_LEN |-> Dword(12), IN_PORT_ID |-> Dword(16),
   OUT_DMA_LEN |-> 0]

WOL_FILTER_SET ==
  [IN_LEN |-> 192, IN_FILTER_MODE |-> Dword(0), IN_WOL_TYPE |-> Dword(4),
   IN_MAGIC_MAC |-> Qword(8), IN_BITMAP_MASK |-> Bytes(8, 48), IN_LINK_MASK |-> Byte(8),
   IN_BITMAP_BITMAP |-> Bytes(56, 128), IN_BITMAP_LEN |-> Dword(184), OUT_LEN |-> 4,
   OUT_FILTER_ID |-> Dword(0)]

WOL_FILTER_REMOVE ==
  [IN_LEN |-> 4, IN_FILTER_ID |-> Dword(0), OUT_LEN |-> 0]

WOL_FILTER_RESET ==
  [IN_LEN |-> 4, IN_MASK |-> Dword(0), OUT_LEN |-> 0]

SET_MCAST_HASH ==
  [IN_LEN |-> 32, IN_HASH0 |-> Bytes(0, 16), IN_HASH1 |-> Bytes(16, 16), OUT_LEN |-> 0]

NVRAM_TYPES ==
  [IN_LEN |-> 0, OUT_LEN |-> 4, OUT_TYPES |-> Dword(0)]

NVRAM_INFO ==
  [IN_LEN |-> 4, IN_TYPE |-> Dword(0), V2_OUT_LEN |-> 28, OUT_LEN |-> 24,
   OUT_SIZE |-> Dword(4), OUT_ERASESIZE |-> Dword(8), OUT_PHYSADDR |-> Dword(20),
   V2_OUT_WRITESIZE |-> Dword(24)]

NVRAM_UPDATE_START ==
  [IN_LEN |-> 4, IN_TYPE |-> Dword(0), OUT_LEN |-> 0]

NVRAM_READ ==
  [IN_V2_LEN |-> 16, IN_V2_TYPE |-> Dword(0), IN_V2_OFFSET |-> Dword(4),
   IN_V2_LENGTH |-> Dword(8), IN_V2_MODE |-> Dword(12), OUT_LENMAX |-> 252,
   OUT_LEN |-> [n \in 1..252 |-> n], OUT_READ_BUFFER |-> [n \in 1..252 |-> Bytes(0, n)]]

NVRAM_WRITE ==
  [IN_LEN |-> [n \in 0..1012 |-> 12 + n], IN_TYPE |-> Dword(0), IN_OFFSET |-> Dword(4),
   IN_LENGTH |-> Dword(8), IN_WRITE_BUFFER |-> [n \in 0..1012 |-> Bytes(12, n)],
   OUT_LEN |-> 0]

NVRAM_ERASE ==
  [IN_LEN |-> 12, IN_TYPE |-> Dword(0), IN_OFFSET |-> Dword(4), IN_LENGTH |-> Dword(8),
   OUT_LEN |-> 0]

NVRAM_UPDATE_FINISH ==
  [IN_LEN |-> 8, IN_TYPE |-> Dword(0), IN_REBOOT |-> Dword(4), OUT_LEN |-> 0]

REBOOT ==
  [IN_LEN |-> 4, IN_FLAGS |-> Dword(0), OUT_LEN |-> 0]

SENSOR_INFO ==
  [EXT_IN_LEN |-> 4, EXT_IN_PAGE |-> Dword(0), OUT_LENMAX |-> 252,
   OUT_MASK |-> Dword(0)]

READ_SENSORS ==
  [EXT_IN_LEN |-> 12, EXT_IN_DMA_ADDR_LO |-> Dword(0), EXT_IN_DMA_ADDR_HI |-> Dword(4),
   EXT_IN_LENGTH |-> Dword(8), EXT_OUT_LEN |-> 0]

GET_PHY_STATE ==
  [IN_LEN |-> 0, OUT_LEN |-> 4, OUT_STATE |-> Dword(0)]

ADD_LIGHTSOUT_OFFLOAD ==
  [IN_NS_LEN |-> 42, IN_ARP_LEN |-> 14, IN_PROTOCOL |-> Dword(0),
   IN_ARP_MAC |-> Bytes(4, 6), IN_NS_MAC |-> Bytes(4, 6), IN_ARP_IP |-> Dword(10),
   IN_NS_SNIPV6 |-> Bytes(10, 16), IN_NS_IPV6 |-> Bytes(26, 16), OUT_LEN |-> 4,
   OUT_FILTER_ID |-> Dword(0)]

REMOVE_LIGHTSOUT_OFFLOAD ==
  [IN_LEN |-> 8, IN_PROTOCOL |-> Dword(0), IN_FILTER_ID |-> Dword(4), OUT_LEN |-> 0]

WORKAROUND ==
  [IN_LEN |-> 8, IN_TYPE |-> Dword(0), IN_ENABLED |-> Dword(4), OUT_LEN |-> 0,
   EXT_OUT_LEN |-> 4, EXT_OUT_FLAGS |-> Dword(0)]

GET_PHY_MEDIA_INFO ==
  [IN_LEN |-> 4, IN_PAGE |-> Dword(0), OUT_LEN |-> [n \in 1..248 |-> 4 + n],
   OUT_DATALEN |-> Dword(0), OUT_DATA |-> [n \in 1..248 |-> Bytes(4, n)]]

NVRAM_TEST ==
  [IN_LEN |-> 4, IN_TYPE |-> Dword(0), OUT_LEN |-> 4, OUT_RESULT |-> Dword(0)]

GET_RESOURCE_LIMITS ==
  [IN_LEN |-> 0, OUT_LEN |-> 16, OUT_EVQ |-> Dword(4), OUT_RXQ |-> Dword(8),
   OUT_TXQ |-> Dword(12)]

NVRAM_PARTITIONS ==
  [IN_LEN |-> 0, OUT_LENMIN |-> 4, OUT_LENMAX |-> 252,
   OUT_LEN |-> [n \in 0..62 |-> 4 + 4 * n], OUT_NUM_PARTITIONS |-> Dword(0),
   OUT_TYPE_ID |-> [n \in 0..62 |-> Bytes(4, 4 * n)]]

NVRAM_METADATA ==
  [IN_LEN |-> 4, IN_TYPE |-> Dword(0), OUT_LENMIN |-> 20, OUT_LENMAX |-> 252,
   OUT_LEN |-> [n \in 0..232 |-> 20 + n], OUT_FLAGS |-> Dword(4),
   OUT_SUBTYPE |-> Dword(8), OUT_VERSION_W |-> Word(12), OUT_VERSION_X |-> Word(14),
   OUT_VERSION_Y |-> Word(16), OUT_VERSION_Z |-> Word(18)]

GET_MAC_ADDRESSES ==
  [IN_LEN |-> 0, OUT_LEN |-> 16, OUT_MAC_ADDR_BASE |-> Bytes(0, 6),
   OUT_MAC_COUNT |-> Dword(8)]

INIT_EVQ ==
  [IN_LEN |-> [n \in 1..64 |-> 36 + 8 * n], IN_LENMAX |-> 548, IN_SIZE |-> Dword(0),
   IN_INSTANCE |-> Dword(4), IN_TMR_LOAD |-> Dword(8), IN_TMR_RELOAD |-> Dword(12),
   IN_FLAGS |-> Dword(16), IN_TMR_MODE |-> Dword(20), IN_IRQ_NUM |-> Dword(24),
   IN_COUNT_MODE |-> Dword(28), IN_COUNT_THRSHLD |-> Dword(32),
   IN_DMA_ADDR |-> [n \in 1..64 |-> Bytes(36, 8 * n)], OUT_LEN |-> 4, OUT_IRQ |-> Dword(0)]

INIT_RXQ ==
  [IN_LEN |-> [n \in 1..28 |-> 28 + 8 * n], IN_SIZE |-> Dword(0),
   IN_TARGET_EVQ |-> Dword(4), IN_LABEL |-> Dword(8), IN_INSTANCE |-> Dword(12),
   IN_FLAGS |-> Dword(16), IN_OWNER_ID |-> Dword(20), IN_PORT_ID |-> Dword(24),
   IN_DMA_ADDR |-> [n \in 1..28 |-> Bytes(28, 8 * n)], OUT_LEN |-> 0]

INIT_TXQ ==
  [IN_LEN |-> [n \in 1..28 |-> 28 + 8 * n], IN_SIZE |-> Dword(0),
   IN_TARGET_EVQ |-> Dword(4), IN_LABEL |-> Dword(8), IN_INSTANCE |-> Dword(12),
   IN_FLAGS |-> Dword(16), IN_OWNER_ID |-> Dword(20), IN_PORT_ID |-> Dword(24),
   IN_DMA_ADDR |-> [n \in 1..28 |-> Bytes(28, 8 * n)], OUT_LEN |-> 0]

FINI_EVQ ==
  [IN_LEN |-> 4, IN_INSTANCE |-> Dword(0), OUT_LEN |-> 0]

FINI_RXQ ==
  [IN_LEN |-> 4, IN_INSTANCE |-> Dword(0), OUT_LEN |-> 0]

FINI_TXQ ==
  [IN_LEN |-> 4, IN_INSTANCE |-> Dword(0), OUT_LEN |-> 0]

DRIVER_EVENT ==
  [IN_LEN |-> 12, IN_EVQ |-> Dword(0), IN_DATA_LO |-> Dword(4), IN_DATA_HI |-> Dword(8),
   OUT_LEN |-> 0]

FILTER_OP ==
  [IN_LEN |-> 108, IN_OP |-> Dword(0), IN_HANDLE_LO |-> Dword(4),
   IN_HANDLE_HI |-> Dword(8), IN_PORT_ID |-> Dword(12), IN_MATCH_FIELDS |-> Dword(16),
   IN_RX_DEST |-> Dword(20), IN_RX_QUEUE |-> Dword(24), IN_RX_MODE |-> Dword(28),
   IN_RX_CONTEXT |-> Dword(32), IN_TX_DEST |-> Dword(40), IN_SRC_MAC |-> Bytes(44, 6),
   IN_SRC_PORT |-> Word(50), IN_DST_MAC |-> Bytes(52, 6), IN_DST_PORT |-> Word(58),
   IN_ETHER_TYPE |-> Word(60), IN_INNER_VLAN |-> Word(62), IN_OUTER_VLAN |-> Word(64),
   IN_IP_PROTO |-> Byte(66), IN_SRC_IP |-> Bytes(76, 16), IN_DST_IP |-> Bytes(92, 16),
   OUT_LEN |-> 12, OUT_HANDLE_LO |-> Dword(4), OUT_HANDLE_HI |-> Dword(8)]

GET_PARSER_DISP_INFO ==
  [IN_LEN |-> 4, OUT_LEN |-> [n \in 0..61 |-> 8 + 4 * n], OUT_LENMAX |-> 252,
   OUT_OP |-> Dword(0), OUT_NUM_SUPPORTED_MATCHES |-> Dword(4),
   OUT_SUPPORTED_MATCHES |-> [n \in 0..61 |-> Bytes(8, 4 * n)]]

GET_PORT_ASSIGNMENT ==
  [IN_LEN |-> 0, OUT_LEN |-> 4, OUT_PORT |-> Dword(0)]

ALLOC_VIS ==
  [IN_LEN |-> 8, IN_MIN_VI_COUNT |-> Dword(0), IN_MAX_VI_COUNT |-> Dword(4),
   OUT_LEN |-> 8, EXT_OUT_LEN |-> 12, OUT_VI_COUNT |-> Dword(0),
   OUT_VI_BASE |-> Dword(4), EXT_OUT_VI_SHIFT |-> Dword(8)]

ALLOC_PIOBUF ==
  [IN_LEN |-> 0, OUT_LEN |-> 4, OUT_PIOBUF_HANDLE |-> Dword(0)]

FREE_PIOBUF ==
  [IN_LEN |-> 4, IN_PIOBUF_HANDLE |-> Dword(0), OUT_LEN |-> 0]

GET_CAPABILITIES ==
  [IN_LEN |-> 0, V2_OUT_LEN |-> 72, OUT_LEN |-> 20, OUT_FLAGS1 |-> Dword(0),
   V2_OUT_FLAGS2 |-> Dword(20)]

LINK_PIOBUF ==
  [IN_LEN |-> 8, IN_PIOBUF_HANDLE |-> Dword(0), IN_TXQ_INSTANCE |-> Dword(4),
   OUT_LEN |-> 0]

UNLINK_PIOBUF ==
  [IN_LEN |-> 4, IN_TXQ_INSTANCE |-> Dword(0), OUT_LEN |-> 0]

VADAPTOR_ALLOC ==
  [IN_LEN |-> 30, IN_UPSTREAM_PORT_ID |-> Dword(0), IN_FLAGS |-> Dword(8),
   OUT_LEN |-> 0]

VADAPTOR_FREE ==
  [IN_LEN |-> 4, IN_UPSTREAM_PORT_ID |-> Dword(0), OUT_LEN |-> 0]

VADAPTOR_SET_MAC ==
  [IN_LEN |-> 10, IN_UPSTREAM_PORT_ID |-> Dword(0), IN_MACADDR |-> Bytes(4, 6),
   OUT_LEN |-> 0]

RSS_CONTEXT_ALLOC ==
  [IN_LEN |-> 12, IN_UPSTREAM_PORT_ID |-> Dword(0), IN_TYPE |-> Dword(4),
   IN_NUM_QUEUES |-> Dword(8), OUT_LEN |-> 4, OUT_RSS_CONTEXT_ID |-> Dword(0)]

RSS_CONTEXT_FREE ==
  [IN_LEN |-> 4, IN_RSS_CONTEXT_ID |-> Dword(0), OUT_LEN |-> 0]

RSS_CONTEXT_SET_KEY ==
  [IN_LEN |-> 44, IN_RSS_CONTEXT_ID |-> Dword(0), IN_TOEPLITZ_KEY |-> Bytes(4, 40),
   OUT_LEN |-> 0]

RSS_CONTEXT_SET_TABLE ==
  [IN_LEN |-> 132, IN_RSS_CONTEXT_ID |-> Dword(0),
   IN_INDIRECTION_TABLE |-> Bytes(4, 128), OUT_LEN |-> 0]

RSS_CONTEXT_SET_FLAGS ==
  [IN_LEN |-> 8, IN_RSS_CONTEXT_ID |-> Dword(0), IN_FLAGS |-> Dword(4), OUT_LEN |-> 0]

GET_VECTOR_CFG ==
  [IN_LEN |-> 0, OUT_LEN |-> 12, OUT_VEC_BASE |-> Dword(0),
   OUT_VECS_PER_PF |-> Dword(4), OUT_VECS_PER_VF |-> Dword(8)]

VPORT_GET_MAC_ADDRESSES ==
  [IN_LEN |-> 4, IN_VPORT_ID |-> Dword(0), OUT_LENMAX |-> 250, OUT_LENMIN |-> 4,
   OUT_MACADDR_COUNT |-> Dword(0), OUT_MACADDR |-> Bytes(4, 6)]

GET_CLOCK ==
  [IN_LEN |-> 0, OUT_LEN |-> 8, OUT_SYS_FREQ |-> Dword(0)]

TRIGGER_INTERRUPT ==
  [IN_LEN |-> 4, IN_INTR_LEVEL |-> Dword(0), OUT_LEN |-> 0]

GET_FUNCTION_INFO ==
  [IN_LEN |-> 0, OUT_LEN |-> 8, OUT_PF |-> Dword(0), OUT_VF |-> Dword(4)]

GET_PORT_MODES ==
  [IN_LEN |-> 0, OUT_LEN |-> 12, OUT_CURRENT_MODE_OFST |-> 8, OUT_MODES |-> Dword(0)]

GET_WORKAROUNDS ==
  [OUT_LEN |-> 8, OUT_IMPLEMENTED |-> Dword(0), OUT_ENABLED |-> Dword(4)]

PRIVILEGE_MASK ==
  [IN_LEN |-> 8, IN_FUNCTION |-> Dword(0), OUT_LEN |-> 4, OUT_OLD_MASK |-> Dword(0)]
=============================================================================
