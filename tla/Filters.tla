------------------------------ MODULE Filters ------------------------------
(***************************************************************************)
(* efx_filter.c gives both families of chips one interface: the operations *)
(* of en_efop, chosen once by the family when the NIC is probed.  Only     *)
(* EF10 has a reconfigure operation, and Siena's filters are inserted and  *)
(* removed by callers.                                                     *)
(***************************************************************************)
EXTENDS Ef10Filter

CONSTANTS Gen, Size, SrchMax, Home, Stride, MaxCalls
VARIABLES family, sftSpec, sftUsed, sfDepth, row, limit, lost, calls

S == INSTANCE SienaFilter
H == INSTANCE SienaHash

ASSUME SienaAssumption ==
  /\ Size \in [S!Tbls -> {0, 1, 2, 4, 8, 16}]   \* a power of 2
  /\ SrchMax \in Nat \ {0} /\ MaxCalls \in Nat
  /\ Home = [n \in DOMAIN Gen |-> H!Hash(H!Key(H!FromGen(Gen[n])))]
  /\ Stride = [n \in DOMAIN Gen |-> H!Increment(H!Key(H!FromGen(Gen[n])))]

sienavars == <<sftSpec, sftUsed, sfDepth, row, limit, lost, calls>>
allvars   == <<vars, family, sienavars>>

InitFilters == family \in {"SIENA", "HUNTINGTON"} /\ Init /\ S!Init

NextEf10  == family = "HUNTINGTON" /\ Next /\ UNCHANGED <<family, sienavars>>
NextSiena == family = "SIENA" /\ S!Next /\ UNCHANGED <<family, vars>>

SpecFilters == InitFilters /\ [][NextEf10 \/ NextSiena]_allvars

(* The variables of either family have their types.  Siena's tables are    *)
(* what the NIC has, whatever was added, deleted, cleared or restored, and *)
(* it finds each of their filters within the search limit of its type      *)
(* (siena_filter_push_rx_limits), also after deletions and resets.         *)
TablesAgree == TypeOK /\ S!TypeOK /\ S!HwAgrees /\ S!Found
=============================================================================
