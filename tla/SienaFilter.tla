---------------------------- MODULE SienaFilter ----------------------------
(***************************************************************************)
(* The filter tables of Siena (efx_filter.c).  A filter goes to the first  *)
(* free row of a sequence of rows that its key gives, and the NIC probes   *)
(* the same sequence only as far as the search limit of the filter's type, *)
(* so the limits must follow the deepest filter of each type.  Every       *)
(* operation runs under en_eslp.                                           *)
(*                                                                         *)
(* Left out: the bits of the row apart from the spec they encode, and the  *)
(* allocation of the tables.                                               *)
(***************************************************************************)
EXTENDS SienaHash, FiniteSets

CONSTANTS
  Gen,        \* the generic specs that callers pass, by name
  Size,       \* sft_size of each table; 0 where the chip has no such table
  SrchMax,    \* FILTER_CTL_SRCH_MAX
  Home, Stride, \* the hash and the increment of each
  MaxCalls    \* bound: calls

Tbls == {"RX_IP", "RX_MAC", "TX_IP", "TX_MAC"}

VARIABLES
  sftSpec,    \* the name of the spec in each used row of each table
  sftUsed,    \* sft_used
  sfDepth,    \* sf_depth of each type
  row,        \* the rows of the NIC
  limit,      \* the search limits of the NIC, without the fudge
  lost,       \* the NIC was reset, and its filters are not restored
  calls       \* bound

-----------------------------------------------------------------------------
(* siena_filter_search: the rows are probed from depth 1.                  *)
None == "none"
Spec(n) == FromGen(Gen[n])
Tbl(n)  == TblId(Spec(n).type)
Probe(n, d) == (Home[n] + (d - 1) * Stride[n]) % Size[Tbl(n)]

Equal(m, n) == LET x == Spec(m) s == Spec(n) IN
  /\ x.type = s.type /\ x.dword = s.dword
  /\ s.type.dir = "tx" => x.dmaq = s.dmaq

At(n, d) == sftSpec[Tbl(n)][Probe(n, d)]
Stops(n, forInsert) ==
  {d \in 1..SrchMax : IF At(n, d) # None THEN Equal(At(n, d), n) ELSE forInsert}
Least(D)    == CHOOSE d \in D : \A e \in D : d <= e

-----------------------------------------------------------------------------
Rows(t) == 0..(Size[t] - 1)

Init ==
  /\ sftSpec = [t \in Tbls |-> [i \in Rows(t) |-> None]]
  /\ sftUsed = [t \in Tbls |-> 0] /\ sfDepth = [ty \in Types |-> 0]
  /\ row = sftSpec /\ limit = sfDepth
  /\ lost = FALSE /\ calls = 0

Called == calls < MaxCalls /\ calls' = calls + 1

(* siena_filter_push_rx_limits and _tx_limits: the MAC types only where    *)
(* the chip has the table, and likewise all the types of transmit.         *)
HasLimit(ty, dir) ==
  ty.dir = dir /\ (Size[TblId(ty)] # 0 \/ (dir = "rx" /\ ty.proto # "MAC"))
Pushed(depth, dir) ==
  [ty \in Types |-> IF HasLimit(ty, dir) THEN depth[ty] ELSE limit[ty]]

(* siena_filter_add, which efx_filter_insert does not let replace.  The    *)
(* mutation pushes the limits from before.                                 *)
NewLimitMut(depth, dir) == Pushed(sfDepth, dir)
NewLimit(depth, dir)    == Pushed(depth, dir)

Store(n, d) ==
  LET t  == Tbl(n)
      ty == Spec(n).type
      i  == Probe(n, Least(Stops(n, TRUE)))
  IN /\ sftSpec' = [sftSpec EXCEPT ![t][i] = n]
     /\ sftUsed' = [sftUsed EXCEPT ![t] = @ + 1]
     /\ row' = [row EXCEPT ![t][i] = n]
     /\ IF sfDepth[ty] < d
        THEN /\ sfDepth' = [sfDepth EXCEPT ![ty] = d]
             /\ limit' = NewLimit(sfDepth', ty.dir)
        ELSE UNCHANGED <<sfDepth, limit>>

Add(n) ==
  LET D == Stops(n, TRUE) IN
  /\ Called /\ ~lost /\ UNCHANGED lost
  /\ Valid(Gen[n]) /\ Size[Tbl(n)] # 0              \* else EINVAL
  /\ D # {}                                         \* else EBUSY
  /\ At(n, Least(D)) = None                         \* else EEXIST
  /\ Store(n, Least(D))

(* siena_filter_clear_entry, with the row of the NIC.                      *)
(* siena_filter_reset_search_depth follows when the table is empty.        *)
ClearRow(t, I) == [row EXCEPT ![t] = [i \in Rows(t) |-> IF i \in I THEN None ELSE @[i]]]

Clear(t, I) ==
  LET used == {i \in I : sftSpec[t][i] # None} IN
  /\ sftUsed' = [sftUsed EXCEPT ![t] = @ - Cardinality(used)]
  /\ sftSpec' = [sftSpec EXCEPT ![t] = [i \in Rows(t) |-> IF i \in I THEN None ELSE @[i]]]
  /\ row' = ClearRow(t, used)
  /\ sfDepth' = [ty \in Types |-> IF sftUsed'[t] = 0 /\ TblId(ty) = t THEN 0 ELSE sfDepth[ty]]
  /\ UNCHANGED limit

Delete(n) ==
  LET D == Stops(n, FALSE) IN
  /\ Called /\ ~lost /\ UNCHANGED lost
  /\ Valid(Gen[n]) /\ D # {}                        \* else EINVAL or ENOENT
  /\ Clear(Tbl(n), {Probe(n, Least(D))})

TblClear(t) == Called /\ ~lost /\ UNCHANGED lost /\ Clear(t, Rows(t))

(* The NIC is reset.  siena_filter_restore takes the key that              *)
(* siena_filter_build returns for an error, so it stops at the first       *)
(* filter whose key is not zero.                                           *)
NicReset ==
  /\ Called /\ ~lost /\ lost' = TRUE
  /\ row' = [t \in Tbls |-> [i \in Rows(t) |-> None]]
  /\ limit' = [ty \in Types |-> 0]
  /\ UNCHANGED <<sftSpec, sftUsed, sfDepth>>

UsedRows == UNION {{<<t, i>> : i \in {j \in Rows(t) : sftSpec[t][j] # None}} : t \in Tbls}

Restore ==
  /\ Called /\ lost /\ lost' = FALSE
  /\ \A u \in UsedRows : Key(Spec(sftSpec[u[1]][u[2]])) = 0
  /\ row' = sftSpec
  /\ limit' = [ty \in Types |-> IF HasLimit(ty, ty.dir) THEN sfDepth[ty] ELSE limit[ty]]
  /\ UNCHANGED <<sftSpec, sftUsed, sfDepth>>

Next ==
  \/ \E n \in DOMAIN Gen : Add(n)
  \/ \E n \in DOMAIN Gen : Delete(n)
  \/ \E t \in Tbls : TblClear(t)
  \/ NicReset \/ Restore

-----------------------------------------------------------------------------
(* The rows and the limits have the shape of the tables, and sft_used is   *)
(* the number of used rows.                                                *)
TypeOK ==
  /\ \A t \in Tbls : /\ DOMAIN sftSpec[t] = Rows(t) /\ DOMAIN row[t] = Rows(t)
                     /\ sftUsed[t] = Cardinality({i \in Rows(t) : sftSpec[t][i] # None})
  /\ sfDepth \in [Types -> 0..SrchMax] /\ limit \in [Types -> 0..SrchMax]

(* What the table has is what the NIC has, whatever was added, deleted or  *)
(* cleared, and after a restore that succeeds.                             *)
HwAgrees == ~lost => row = sftSpec

(* The NIC finds every filter: the row of each is on its own sequence of   *)
(* probes and within the search limit of its type, also after deletions    *)
(* and depths that were reset.                                             *)
Found ==
  ~lost => \A u \in UsedRows : LET n == sftSpec[u[1]][u[2]] IN
    \E d \in 1..limit[Spec(n).type] : Probe(n, d) = u[2]
=============================================================================
