---------------------------- MODULE TransmitProofs ----------------------------
(***************************************************************************)
(* Theorems about Transmit for every number of commanders, queues and      *)
(* mbufs.                                                                  *)
(***************************************************************************)
EXTENDS Transmit, Sums

LEMMA QueueFacts == /\ TxQueues \subseteq Nat
                    /\ Pools \subseteq TxQueues
                    /\ \A q \in TxQueues : PoolOf(q) \in Pools
                    /\ \A q \in TxQueues : q + 1 \in 0 .. TxCnt
  BY ConstantsAssumption DEF TxQueues, Pools, PoolOf

(***************************************************************************)
(* Type correctness: every variable keeps its range whatever the threads   *)
(* do.                                                                     *)
(***************************************************************************)
THEOREM TypeCorrect == Spec => []TypeOK
<1>1. Init => TypeOK
  BY ConstantsAssumption, QueueFacts DEF Init, TypeOK, Flags, CmdPCs, CorePCs, StartPCs, StopPCs, ResetPCs
<1>2. TypeOK /\ [Next]_vars => TypeOK'
  <2> SUFFICES ASSUME TypeOK, [Next]_vars PROVE TypeOK'
    OBVIOUS
  <2> USE ConstantsAssumption, QueueFacts DEF TypeOK, Flags, CmdPCs, CorePCs, StartPCs,
          StopPCs, ResetPCs
  <2>1. ASSUME NEW m \in Commanders, CommanderStep(m) PROVE TypeOK'
    <3> USE DEF CmdStep, Command, shared, packets, commander, lcore, buffers, history
    <3>1. CASE StartCommand(m)
      BY <3>1 DEF StartCommand
    <3>2. CASE StopCommand(m)
      BY <3>2 DEF StopCommand
    <3>3. CASE ResetCommand(m)
      BY <3>3 DEF ResetCommand
    <3>4. CASE PrimeCommand(m)
      BY <3>4 DEF PrimeCommand
    <3>5. CASE \E c \in Counts : SetTxCount(m, c)
      BY <3>5 DEF SetTxCount
    <3>6. CASE \E b \in Bursts : SetTxBurst(m, b)
      BY <3>6 DEF SetTxBurst
    <3>7. CASE SetPacket(m)
      BY <3>7 DEF SetPacket
    <3>8. CASE StartTest(m)
      BY <3>8 DEF StartTest
    <3>9. CASE StartCount(m)
      BY <3>9 DEF StartCount
    <3>10. CASE StartForever(m)
      BY <3>10 DEF StartForever
    <3>11. CASE StartSetup(m)
      BY <3>11 DEF StartSetup
    <3>12. CASE StartSending(m)
      BY <3>12 DEF StartSending, SetSending
    <3>13. CASE SetupTest(m)
      BY <3>13 DEF SetupTest
    <3>14. CASE SetupClear(m)
      BY <3>14 DEF SetupClear
    <3>15. CASE SetupPool(m)
      BY <3>15 DEF SetupPool
    <3>16. CASE StopTest(m)
      BY <3>16 DEF StopTest
    <3>17. CASE StopClear(m)
      BY <3>17 DEF StopClear
    <3>18. CASE PrimeSending(m)
      BY <3>18 DEF PrimeSending, SetSending
    <3>19. CASE ResetCount(m)
      BY <3>19 DEF ResetCount
    <3>20. CASE ResetCurrent(m)
      BY <3>20 DEF ResetCurrent
    <3>21. CASE ResetBurst(m)
      BY <3>21 DEF ResetBurst
    <3>22. QED
      BY <2>1, <3>1, <3>2, <3>3, <3>4, <3>5, <3>6, <3>7, <3>8, <3>9, <3>10, <3>11, <3>12,
         <3>13, <3>14, <3>15, <3>16, <3>17, <3>18, <3>19, <3>20, <3>21 DEF CommanderStep
  <2>2. ASSUME NEW q \in TxQueues, TxCoreStep(q) PROVE TypeOK'
    <3> USE DEF CoreStep, shared, packets, commander, lcore, buffers, history
    <3>1. CASE TestSending(q)
      BY <3>1 DEF TestSending
    <3>2. CASE TestForever(q)
      BY <3>2 DEF TestForever
    <3>3. CASE Draw(q)
      BY <3>3 DEF Draw, MinOf
    <3>4. CASE ClearSending(q)
      BY <3>4 DEF ClearSending
    <3>5. CASE Cap(q)
      BY <3>5 DEF Cap, MinOf
    <3>6. CASE GetBulk(q)
      <4>1. PoolOf(q) \in Pools /\ n[q] \in Nat /\ free[PoolOf(q)] \in Nat
        BY <3>6
      <4>2. free' \in [Pools -> Nat]
        BY <3>6, <4>1 DEF GetBulk
      <4>3. late' \in [TxQueues -> Nat] /\ handed' \in Nat
        BY <3>6, <4>1 DEF GetBulk
      <4>4. QED
        BY <3>6, <4>2, <4>3 DEF GetBulk
    <3>7. CASE GetBulkFails(q)
      BY <3>7 DEF GetBulkFails
    <3>8. CASE TxBurst(q)
      BY <3>8 DEF TxBurst, MinOf
    <3>9. QED
      BY <2>2, <3>1, <3>2, <3>3, <3>4, <3>5, <3>6, <3>7, <3>8 DEF TxCoreStep
  <2>3. ASSUME NEW q \in TxQueues, NicTransmit(q) PROVE TypeOK'
    <3>1. PoolOf(q) \in Pools /\ free[PoolOf(q)] \in Nat /\ ring[q] \in 0 .. RingSize
      OBVIOUS
    <3>2. free' \in [Pools -> Nat] /\ ring' \in [TxQueues -> 0 .. RingSize]
      BY <2>3, <3>1 DEF NicTransmit
    <3>3. QED
      BY <2>3, <3>2 DEF NicTransmit, shared, packets, commander, lcore, history
  <2>4. CASE UNCHANGED vars
    BY <2>4 DEF vars, shared, packets, commander, lcore, buffers, history
  <2>5. QED
    BY <2>1, <2>2, <2>3, <2>4 DEF Next
<1>3. QED
  BY <1>1, <1>2, PTL DEF Spec

(***************************************************************************)
(* After a stop every lcore begins at most one more burst.  The invariant  *)
(* is inductive once it says where an lcore is that has had its late       *)
(* burst: it has not passed the test of SENDING_PACKETS again.             *)
(***************************************************************************)
LateInv ==
    \A q \in TxQueues :
        /\ Tst("SENDING_PACKETS") => late[q] = 0
        /\ late[q] <= 1
        /\ late[q] = 1 => core_pc[q] \in {"tx_burst", "test_sending"}

\* What a step may do without disturbing LateInv.
QuietStep ==
    /\ UNCHANGED <<late, core_pc>>
    /\ Tst("SENDING_PACKETS")' => Tst("SENDING_PACKETS")

\* A commander either sets SENDING_PACKETS and opens a new window, or leaves
\* the lcores alone and at most clears the flag.
LEMMA CommanderKeepsLate ==
  ASSUME NEW m \in Commanders, CommanderStep(m)
  PROVE  QuietStep \/ (SetSending /\ UNCHANGED core_pc)
<1> USE DEF Command, shared, packets, lcore, history, QuietStep, Tst
<1>1. CASE PrimeSending(m) \/ StartSending(m)
  BY <1>1 DEF PrimeSending, StartSending
<1>2. CASE StartCommand(m) \/ StopCommand(m) \/ ResetCommand(m) \/ PrimeCommand(m)
  BY <1>2 DEF StartCommand, StopCommand, ResetCommand, PrimeCommand
<1>3. CASE \/ \E c \in Counts : SetTxCount(m, c)
           \/ \E b \in Bursts : SetTxBurst(m, b)
           \/ SetPacket(m)
  BY <1>3 DEF SetTxCount, SetTxBurst, SetPacket
<1>4. CASE StartTest(m) \/ StartCount(m) \/ StartForever(m) \/ StartSetup(m)
  BY <1>4 DEF StartTest, StartCount, StartForever, StartSetup
<1>5. CASE SetupTest(m) \/ SetupClear(m) \/ SetupPool(m)
  BY <1>5 DEF SetupTest, SetupClear, SetupPool
<1>6. CASE StopTest(m) \/ StopClear(m)
  BY <1>6 DEF StopTest, StopClear
<1>7. CASE ResetCount(m) \/ ResetCurrent(m) \/ ResetBurst(m)
  BY <1>7 DEF ResetCount, ResetCurrent, ResetBurst
<1>8. QED
  BY <1>1, <1>2, <1>3, <1>4, <1>5, <1>6, <1>7 DEF CommanderStep

LEMMA LateStep == TypeOK /\ LateInv /\ [Next]_vars => LateInv'
<1> SUFFICES ASSUME TypeOK, LateInv, [Next]_vars PROVE LateInv'
  OBVIOUS
<1>1. ASSUME QuietStep PROVE LateInv'
  BY <1>1 DEF QuietStep, LateInv, TypeOK
<1>2. ASSUME NEW m \in Commanders, CommanderStep(m) PROVE LateInv'
  <2>1. CASE SetSending /\ UNCHANGED core_pc
    BY <2>1 DEF SetSending, LateInv
  <2>2. QED
    BY <1>1, <1>2, <2>1, CommanderKeepsLate
<1>3. ASSUME NEW q \in TxQueues, TxCoreStep(q) PROVE LateInv'
  <2> USE DEF CoreStep, shared, history, LateInv, TypeOK, Tst
  <2>1. CASE TestSending(q)
    BY <1>3, <2>1 DEF TestSending
  <2>2. CASE TestForever(q)
    BY <2>2 DEF TestForever
  <2>3. CASE Draw(q)
    BY <2>3 DEF Draw
  <2>4. CASE ClearSending(q)
    BY <2>4 DEF ClearSending
  <2>5. CASE Cap(q)
    BY <2>5 DEF Cap
  <2>6. CASE GetBulk(q)
    BY <2>6 DEF GetBulk
  <2>7. CASE GetBulkFails(q)
    BY <2>7 DEF GetBulkFails
  <2>8. CASE TxBurst(q)
    BY <2>8 DEF TxBurst
  <2>9. QED
    BY <1>3, <2>1, <2>2, <2>3, <2>4, <2>5, <2>6, <2>7, <2>8 DEF TxCoreStep
<1>4. ASSUME NEW q \in TxQueues, NicTransmit(q) PROVE LateInv'
  BY <1>1, <1>4 DEF NicTransmit, shared, lcore, history, QuietStep, Tst
<1>5. CASE UNCHANGED vars
  BY <1>1, <1>5 DEF vars, shared, lcore, history, QuietStep, Tst
<1>6. QED
  BY <1>2, <1>3, <1>4, <1>5 DEF Next

\* However many commanders and lcores race, no lcore sends a second burst
\* after SENDING_PACKETS was cleared.
THEOREM OneBurst == Spec => []OneBurstAfterStop
<1>1. Init => LateInv
  BY DEF Init, LateInv, Tst
<1>2. TypeOK /\ LateInv => OneBurstAfterStop
  BY DEF TypeOK, LateInv, OneBurstAfterStop
<1>3. QED
  BY <1>1, <1>2, LateStep, TypeCorrect, PTL DEF Spec

(***************************************************************************)
(* Pools that no two queues share and that hold a full descriptor ring and *)
(* one burst never run dry, so no packet that was drawn is lost as long as *)
(* tx_burst is not changed: pool, ring and burst add up.                   *)
(***************************************************************************)
PrivatePools ==
    /\ PcapMode = FALSE
    /\ Bursts = {DefaultBurst}
    /\ PoolSize \in Nat /\ PoolSize >= RingSize + DefaultBurst

PoolInv ==
    /\ tx_burst = DefaultBurst
    /\ lost = 0
    /\ \A q \in TxQueues :
        /\ free[q] + ring[q] + InBurst(q) = PoolSize
        /\ n[q] <= DefaultBurst

\* What a step may do without disturbing PoolInv.
PoolQuiet == UNCHANGED <<tx_burst, lost, free, ring, n, core_pc>>

LEMMA CommanderKeepsPools ==
  ASSUME NEW m \in Commanders, CommanderStep(m), PrivatePools, TypeOK, PoolInv
  PROVE  PoolQuiet
<1> USE DEF Command, shared, packets, lcore, buffers, history, PoolQuiet
<1>1. CASE PrimeSending(m) \/ StartSending(m)
  BY <1>1 DEF PrimeSending, StartSending
<1>2. CASE StartCommand(m) \/ StopCommand(m) \/ ResetCommand(m) \/ PrimeCommand(m)
  BY <1>2 DEF StartCommand, StopCommand, ResetCommand, PrimeCommand
<1>3. CASE \E b \in Bursts : SetTxBurst(m, b)
  BY <1>3 DEF SetTxBurst, PrivatePools, PoolInv
<1>4. CASE SetPacket(m) \/ \E c \in Counts : SetTxCount(m, c)
  BY <1>4 DEF SetTxCount, SetPacket
<1>5. CASE StartTest(m) \/ StartCount(m) \/ StartForever(m) \/ StartSetup(m)
  BY <1>5 DEF StartTest, StartCount, StartForever, StartSetup
<1>6. CASE SetupTest(m) \/ SetupClear(m) \/ SetupPool(m)
  BY <1>6 DEF SetupTest, SetupClear, SetupPool
<1>7. CASE StopTest(m) \/ StopClear(m)
  BY <1>7 DEF StopTest, StopClear
<1>8. CASE ResetCount(m) \/ ResetCurrent(m)
  BY <1>8 DEF ResetCount, ResetCurrent
<1>9. CASE ResetBurst(m)
  BY <1>9 DEF ResetBurst, PoolInv
<1>10. QED
  BY <1>1, <1>2, <1>3, <1>4, <1>5, <1>6, <1>7, <1>8, <1>9 DEF CommanderStep

LEMMA PoolStep == PrivatePools /\ TypeOK /\ PoolInv /\ [Next]_vars => PoolInv'
<1> SUFFICES ASSUME PrivatePools, TypeOK, PoolInv, [Next]_vars PROVE PoolInv'
  OBVIOUS
<1>a. Pools = TxQueues /\ \A q \in TxQueues : PoolOf(q) = q
  BY DEF PrivatePools, Pools, PoolOf
<1>b. /\ DefaultBurst \in Nat \ {0} /\ RingSize \in Nat /\ PoolSize \in Nat
      /\ PoolSize >= RingSize + DefaultBurst
  BY ConstantsAssumption DEF PrivatePools
<1>c. \A q \in TxQueues : free[q] \in Nat /\ ring[q] \in 0 .. RingSize /\ n[q] \in Nat
  BY <1>a DEF TypeOK
<1>1. ASSUME PoolQuiet PROVE PoolInv'
  BY <1>1 DEF PoolQuiet, PoolInv, InBurst
<1>2. ASSUME NEW m \in Commanders, CommanderStep(m) PROVE PoolInv'
  BY <1>1, <1>2, CommanderKeepsPools
<1>3. ASSUME NEW q \in TxQueues, TxCoreStep(q) PROVE PoolInv'
  <2> USE <1>a, <1>b, <1>c DEF CoreStep, shared, buffers, history, PoolInv, InBurst, TypeOK
  <2>1. CASE TestSending(q)
    BY <2>1 DEF TestSending
  <2>2. CASE TestForever(q)
    BY <2>2 DEF TestForever
  <2>3. CASE Draw(q)
    BY <2>3 DEF Draw, MinOf
  <2>4. CASE ClearSending(q)
    BY <2>4 DEF ClearSending
  <2>5. CASE Cap(q)
    BY <2>5 DEF Cap, MinOf
  <2>6. CASE GetBulk(q)
    BY <2>6 DEF GetBulk
  <2>7. CASE GetBulkFails(q)
    BY <2>7 DEF GetBulkFails
  <2>8. CASE TxBurst(q)
    BY <2>8 DEF TxBurst, MinOf
  <2>9. QED
    BY <1>3, <2>1, <2>2, <2>3, <2>4, <2>5, <2>6, <2>7, <2>8 DEF TxCoreStep
<1>4. ASSUME NEW q \in TxQueues, NicTransmit(q) PROVE PoolInv'
  BY <1>4, <1>a, <1>b, <1>c DEF NicTransmit, shared, lcore, history, PoolInv, InBurst, TypeOK
<1>5. CASE UNCHANGED vars
  BY <1>1, <1>5 DEF vars, shared, lcore, buffers, history, PoolQuiet
<1>6. QED
  BY <1>2, <1>3, <1>4, <1>5 DEF Next

\* With private pools of that size rte_mempool_get_bulk never fails: every
\* packet a counted run drew is given to the NIC.
THEOREM NothingIsLost == PrivatePools /\ Spec => []NothingLost
<1>1. PrivatePools /\ Init => PoolInv
  BY ConstantsAssumption DEF PrivatePools, Init, PoolInv, InBurst, Pools
<1>2. PoolInv => NothingLost
  BY DEF PoolInv, NothingLost
<1>3. CASE PrivatePools
  BY <1>1, <1>2, <1>3, PoolStep, TypeCorrect, PTL DEF Spec
<1>4. QED
  BY <1>3


(***************************************************************************)
(* The ledgers.  Each step moves packets and mbufs of one lcore from one   *)
(* account to another, so that the sums over all lcores change by as much. *)
(* That needs to know where an lcore is whose n packets were drawn.        *)
(***************************************************************************)
CountedInv ==
    \A q \in TxQueues :
        /\ q \in counted => core_pc[q] \in {"cap", "get_bulk"}
        /\ core_pc[q] = "cap" => q \in counted \/ n[q] = 0

LedgerInv == CountedInv /\ NothingIsUnaccounted

LEMMA QueuesAreFinite ==
  IsFiniteSet(TxQueues) /\ \A p \in Pools : IsFiniteSet(UsersOf(p)) /\ UsersOf(p) \subseteq TxQueues
<1>1. IsFiniteSet(TxQueues)
  BY FS_Interval, ConstantsAssumption DEF TxQueues
<1>2. QED
  BY <1>1, FS_Subset DEF UsersOf

\* What a step may do without disturbing the ledgers.
AccountsKept ==
    /\ UNCHANGED <<core_pc, n, counted, handed, lost, free, ring>>
    /\ issued' - current_tx_count' = issued - current_tx_count

LEMMA CommanderKeepsAccounts ==
  ASSUME NEW m \in Commanders, CommanderStep(m), TypeOK
  PROVE  AccountsKept
<1> USE ConstantsAssumption
    DEF Command, shared, packets, lcore, buffers, history, AccountsKept
<1>1. CASE PrimeSending(m) \/ StartSending(m)
  BY <1>1 DEF PrimeSending, SetSending, StartSending
<1>2. CASE StartCommand(m) \/ StopCommand(m) \/ ResetCommand(m)
  BY <1>2 DEF StartCommand, StopCommand, ResetCommand
<1>3. CASE \/ \E c \in Counts : SetTxCount(m, c)
           \/ \E b \in Bursts : SetTxBurst(m, b)
           \/ SetPacket(m)
  BY <1>3 DEF SetTxCount, SetTxBurst, SetPacket
<1>4. CASE StartTest(m) \/ StartForever(m) \/ StartSetup(m)
  BY <1>4 DEF StartTest, StartForever, StartSetup
<1>5. CASE SetupTest(m) \/ SetupClear(m) \/ SetupPool(m)
  BY <1>5 DEF SetupTest, SetupClear, SetupPool
<1>6. CASE StopTest(m) \/ StopClear(m)
  BY <1>6 DEF StopTest, StopClear
<1>7. CASE ResetCount(m) \/ ResetBurst(m)
  BY <1>7 DEF ResetCount, ResetBurst
<1>8. CASE PrimeCommand(m)
  BY <1>8 DEF PrimeCommand, TypeOK
<1>9. CASE StartCount(m)
  BY <1>9 DEF StartCount, TypeOK
<1>10. CASE ResetCurrent(m)
  BY <1>10 DEF ResetCurrent, TypeOK
<1> HIDE DEF Command, shared, packets, lcore, buffers, history, AccountsKept
<1>11. QED
  BY <1>1, <1>2, <1>3, <1>4, <1>5, <1>6, <1>7, <1>8, <1>9, <1>10 DEF CommanderStep

LEMMA TermsAreNat ==
  TypeOK => \A q \in TxQueues : Hands[q] \in Nat /\ Taken[q] \in Nat
  BY ConstantsAssumption DEF TypeOK, Hands, InHand, Taken, InBurst

\* When only the terms of queue q change, so do the sums.
LEMMA SumsMove ==
  ASSUME TypeOK, TypeOK', NEW q \in TxQueues,
         \A x \in TxQueues \ {q} : Hands[x] = Hands'[x] /\ Taken[x] = Taken'[x]
  PROVE  /\ SumFunctionOnSet(Hands, TxQueues) \in Int
         /\ SumFunctionOnSet(Hands', TxQueues)
                = SumFunctionOnSet(Hands, TxQueues) + (Hands'[q] - Hands[q])
         /\ \A p \in Pools :
               /\ SumFunctionOnSet(Taken, UsersOf(p)) \in Int
               /\ SumFunctionOnSet(Taken', UsersOf(p))
                    = SumFunctionOnSet(Taken, UsersOf(p))
                      + (IF p = PoolOf(q) THEN Taken'[q] - Taken[q] ELSE 0)
<1>1. \A x \in TxQueues : /\ Hands[x] \in Int /\ Hands'[x] \in Int
                          /\ Taken[x] \in Int /\ Taken'[x] \in Int
  <2>1. \A x \in TxQueues : Hands[x] \in Nat /\ Taken[x] \in Nat
    BY TermsAreNat
  <2>2. \A x \in TxQueues : Hands'[x] \in Nat /\ Taken'[x] \in Nat
    BY ConstantsAssumption DEF TypeOK, Hands, InHand, Taken, InBurst
  <2>3. QED
    BY <2>1, <2>2
<1>2. /\ SumFunctionOnSet(Hands, TxQueues) \in Int
      /\ SumFunctionOnSet(Hands', TxQueues)
             = SumFunctionOnSet(Hands, TxQueues) - Hands[q] + Hands'[q]
  BY <1>1, QueuesAreFinite, SumUpdate
<1>3. ASSUME NEW p \in Pools
      PROVE  /\ SumFunctionOnSet(Taken, UsersOf(p)) \in Int
             /\ SumFunctionOnSet(Taken', UsersOf(p))
                  = SumFunctionOnSet(Taken, UsersOf(p))
                    + (IF p = PoolOf(q) THEN Taken'[q] - Taken[q] ELSE 0)
  <2>1. /\ IsFiniteSet(UsersOf(p))
        /\ \A x \in UsersOf(p) : Taken[x] \in Int /\ Taken'[x] \in Int
        /\ \A x \in UsersOf(p) \ {q} : Taken[x] = Taken'[x]
    BY <1>1, QueuesAreFinite
  <2>2. q \in UsersOf(p) <=> p = PoolOf(q)
    BY DEF UsersOf
  <2>3. /\ SumFunctionOnSet(Taken, UsersOf(p)) \in Int
        /\ SumFunctionOnSet(Taken', UsersOf(p))
             = SumFunctionOnSet(Taken, UsersOf(p))
               + (IF q \in UsersOf(p) THEN Taken'[q] - Taken[q] ELSE 0)
    BY <2>1, SumMoves
  <2>4. QED
    BY <2>2, <2>3
<1>4. QED
  <2>1. Hands[q] \in Int /\ Hands'[q] \in Int
    BY <1>1
  <2>2. SumFunctionOnSet(Hands', TxQueues)
           = SumFunctionOnSet(Hands, TxQueues) + (Hands'[q] - Hands[q])
    BY <1>2, <2>1
  <2>3. QED
    BY <1>2, <1>3, <2>2

\* A step of queue q moves packets between its hand and the other accounts of
\* the count, and mbufs between its burst or ring and its pool.
Moves(q) ==
    /\ \A x \in TxQueues \ {q} : Hands[x] = Hands'[x] /\ Taken[x] = Taken'[x]
    /\ issued' - current_tx_count' - handed' - lost'
           = issued - current_tx_count - handed - lost + (Hands'[q] - Hands[q])
    /\ \A p \in Pools :
          free'[p] = free[p] - (IF p = PoolOf(q) THEN Taken'[q] - Taken[q] ELSE 0)

LEMMA CoreMoves ==
  ASSUME TypeOK, TypeOK', CountedInv, NEW q \in TxQueues, TxCoreStep(q)
  PROVE  Moves(q) /\ CountedInv'
<1> USE DEF CoreStep, shared, packets, commander, buffers, history, CountedInv
<1>0. /\ \A x \in TxQueues : n[x] \in Nat /\ PoolOf(x) \in Pools
      /\ core_pc \in [TxQueues -> CorePCs] /\ n \in [TxQueues -> Nat]
      /\ ring \in [TxQueues -> 0 .. RingSize] /\ free \in [Pools -> Nat]
      /\ issued \in Int /\ lost \in Int /\ handed \in Nat /\ current_tx_count \in Nat
      /\ tx_burst \in Nat /\ RingSize \in Nat
  BY ConstantsAssumption DEF TypeOK, PoolOf, Pools
<1>1. CASE TestSending(q)
  BY <1>0, <1>1 DEF TestSending, Moves, Hands, InHand, Taken, InBurst
<1>2. CASE TestForever(q)
  BY <1>0, <1>2 DEF TestForever, Moves, Hands, InHand, Taken, InBurst
<1>3. CASE Draw(q)
  BY <1>0, <1>3 DEF Draw, MinOf, Moves, Hands, InHand, Taken, InBurst
<1>4. CASE ClearSending(q)
  BY <1>0, <1>4 DEF ClearSending, Moves, Hands, InHand, Taken, InBurst
<1>5. CASE Cap(q)
  BY <1>0, <1>5 DEF Cap, MinOf, Moves, Hands, InHand, Taken, InBurst
<1>6. CASE GetBulk(q)
  BY <1>0, <1>6 DEF GetBulk, Moves, Hands, InHand, Taken, InBurst
<1>7. CASE GetBulkFails(q)
  BY <1>0, <1>7 DEF GetBulkFails, Moves, Hands, InHand, Taken, InBurst
<1>8. CASE TxBurst(q)
  BY <1>0, <1>8 DEF TxBurst, MinOf, Moves, Hands, InHand, Taken, InBurst
<1> HIDE DEF CoreStep, shared, packets, commander, buffers, history, CountedInv
<1>9. QED
  BY <1>1, <1>2, <1>3, <1>4, <1>5, <1>6, <1>7, <1>8 DEF TxCoreStep

LEMMA NicMoves ==
  ASSUME TypeOK, CountedInv, NEW q \in TxQueues, NicTransmit(q)
  PROVE  Moves(q) /\ CountedInv'
<1> USE DEF NicTransmit, shared, packets, commander, lcore, history
<1>1. CountedInv'
  BY DEF CountedInv
<1>2. Moves(q)
  <2>1. /\ ring \in [TxQueues -> 0 .. RingSize] /\ n \in [TxQueues -> Nat]
        /\ free \in [Pools -> Nat] /\ PoolOf(q) \in Pools /\ RingSize \in Nat
        /\ issued \in Int /\ lost \in Int /\ handed \in Nat /\ current_tx_count \in Nat
    BY ConstantsAssumption DEF TypeOK, PoolOf, Pools
  <2>2. QED
    BY <2>1 DEF Moves, Hands, InHand, Taken, InBurst
<1>3. QED
  BY <1>1, <1>2

LEMMA MovesKeepLedgers ==
  ASSUME TypeOK, TypeOK', NothingIsUnaccounted, NEW q \in TxQueues, Moves(q)
  PROVE  NothingIsUnaccounted'
<1>1. /\ SumFunctionOnSet(Hands, TxQueues) \in Int
      /\ SumFunctionOnSet(Hands', TxQueues)
             = SumFunctionOnSet(Hands, TxQueues) + (Hands'[q] - Hands[q])
      /\ \A p \in Pools :
            /\ SumFunctionOnSet(Taken, UsersOf(p)) \in Int
            /\ SumFunctionOnSet(Taken', UsersOf(p))
                 = SumFunctionOnSet(Taken, UsersOf(p))
                   + (IF p = PoolOf(q) THEN Taken'[q] - Taken[q] ELSE 0)
  BY SumsMove DEF Moves
<1>2. Hands[q] \in Nat /\ Taken[q] \in Nat /\ Hands'[q] \in Nat /\ Taken'[q] \in Nat
  <2>1. Hands[q] \in Nat /\ Taken[q] \in Nat
    BY TermsAreNat
  <2>2. Hands'[q] \in Nat /\ Taken'[q] \in Nat
    BY ConstantsAssumption DEF TypeOK, Hands, InHand, Taken, InBurst
  <2>3. QED
    BY <2>1, <2>2
<1>3. CountLedger'
  <2>1. /\ issued \in Int /\ lost \in Int /\ handed \in Int /\ current_tx_count \in Int
        /\ issued' \in Int /\ lost' \in Int /\ handed' \in Int /\ current_tx_count' \in Int
    BY DEF TypeOK
  <2>2. QED
    BY <1>1, <1>2, <2>1 DEF Moves, NothingIsUnaccounted, CountLedger
<1>4. MbufLedger'
  <2>1. PoolSize \in Int /\ \A p \in Pools : free[p] \in Int /\ free'[p] \in Int
    BY ConstantsAssumption DEF TypeOK
  <2>2. QED
    BY <1>1, <1>2, <2>1 DEF Moves, NothingIsUnaccounted, MbufLedger
<1>5. QED
  BY <1>3, <1>4 DEF NothingIsUnaccounted

LEMMA LedgersStart == Init => LedgerInv
<1> SUFFICES ASSUME Init PROVE LedgerInv
  OBVIOUS
<1>1. CountedInv
  BY DEF Init, CountedInv
<1>2. \A x \in TxQueues : Hands[x] = 0 /\ Taken[x] = 0
  BY DEF Init, Hands, InHand, Taken, InBurst
<1>3. SumFunctionOnSet(Hands, TxQueues) = 0
  BY <1>2, QueuesAreFinite, SumZero
<1>4. CountLedger
  BY <1>3 DEF Init, CountLedger
<1>5. ASSUME NEW p \in Pools PROVE SumFunctionOnSet(Taken, UsersOf(p)) = 0
  <2>1. IsFiniteSet(UsersOf(p)) /\ \A x \in UsersOf(p) : Taken[x] = 0
    BY <1>2, QueuesAreFinite
  <2>2. QED
    BY <2>1, SumZero
<1>6. MbufLedger
  BY <1>5, ConstantsAssumption DEF Init, MbufLedger
<1>7. QED
  BY <1>1, <1>4, <1>6 DEF LedgerInv, NothingIsUnaccounted

LEMMA SameTermsSameLedgers ==
  ASSUME AccountsKept, TypeOK, TypeOK', LedgerInv
  PROVE  LedgerInv'
<1>1. CountedInv'
  BY DEF AccountsKept, LedgerInv, CountedInv
<1>2. Hands' = Hands /\ Taken' = Taken
  BY DEF AccountsKept, Hands, InHand, Taken, InBurst
<1>3. SumFunctionOnSet(Hands, TxQueues) \in Int
  <2>1. \A x \in TxQueues : Hands[x] \in Int
    BY TermsAreNat
  <2>2. QED
    BY <2>1, QueuesAreFinite, SumIsInt
<1>4. CountLedger'
  <2>1. /\ issued \in Int /\ lost \in Int /\ handed \in Int /\ current_tx_count \in Int
        /\ issued' \in Int /\ current_tx_count' \in Int
    BY DEF TypeOK
  <2>2. /\ handed' = handed /\ lost' = lost
        /\ issued' - current_tx_count' = issued - current_tx_count
    BY DEF AccountsKept
  <2>3. issued = current_tx_count + handed + lost + SumFunctionOnSet(Hands, TxQueues)
    BY DEF LedgerInv, NothingIsUnaccounted, CountLedger
  <2> DEFINE total == SumFunctionOnSet(Hands, TxQueues)
  <2>4. /\ total \in Int /\ issued = current_tx_count + handed + lost + total
        /\ total = SumFunctionOnSet(Hands, TxQueues)
    BY <1>3, <2>3
  <2> HIDE DEF total
  <2>5. issued' = current_tx_count' + handed + lost + total
    BY <2>4, <2>1, <2>2
  <2>6. QED
    BY <1>2, <2>2, <2>5, <2>4 DEF CountLedger
<1>5. MbufLedger'
  BY <1>2 DEF AccountsKept, LedgerInv, NothingIsUnaccounted, MbufLedger
<1>6. QED
  BY <1>1, <1>4, <1>5 DEF LedgerInv, NothingIsUnaccounted

\* Packets and mbufs are never counted twice and never out of sight: whatever
\* the number of commanders and lcores and however their steps interleave,
\* every packet loaded in current_tx_count by start and prime is there still,
\* drawn by exactly one lcore, handed over or lost, and every mbuf of a pool is
\* free, in one burst, or in a ring (pkt_atomic64_tx_count, tx_send_packets).
THEOREM Ledgers == Spec => []NothingIsUnaccounted
<1>1. Init => LedgerInv
  BY LedgersStart
<1>2. TypeOK /\ TypeOK' /\ LedgerInv /\ [Next]_vars => LedgerInv'
  <2> SUFFICES ASSUME TypeOK, TypeOK', LedgerInv, [Next]_vars
               PROVE  LedgerInv'
    OBVIOUS
  <2>1. ASSUME NEW m \in Commanders, CommanderStep(m) PROVE LedgerInv'
    BY <2>1, CommanderKeepsAccounts, SameTermsSameLedgers
  <2>2. ASSUME NEW q \in TxQueues, TxCoreStep(q) PROVE LedgerInv'
    BY <2>2, CoreMoves, MovesKeepLedgers DEF LedgerInv
  <2>3. ASSUME NEW q \in TxQueues, NicTransmit(q) PROVE LedgerInv'
    BY <2>3, NicMoves, MovesKeepLedgers DEF LedgerInv
  <2>4. CASE UNCHANGED vars
    <3>1. AccountsKept
      BY <2>4 DEF vars, shared, lcore, buffers, history, AccountsKept
    <3>2. QED
      BY <3>1, SameTermsSameLedgers
  <2>5. QED
    BY <2>1, <2>2, <2>3, <2>4 DEF Next
<1>3. LedgerInv => NothingIsUnaccounted
  BY DEF LedgerInv
<1>4. QED
  BY <1>1, <1>2, <1>3, TypeCorrect, PTL DEF Spec

-----------------------------------------------------------------------------
(***************************************************************************)
(* Theorems about Transmit used as its commands are meant to be used: one  *)
(* commander, who waits for the bursts of a run to end before the next     *)
(* start.                                                                  *)
(***************************************************************************)

OneCommander == \E m \in Commanders : Commanders = {m}
Careful == Settled /\ OneCommander

BetweenRuns == ~Tst("SENDING_PACKETS") /\ NoLcoreInABurst
EndlessRun == Tst("SENDING_PACKETS") /\ Tst("SEND_FOREVER")
Loading == {"start_count", "start_forever"}
Building == {"start_setup", "setup_test", "setup_clear", "setup_pool", "start_sending"}

\* What the commander knows of the run at each step of a command.
CommanderInv ==
    \A m \in Commanders :
        /\ cmd_pc[m] \in {"start_test", "prime_sending"} =>
            EndlessRun \/ (BetweenRuns /\ ~Tst("SEND_FOREVER"))
        /\ cmd_pc[m] = "prime_sending" => current_tx_count = PrimeCount
        /\ cmd_pc[m] \in Loading => BetweenRuns /\ ~Tst("SEND_FOREVER")
        /\ cmd_pc[m] = "start_forever" => current_tx_count \in Counts \cup {0}
        /\ cmd_pc[m] \in Building =>
            /\ BetweenRuns
            /\ current_tx_count \in Counts \cup {0}
            /\ Tst("SEND_FOREVER") <=> current_tx_count = 0
        /\ cmd_pc[m] \notin Building /\ Tst("SEND_FOREVER") => Tst("SENDING_PACKETS")
        /\ cmd_pc[m] \in ResetPCs => ~Tst("SENDING_PACKETS")

\* What an lcore knows of the run at each step of a burst.
LcoreInv ==
    /\ tx_burst >= 1 /\ transmit_count \in Counts \cup {0}
    /\ \A q \in TxQueues :
        /\ EndlessRun => core_pc[q] \notin {"draw", "cap", "clear_sending"} /\ q \notin counted
        /\ core_pc[q] = "clear_sending" => current_tx_count = 0
        /\ q \in counted => core_pc[q] \in {"cap", "get_bulk"} /\ n[q] >= 1
        /\ core_pc[q] = "cap" => q \in counted
        /\ core_pc[q] = "draw" => n[q] >= 1

ProtocolInv == CommanderInv /\ LcoreInv

\* A run that is on and has packets left is being sent, except while its
\* commander is still about to set SENDING_PACKETS.
RunInv ==
    \A m \in Commanders :
        /\ cmd_pc[m] \in StopPCs \cup ResetPCs => run = "off"
        /\ run = "on" /\ current_tx_count > 0
                /\ cmd_pc[m] \notin Loading \cup Building \cup {"prime_sending"}
            => Tst("SENDING_PACKETS")

\* The pools differ only while the commander is between two of them.
BuiltInv ==
    \A m \in Commanders :
        /\ cmd_pc[m] \in Loading \cup Building => ~Tst("SENDING_PACKETS")
        /\ IF cmd_pc[m] = "setup_pool"
           THEN \A p \in Pools : p < cmd_q[m] => built[p] = config
           ELSE \A p, r \in Pools : built[p] = built[r]

LEMMA ProtocolStart == Init => ProtocolInv /\ RunInv /\ BuiltInv
  BY ConstantsAssumption DEF Init, ProtocolInv, CommanderInv, LcoreInv, RunInv, BuiltInv,
     EndlessRun, Tst, Loading, Building, StopPCs, ResetPCs, Pools

LEMMA ProtocolStep == Careful /\ TypeOK /\ ProtocolInv /\ [Next]_vars => ProtocolInv'
<1> SUFFICES ASSUME Careful, TypeOK, ProtocolInv, [Next]_vars PROVE ProtocolInv'
  OBVIOUS
<1> USE ConstantsAssumption DEF ProtocolInv, CommanderInv, LcoreInv, EndlessRun, BetweenRuns,
        NoLcoreInABurst, Tst, Loading, Building, ResetPCs, TypeOK
<1>1. ASSUME NEW m \in Commanders, CommanderStep(m) PROVE ProtocolInv'
  <2>a. Commanders = {m} /\ Settled
    BY DEF Careful, OneCommander
  <2> USE <2>a DEF CmdStep, Command, shared, packets, commander, lcore, buffers, history
    <2>1. CASE StartCommand(m)
      BY <2>1 DEF StartCommand, MayStart
    <2>2. CASE StopCommand(m)
      BY <2>2 DEF StopCommand
    <2>3. CASE ResetCommand(m)
      BY <2>3 DEF ResetCommand
    <2>4. CASE PrimeCommand(m)
      BY <2>4 DEF PrimeCommand, MayStart
    <2>5. CASE \E c \in Counts : SetTxCount(m, c)
      BY <2>5 DEF SetTxCount
    <2>6. CASE \E b \in Bursts : SetTxBurst(m, b)
      BY <2>6 DEF SetTxBurst
    <2>7. CASE SetPacket(m)
      BY <2>7 DEF SetPacket
    <2>8. CASE StartTest(m)
      BY <2>8 DEF StartTest
    <2>9. CASE StartCount(m)
      BY <2>9 DEF StartCount
    <2>10. CASE StartForever(m)
      BY <2>10 DEF StartForever
    <2>11. CASE StartSetup(m)
      BY <2>11 DEF StartSetup
    <2>12. CASE StartSending(m)
      BY <2>12 DEF StartSending, SetSending
    <2>13. CASE SetupTest(m)
      BY <2>13 DEF SetupTest
    <2>14. CASE SetupClear(m)
      BY <2>14 DEF SetupClear
    <2>15. CASE SetupPool(m)
      BY <2>15 DEF SetupPool
    <2>16. CASE StopTest(m)
      BY <2>16 DEF StopTest
    <2>17. CASE StopClear(m)
      BY <2>17 DEF StopClear
    <2>18. CASE PrimeSending(m)
      BY <2>18 DEF PrimeSending, SetSending
    <2>19. CASE ResetCount(m)
      BY <2>19 DEF ResetCount
    <2>20. CASE ResetCurrent(m)
      BY <2>20 DEF ResetCurrent
    <2>21. CASE ResetBurst(m)
      BY <2>21 DEF ResetBurst
    <2>22. QED
      BY <1>1, <2>1, <2>2, <2>3, <2>4, <2>5, <2>6, <2>7, <2>8, <2>9, <2>10, <2>11, <2>12, <2>13,
         <2>14, <2>15, <2>16, <2>17, <2>18, <2>19, <2>20, <2>21 DEF CommanderStep
<1>2. ASSUME NEW q \in TxQueues, TxCoreStep(q) PROVE ProtocolInv'
  <2> USE DEF CoreStep, shared, packets, commander, lcore, buffers, history
    <2>1. CASE TestSending(q)
      BY <2>1 DEF TestSending
    <2>2. CASE TestForever(q)
      BY <2>2 DEF TestForever
    <2>3. CASE Draw(q)
      BY <2>3 DEF Draw, MinOf
    <2>4. CASE ClearSending(q)
      BY <2>4 DEF ClearSending
    <2>5. CASE Cap(q)
      BY <2>5 DEF Cap, MinOf
    <2>6. CASE GetBulk(q)
      BY <2>6 DEF GetBulk
    <2>7. CASE GetBulkFails(q)
      BY <2>7 DEF GetBulkFails
    <2>8. CASE TxBurst(q)
      BY <2>8 DEF TxBurst, MinOf
    <2>9. QED
      BY <1>2, <2>1, <2>2, <2>3, <2>4, <2>5, <2>6, <2>7, <2>8 DEF TxCoreStep
<1>3. ASSUME NEW q \in TxQueues, NicTransmit(q) PROVE ProtocolInv'
  BY <1>3 DEF NicTransmit, shared, commander, lcore, history
<1>4. CASE UNCHANGED vars
  BY <1>4 DEF vars, shared, commander, lcore, history
<1>5. QED
  BY <1>1, <1>2, <1>3, <1>4 DEF Next

\* start_stop_cmd of one commander that waits until its last run has ended: at
\* each of its steps the flags and counters are where the step expects them.
THEOREM ProtocolHolds == Careful /\ Spec => []ProtocolInv
<1>1. CASE Careful
  BY <1>1, ProtocolStart, ProtocolStep, TypeCorrect, PTL DEF Spec
<1>2. QED
  BY <1>1

LEMMA RunStep == Careful /\ TypeOK /\ ProtocolInv /\ RunInv /\ [Next]_vars => RunInv'
<1> SUFFICES ASSUME Careful, TypeOK, ProtocolInv, RunInv, [Next]_vars PROVE RunInv'
  OBVIOUS
<1> USE ConstantsAssumption DEF ProtocolInv, CommanderInv, LcoreInv, EndlessRun, BetweenRuns,
        NoLcoreInABurst, Tst, Loading, Building, StopPCs, ResetPCs,
        TypeOK, RunInv
<1>1. ASSUME NEW m \in Commanders, CommanderStep(m) PROVE RunInv'
  <2>a. Commanders = {m} /\ Settled
    BY DEF Careful, OneCommander
  <2> USE <2>a DEF CmdStep, Command, shared, packets, commander, lcore, buffers, history, CmdPCs
    <2>1. CASE StartCommand(m)
      BY <2>1 DEF StartCommand, MayStart
    <2>2. CASE StopCommand(m)
      BY <2>2 DEF StopCommand
    <2>3. CASE ResetCommand(m)
      BY <2>3 DEF ResetCommand
    <2>4. CASE PrimeCommand(m)
      BY <2>4 DEF PrimeCommand, MayStart
    <2>5. CASE \E c \in Counts : SetTxCount(m, c)
      BY <2>5 DEF SetTxCount
    <2>6. CASE \E b \in Bursts : SetTxBurst(m, b)
      BY <2>6 DEF SetTxBurst
    <2>7. CASE SetPacket(m)
      BY <2>7 DEF SetPacket
    <2>8. CASE StartTest(m)
      BY <2>8 DEF StartTest
    <2>9. CASE StartCount(m)
      BY <2>9 DEF StartCount
    <2>10. CASE StartForever(m)
      BY <2>10 DEF StartForever
    <2>11. CASE StartSetup(m)
      BY <2>11 DEF StartSetup
    <2>12. CASE StartSending(m)
      BY <2>12 DEF StartSending, SetSending
    <2>13. CASE SetupTest(m)
      BY <2>13 DEF SetupTest
    <2>14. CASE SetupClear(m)
      BY <2>14 DEF SetupClear
    <2>15. CASE SetupPool(m)
      BY <2>15 DEF SetupPool
    <2>16. CASE StopTest(m)
      BY <2>16 DEF StopTest
    <2>17. CASE StopClear(m)
      BY <2>17 DEF StopClear
    <2>18. CASE PrimeSending(m)
      BY <2>18 DEF PrimeSending, SetSending
    <2>19. CASE ResetCount(m)
      BY <2>19 DEF ResetCount
    <2>20. CASE ResetCurrent(m)
      BY <2>20 DEF ResetCurrent
    <2>21. CASE ResetBurst(m)
      BY <2>21 DEF ResetBurst
    <2>22. QED
      BY <1>1, <2>1, <2>2, <2>3, <2>4, <2>5, <2>6, <2>7, <2>8, <2>9, <2>10, <2>11, <2>12, <2>13,
         <2>14, <2>15, <2>16, <2>17, <2>18, <2>19, <2>20, <2>21 DEF CommanderStep
<1>2. ASSUME NEW q \in TxQueues, TxCoreStep(q) PROVE RunInv'
  <2> USE DEF CoreStep, shared, packets, commander, lcore, buffers, history
    <2>1. CASE TestSending(q)
      BY <2>1 DEF TestSending
    <2>2. CASE TestForever(q)
      BY <2>2 DEF TestForever
    <2>3. CASE Draw(q)
      BY <2>3 DEF Draw, MinOf
    <2>4. CASE ClearSending(q)
      BY <2>4 DEF ClearSending
    <2>5. CASE Cap(q)
      BY <2>5 DEF Cap, MinOf
    <2>6. CASE GetBulk(q)
      BY <2>6 DEF GetBulk
    <2>7. CASE GetBulkFails(q)
      BY <2>7 DEF GetBulkFails
    <2>8. CASE TxBurst(q)
      BY <2>8 DEF TxBurst, MinOf
    <2>9. QED
      BY <1>2, <2>1, <2>2, <2>3, <2>4, <2>5, <2>6, <2>7, <2>8 DEF TxCoreStep
<1>3. ASSUME NEW q \in TxQueues, NicTransmit(q) PROVE RunInv'
  BY <1>3 DEF NicTransmit, shared, commander, lcore, history
<1>4. CASE UNCHANGED vars
  BY <1>4 DEF vars, shared, commander, lcore, history
<1>5. QED
  BY <1>1, <1>2, <1>3, <1>4 DEF Next

\* Under one careful commander a run that was started, not stopped, and is not
\* complete is being sent: no lcore that finishes the last run turns it off.
THEOREM RunIsSent == Careful /\ Spec => []StartedRunIsSent
<1>1. Careful /\ ProtocolInv /\ RunInv /\ TypeOK => StartedRunIsSent
  BY DEF Careful, OneCommander, ProtocolInv, CommanderInv, RunInv, StartedRunIsSent, AllIdle,
     Loading, Building, TypeOK
<1>2. CASE Careful
  BY <1>1, <1>2, ProtocolStart, RunStep, ProtocolHolds, TypeCorrect, PTL DEF Spec
<1>3. QED
  BY <1>2

LEMMA BuiltStep == OneCommander /\ TypeOK /\ BuiltInv /\ [Next]_vars => BuiltInv'
<1> SUFFICES ASSUME OneCommander, TypeOK, BuiltInv, [Next]_vars PROVE BuiltInv'
  OBVIOUS
<1> USE ConstantsAssumption DEF TypeOK, BuiltInv, Tst, Loading, Building
<1>1. ASSUME NEW m \in Commanders, CommanderStep(m) PROVE BuiltInv'
  <2>a. Commanders = {m}
    BY DEF OneCommander
  <2> USE <2>a DEF CmdStep, Command, shared, packets, commander, lcore, buffers, history
    <2>1. CASE StartCommand(m)
      BY <2>1 DEF StartCommand, MayStart
    <2>2. CASE StopCommand(m)
      BY <2>2 DEF StopCommand
    <2>3. CASE ResetCommand(m)
      BY <2>3 DEF ResetCommand
    <2>4. CASE PrimeCommand(m)
      BY <2>4 DEF PrimeCommand, MayStart
    <2>5. CASE \E c \in Counts : SetTxCount(m, c)
      BY <2>5 DEF SetTxCount
    <2>6. CASE \E b \in Bursts : SetTxBurst(m, b)
      BY <2>6 DEF SetTxBurst
    <2>7. CASE SetPacket(m)
      BY <2>7 DEF SetPacket
    <2>8. CASE StartTest(m)
      BY <2>8 DEF StartTest
    <2>9. CASE StartCount(m)
      BY <2>9 DEF StartCount
    <2>10. CASE StartForever(m)
      BY <2>10 DEF StartForever
    <2>11. CASE StartSetup(m)
      BY <2>11 DEF StartSetup
    <2>12. CASE StartSending(m)
      BY <2>12 DEF StartSending, SetSending
    <2>13. CASE SetupTest(m)
      BY <2>13 DEF SetupTest
    <2>14. CASE SetupClear(m)
      <3>1. Pools \subseteq Nat /\ (PcapMode => Pools = {0})
        BY QueueFacts DEF Pools
      <3>2. \A p \in Pools : ~(p < 0)
        BY <3>1
      <3>3. cmd_q'[m] = 0 /\ built' = built /\ config' = config
        BY <2>14 DEF SetupClear
      <3>4. QED
        BY <2>14, <3>2, <3>3 DEF SetupClear
    <2>15. CASE SetupPool(m)
      <3> DEFINE q == cmd_q[m]
      <3>1. /\ Pools \subseteq Nat /\ \A p \in Pools : p < TxCnt
            /\ q \in Nat /\ q < TxCnt /\ TxCnt \in Nat /\ PoolOf(q) \in Pools
            /\ \A p \in Pools : p < q + 1 => p < q \/ p = PoolOf(q)
        <4>1. q \in TxQueues
          BY <2>15 DEF SetupPool
        <4>2. CASE PcapMode
          BY <4>1, <4>2 DEF Pools, PoolOf, TxQueues
        <4>3. CASE ~PcapMode
          <5>1. PoolOf(q) = q /\ Pools = TxQueues
            BY <4>3 DEF Pools, PoolOf
          <5>2. q \in 0 .. TxCnt - 1 /\ TxCnt \in Nat
            BY <4>1 DEF TxQueues
          <5>3. \A p \in 0 .. TxCnt - 1 : p \in Nat /\ p < TxCnt /\ (p < q + 1 => p < q \/ p = q)
            BY <5>2
          <5>4. QED
            BY <5>1, <5>2, <5>3 DEF TxQueues
        <4>4. QED
          BY <4>2, <4>3
      <3>2. /\ cmd_pc[m] = "setup_pool" /\ cmd_q'[m] = q + 1 /\ config' = config
            /\ built' = [built EXCEPT ![PoolOf(q)] = config]
            /\ cmd_pc'[m] = IF q + 1 < TxCnt THEN "setup_pool" ELSE "start_sending"
            /\ port_flags' = port_flags
        BY <2>15 DEF SetupPool
      <3>3. \A p \in Pools : p < q + 1 => built'[p] = config
        BY <3>1, <3>2
      <3>4. q + 1 < TxCnt \/ \A p \in Pools : p < q + 1
        BY <3>1
      <3>5. QED
        BY <3>1, <3>2, <3>3, <3>4
    <2>16. CASE StopTest(m)
      BY <2>16 DEF StopTest
    <2>17. CASE StopClear(m)
      BY <2>17 DEF StopClear
    <2>18. CASE PrimeSending(m)
      BY <2>18 DEF PrimeSending, SetSending
    <2>19. CASE ResetCount(m)
      BY <2>19 DEF ResetCount
    <2>20. CASE ResetCurrent(m)
      BY <2>20 DEF ResetCurrent
    <2>21. CASE ResetBurst(m)
      BY <2>21 DEF ResetBurst
    <2>22. QED
      BY <1>1, <2>1, <2>2, <2>3, <2>4, <2>5, <2>6, <2>7, <2>8, <2>9, <2>10, <2>11, <2>12, <2>13,
         <2>14, <2>15, <2>16, <2>17, <2>18, <2>19, <2>20, <2>21 DEF CommanderStep
<1>2. ASSUME NEW q \in TxQueues, TxCoreStep(q) PROVE BuiltInv'
  <2> USE DEF CoreStep, shared, packets, commander, lcore, buffers, history
    <2>1. CASE TestSending(q)
      BY <2>1 DEF TestSending
    <2>2. CASE TestForever(q)
      BY <2>2 DEF TestForever
    <2>3. CASE Draw(q)
      BY <2>3 DEF Draw, MinOf
    <2>4. CASE ClearSending(q)
      BY <2>4 DEF ClearSending
    <2>5. CASE Cap(q)
      BY <2>5 DEF Cap, MinOf
    <2>6. CASE GetBulk(q)
      BY <2>6 DEF GetBulk
    <2>7. CASE GetBulkFails(q)
      BY <2>7 DEF GetBulkFails
    <2>8. CASE TxBurst(q)
      BY <2>8 DEF TxBurst, MinOf
    <2>9. QED
      BY <1>2, <2>1, <2>2, <2>3, <2>4, <2>5, <2>6, <2>7, <2>8 DEF TxCoreStep
<1>3. ASSUME NEW q \in TxQueues, NicTransmit(q) PROVE BuiltInv'
  BY <1>3 DEF NicTransmit, shared, packets, commander, lcore, history
<1>4. CASE UNCHANGED vars
  BY <1>4 DEF vars, shared, packets, commander, lcore, history
<1>5. QED
  BY <1>1, <1>2, <1>3, <1>4 DEF Next

\* One commander alone never lets a port send from pools of two versions, even
\* if it starts while lcores are in the last bursts of the run before.
THEOREM SamePackets == OneCommander /\ Spec => []SamePacketsOnAllQueues
<1>1. OneCommander /\ BuiltInv => SamePacketsOnAllQueues
  BY DEF OneCommander, BuiltInv, SamePacketsOnAllQueues, Building
<1>2. CASE OneCommander
  BY <1>1, <1>2, ProtocolStart, BuiltStep, TypeCorrect, PTL DEF Spec
<1>3. QED
  BY <1>2

(***************************************************************************)
(* The refinement.  The variables of the contract, named here, are         *)
(* functions of the flags, counters and steps of Transmit.                 *)
(***************************************************************************)
Left == IF Mode # "idle" \/ Unaware # {} THEN current_tx_count ELSE 0
Stopping == \E m \in Commanders : cmd_pc[m] = "stop_clear"

ContractStep == [Contract!Next]_Contract!vars

\* How a step of Transmit is recognised as a step of the contract.
\* How a step of Transmit is recognised as a step of the contract.
LEMMA Stutter ==
  ASSUME UNCHANGED <<Mode, Left, Hands, handed, Unaware, Stopping>>
  PROVE  ContractStep
  BY DEF ContractStep, Contract!vars, Left, Hands, Stopping

LEMMA IsRunCounted ==
  ASSUME Mode = "idle", Mode' = "counted", Left' \in Counts \cup {PrimeCount}, Unaware' = {},
         UNCHANGED <<Hands, handed, Stopping>>
  PROVE  ContractStep
  BY DEF ContractStep, Contract!Next, Contract!RunCounted, Left, Hands, Stopping

LEMMA IsRunForever ==
  ASSUME Mode = "idle", Unaware = {}, Mode' = "forever", Left' = 0,
         UNCHANGED <<Hands, handed, Unaware, Stopping>>
  PROVE  ContractStep
  BY DEF ContractStep, Contract!Next, Contract!RunForever, Left, Hands, Stopping

LEMMA IsRefill ==
  ASSUME Mode = "forever", Left' = PrimeCount, UNCHANGED <<Mode, Hands, handed, Unaware, Stopping>>
  PROVE  ContractStep
  BY DEF ContractStep, Contract!Next, Contract!Refill, Left, Hands, Stopping

LEMMA IsDraw ==
  ASSUME NEW q \in TxQueues, NEW k \in 1 .. Left, Hands[q] = 0, Hands' = [Hands EXCEPT ![q] = k],
         \/ Mode = "counted" /\ Left' = Left - k /\ UNCHANGED Unaware
         \/ /\ Mode = "idle" /\ q \in Unaware /\ Unaware' = Unaware \ {q}
            /\ Left' = IF Unaware' = {} THEN 0 ELSE Left - k,
         UNCHANGED <<Mode, handed, Stopping>>
  PROVE  ContractStep
<1>1. Contract!Draw(q, k)
  BY DEF Contract!Draw, Contract!Leftover, Left, Hands, Stopping
<1>2. k \in 1 .. (IF Mode # "idle" \/ Unaware # {} THEN current_tx_count ELSE 0)
  BY DEF Left
<1>3. QED
  BY <1>1, <1>2 DEF ContractStep, Contract!Next

LEMMA IsNotice ==
  ASSUME NEW q \in Unaware, Mode = "idle", Unaware' = Unaware \ {q},
         Left' = IF Unaware' = {} THEN 0 ELSE Left,
         UNCHANGED <<Mode, Hands, handed, Stopping>>
  PROVE  ContractStep
<1>1. Contract!Notice(q)
  BY DEF Contract!Notice, Contract!Leftover, Left, Hands, Stopping
<1>2. q \in TxQueues
  BY DEF Unaware
<1>3. QED
  BY <1>1, <1>2 DEF ContractStep, Contract!Next

LEMMA IsHandOver ==
  ASSUME NEW q \in TxQueues, Hands[q] > 0, handed' = handed + Hands[q],
         Hands' = [Hands EXCEPT ![q] = 0], UNCHANGED <<Mode, Left, Unaware, Stopping>>
  PROVE  ContractStep
<1>1. Contract!HandOver(q)
  BY DEF Contract!HandOver, Left, Hands, Stopping
<1>2. QED
  BY <1>1 DEF ContractStep, Contract!Next

LEMMA IsComplete ==
  ASSUME Mode = "counted", Left = 0, Mode' = "idle", Left' = 0, UNCHANGED <<Hands, handed, Stopping>>
  PROVE  ContractStep
<1>1. Unaware' \in SUBSET TxQueues
  BY DEF Unaware
<1>2. QED
  BY <1>1 DEF ContractStep, Contract!Next, Contract!Complete, Contract!EndRun, Contract!Leftover,
     Left, Hands, Stopping

LEMMA IsAskStop ==
  ASSUME Mode # "idle", Stopping', UNCHANGED <<Mode, Left, Hands, handed, Unaware>>
  PROVE  ContractStep
  BY DEF ContractStep, Contract!Next, Contract!AskStop, Left, Hands, Stopping

LEMMA IsStop ==
  ASSUME Stopping, ~Stopping', UNCHANGED <<Hands, handed>>,
         \/ Mode # "idle" /\ Mode' = "idle" /\ Left' = IF Unaware' = {} THEN 0 ELSE Left
         \/ Mode = "idle" /\ UNCHANGED <<Mode, Left, Unaware>>
  PROVE  ContractStep
<1>1. Unaware' \in SUBSET TxQueues
  BY DEF Unaware
<1>2. QED
  BY <1>1 DEF ContractStep, Contract!Next, Contract!Stop, Contract!EndRun, Contract!Leftover,
     Left, Hands, Stopping

LEMMA IsForget ==
  ASSUME Mode = "idle", Left' = 0, UNCHANGED <<Mode, Hands, handed, Unaware, Stopping>>
  PROVE  ContractStep
  BY DEF ContractStep, Contract!Next, Contract!Forget, Left, Hands, Stopping

LEMMA ContractStart == Init => Contract!Init
  BY ConstantsAssumption DEF Init, Contract!Init, Mode, Unaware, InHand, Hands, Tst

LEMMA CommanderImplements ==
  ASSUME Careful, TypeOK, ProtocolInv, NEW m \in Commanders, CommanderStep(m)
  PROVE  ContractStep
<1>a. Commanders = {m} /\ Settled
  BY DEF Careful, OneCommander
<1> USE <1>a, ConstantsAssumption, Stutter
    DEF CmdStep, Command, shared, packets, commander, lcore, buffers, history,
        ProtocolInv, CommanderInv, LcoreInv, EndlessRun, BetweenRuns, NoLcoreInABurst, Tst,
        Loading, Building, ResetPCs, TypeOK, Mode, Left, Hands, Unaware, Stopping, InHand, Hands
<1>1. CASE StartCommand(m)
  BY <1>1 DEF StartCommand, MayStart
<1>2. CASE StopCommand(m)
  BY <1>2 DEF StopCommand
<1>3. CASE ResetCommand(m)
  BY <1>3 DEF ResetCommand
<1>4. CASE PrimeCommand(m)
  <2>1. UNCHANGED <<Mode, Hands, handed, Unaware, Stopping>>
    BY <1>4 DEF PrimeCommand
  <2>2. CASE Tst("SEND_FOREVER")
    <3>1. Mode = "forever" /\ Left' = PrimeCount
      BY <1>4, <2>2 DEF PrimeCommand
    <3>2. QED
      BY <2>1, <3>1, IsRefill
  <2>3. CASE ~Tst("SEND_FOREVER")
    <3>1. Mode = "idle" /\ Unaware = {}
      BY <1>4, <2>3 DEF PrimeCommand, MayStart
    <3>2. UNCHANGED Left
      BY <2>1, <3>1
    <3>3. QED
      BY <2>1, <3>2
  <2>4. QED
    BY <2>2, <2>3
<1>5. CASE \E c \in Counts : SetTxCount(m, c)
  BY <1>5 DEF SetTxCount
<1>6. CASE \E b \in Bursts : SetTxBurst(m, b)
  BY <1>6 DEF SetTxBurst
<1>7. CASE SetPacket(m)
  BY <1>7 DEF SetPacket
<1>8. CASE StartTest(m)
  BY <1>8 DEF StartTest
<1>9. CASE StartCount(m)
  BY <1>9 DEF StartCount
<1>10. CASE StartForever(m)
  BY <1>10 DEF StartForever
<1>11. CASE StartSetup(m)
  BY <1>11 DEF StartSetup
<1>12. CASE StartSending(m)
  <2>1. Mode = "idle" /\ Unaware = {} /\ Unaware' = {} /\ UNCHANGED <<Hands, handed, Stopping>>
    BY <1>12 DEF StartSending, SetSending
  <2>2. CASE current_tx_count = 0
    <3>1. Mode' = "forever" /\ Left' = 0
      BY <1>12, <2>2 DEF StartSending, SetSending
    <3>2. QED
      BY <2>1, <3>1, IsRunForever
  <2>3. CASE current_tx_count # 0
    <3>1. Mode' = "counted" /\ Left' \in Counts
      BY <1>12, <2>3 DEF StartSending, SetSending
    <3>2. QED
      BY <2>1, <3>1, IsRunCounted
  <2>4. QED
    BY <2>2, <2>3
<1>13. CASE SetupTest(m)
  BY <1>13 DEF SetupTest
<1>14. CASE SetupClear(m)
  BY <1>14 DEF SetupClear
<1>15. CASE SetupPool(m)
  BY <1>15 DEF SetupPool
<1>16. CASE StopTest(m)
  <2>1. UNCHANGED <<Mode, Left, Hands, handed, Unaware>>
    BY <1>16 DEF StopTest
  <2>2. CASE Tst("SENDING_PACKETS")
    <3>1. Mode # "idle" /\ Stopping'
      BY <1>16, <2>2 DEF StopTest
    <3>2. QED
      BY <2>1, <3>1, IsAskStop
  <2>3. CASE ~Tst("SENDING_PACKETS")
    <3>1. UNCHANGED Stopping
      BY <1>16, <2>3 DEF StopTest
    <3>2. QED
      BY <2>1, <3>1
  <2>4. QED
    BY <2>2, <2>3
<1>17. CASE StopClear(m)
  <2>1. Stopping /\ ~Stopping' /\ Mode' = "idle" /\ UNCHANGED <<Hands, handed>>
    BY <1>17 DEF StopClear
  <2>2. CASE Tst("SENDING_PACKETS")
    <3>1. Mode # "idle" /\ Left' = IF Unaware' = {} THEN 0 ELSE Left
      BY <1>17, <2>1, <2>2 DEF StopClear
    <3>2. QED
      BY <2>1, <3>1, IsStop
  <2>3. CASE ~Tst("SENDING_PACKETS")
    <3>1. Mode = "idle" /\ UNCHANGED <<Mode, Left, Unaware>>
      BY <1>17, <2>3 DEF StopClear
    <3>2. QED
      BY <2>1, <3>1, IsStop
  <2>4. QED
    BY <2>2, <2>3
<1>18. CASE PrimeSending(m)
  <2>1. UNCHANGED <<Hands, handed, Stopping>>
    BY <1>18 DEF PrimeSending, SetSending
  <2>2. CASE Tst("SEND_FOREVER")
    <3>1. UNCHANGED <<Mode, Left, Unaware>>
      BY <1>18, <2>2 DEF PrimeSending, SetSending
    <3>2. QED
      BY <2>1, <3>1
  <2>3. CASE ~Tst("SEND_FOREVER")
    <3>1. Mode = "idle" /\ Mode' = "counted" /\ Left' = PrimeCount /\ Unaware' = {}
      BY <1>18, <2>3 DEF PrimeSending, SetSending
    <3>2. QED
      BY <2>1, <3>1, IsRunCounted
  <2>4. QED
    BY <2>2, <2>3
<1>19. CASE ResetCount(m)
  BY <1>19 DEF ResetCount
<1>20. CASE ResetCurrent(m)
  <2>1. /\ Mode = "idle" /\ Left' = 0
        /\ UNCHANGED <<Mode, Hands, handed, Unaware, Stopping>>
    BY <1>20 DEF ResetCurrent
  <2>2. QED
    BY <2>1, IsForget
<1>21. CASE ResetBurst(m)
  BY <1>21 DEF ResetBurst
<1>22. QED
  BY <1>1, <1>2, <1>3, <1>4, <1>5, <1>6, <1>7, <1>8, <1>9, <1>10, <1>11,
     <1>12, <1>13, <1>14, <1>15, <1>16, <1>17, <1>18, <1>19, <1>20, <1>21 DEF CommanderStep

LEMMA CoreImplements ==
  ASSUME Careful, PrivatePools, TypeOK, ProtocolInv, PoolInv, NEW q \in TxQueues, TxCoreStep(q)
  PROVE  ContractStep
<1>a. PICK m : Commanders = {m}
  BY DEF Careful, OneCommander
<1> USE <1>a, ConstantsAssumption, Stutter
    DEF CoreStep, shared, packets, commander, lcore, buffers, history,
        ProtocolInv, CommanderInv, LcoreInv, EndlessRun, BetweenRuns, NoLcoreInABurst, Tst,
        Loading, Building, ResetPCs, TypeOK, Mode, Left, Hands, Unaware, Stopping, InHand, Hands
<1>1. CASE TestSending(q)
  BY <1>1 DEF TestSending
<1>2. CASE TestForever(q)
  <2>1. core_pc[q] = "test_forever" /\ q \notin counted
    BY <1>2 DEF TestForever
  <2>2. UNCHANGED <<Mode, handed, Stopping>>
    BY <1>2 DEF TestForever
  <2>3. UNCHANGED Hands
    BY <1>2, <2>1 DEF TestForever
  <2>4. ~Tst("SENDING_PACKETS") => ~Tst("SEND_FOREVER")
    BY <2>1
  <2>5. UNCHANGED Unaware
    BY <1>2, <2>1, <2>4 DEF TestForever
  <2>6. UNCHANGED Left
    BY <1>2, <2>2, <2>5 DEF TestForever
  <2>7. QED
    BY <2>2, <2>3, <2>5, <2>6
<1>3. CASE Draw(q)
  <2> DEFINE k == MinOf(n[q], current_tx_count)
  <2>1. /\ core_pc[q] = "draw" /\ q \notin counted /\ n[q] \in Nat /\ n[q] >= 1
        /\ Hands[q] = 0 /\ current_tx_count \in Nat
    BY <1>3 DEF Draw
  <2>2. UNCHANGED <<Mode, handed, Stopping>>
    BY <1>3 DEF Draw
  <2>3. CASE current_tx_count = 0
    <3>1. k = 0
      BY <2>1, <2>3 DEF MinOf
    <3>2. UNCHANGED Hands /\ current_tx_count' = 0
      BY <1>3, <2>1, <2>3, <3>1 DEF Draw
    <3>3. CASE Tst("SENDING_PACKETS")
      <4>1. UNCHANGED <<Left, Unaware>>
        BY <1>3, <2>3, <3>2, <3>3 DEF Draw
      <4>2. QED
        BY <2>2, <3>2, <4>1
    <3>4. CASE ~Tst("SENDING_PACKETS")
      <4>1. q \in Unaware /\ Mode = "idle"
        BY <2>1, <3>4
      <4>2. Unaware' = Unaware \ {q}
        BY <1>3, <2>3, <3>4 DEF Draw
      <4>3. Left = 0 /\ Left' = 0
        BY <2>3, <3>2
      <4>4. QED
        BY <2>2, <3>2, <4>1, <4>2, <4>3, IsNotice
    <3>5. QED
      BY <3>3, <3>4
  <2>4. CASE current_tx_count # 0
    <3>1. k \in 1 .. current_tx_count
      BY <2>1, <2>4 DEF MinOf
    <3>2. Hands' = [Hands EXCEPT ![q] = k]
      <4>1. k > 0 /\ n' = [n EXCEPT ![q] = k] /\ counted' = counted \cup {q}
        BY <1>3, <3>1 DEF Draw
      <4> HIDE DEF k
      <4>2. QED
        BY <2>1, <4>1
    <3>3. current_tx_count' = current_tx_count - k
      BY <1>3 DEF Draw
    <3>4. CASE Tst("SENDING_PACKETS")
      <4>1. Mode = "counted"
        BY <2>1, <3>4
      <4>2. Left = current_tx_count /\ Left' = Left - k
        BY <2>2, <3>3, <4>1
      <4>3. UNCHANGED Unaware
        BY <1>3, <3>4 DEF Draw
      <4>4. QED
        BY <2>1, <2>2, <3>1, <3>2, <4>1, <4>2, <4>3, IsDraw
    <3>5. CASE ~Tst("SENDING_PACKETS")
      <4>1. q \in Unaware /\ Mode = "idle"
        BY <2>1, <3>5
      <4>2. Unaware' = Unaware \ {q}
        BY <1>3, <2>4, <3>5 DEF Draw
      <4>3. Left = current_tx_count /\ Left' = IF Unaware' = {} THEN 0 ELSE Left - k
        BY <2>2, <3>3, <4>1
      <4>4. QED
        BY <2>1, <2>2, <3>1, <3>2, <4>1, <4>2, <4>3, IsDraw
    <3>6. QED
      BY <3>4, <3>5
  <2>5. QED
    BY <2>3, <2>4
<1>4. CASE ClearSending(q)
  <2>1. /\ core_pc[q] = "clear_sending" /\ current_tx_count = 0 /\ current_tx_count' = 0
        /\ Mode' = "idle" /\ UNCHANGED <<Hands, handed, Stopping>>
    BY <1>4 DEF ClearSending
  <2>2. Left = 0 /\ Left' = 0
    BY <2>1
  <2>3. CASE Tst("SENDING_PACKETS")
    <3>1. Mode = "counted"
      BY <2>1, <2>3
    <3>2. QED
      BY <2>1, <2>2, <3>1, IsComplete
  <2>4. CASE ~Tst("SENDING_PACKETS")
    <3>1. UNCHANGED <<Mode, Unaware>>
      BY <1>4, <2>4 DEF ClearSending
    <3>2. QED
      BY <2>1, <2>2, <3>1
  <2>5. QED
    BY <2>3, <2>4
<1>5. CASE Cap(q)
  <2>1. n[q] \in Nat /\ n[q] <= tx_burst
    BY DEF PoolInv, PrivatePools
  <2>2. UNCHANGED n
    BY <1>5, <2>1 DEF Cap, MinOf
  <2>3. UNCHANGED <<Mode, Left, Hands, handed, Unaware, Stopping>>
    BY <1>5, <2>2 DEF Cap
  <2>4. QED
    BY <2>3
<1>6. CASE GetBulk(q)
  <2>1. UNCHANGED <<Mode, Left, Unaware, Stopping>>
    BY <1>6 DEF GetBulk
  <2>2. CASE q \in counted
    <3>1. Hands[q] = n[q] /\ n[q] > 0
      BY <2>2
    <3>2. handed' = handed + Hands[q] /\ Hands' = [Hands EXCEPT ![q] = 0]
      BY <1>6, <2>2, <3>1 DEF GetBulk
    <3>3. QED
      BY <2>1, <3>1, <3>2, IsHandOver
  <2>3. CASE q \notin counted
    <3>1. UNCHANGED <<Hands, handed>>
      BY <1>6, <2>3 DEF GetBulk
    <3>2. QED
      BY <2>1, <3>1
  <2>4. QED
    BY <2>2, <2>3
<1>7. CASE GetBulkFails(q)
  <2>1. /\ core_pc[q] = "get_bulk" /\ n[q] > free[PoolOf(q)] /\ PoolOf(q) = q /\ q \in Pools
    BY <1>7 DEF GetBulkFails, PoolOf, Pools, PrivatePools
  <2>2. free[q] \in Nat /\ ring[q] \in 0 .. RingSize /\ n[q] \in Nat
    BY <2>1
  <2>3. free[q] + ring[q] = PoolSize /\ n[q] <= DefaultBurst
    BY <2>1, <2>2 DEF PoolInv, InBurst
  <2>4. QED
    BY <2>1, <2>2, <2>3 DEF PrivatePools
<1>8. CASE TxBurst(q)
  <2>1. core_pc[q] = "tx_burst" /\ q \notin counted
    BY <1>8 DEF TxBurst
  <2>2. UNCHANGED Hands
    BY <1>8, <2>1 DEF TxBurst
  <2>3. /\ UNCHANGED <<port_flags, current_tx_count, handed, cmd_pc>>
        /\ core_pc' \in {[core_pc EXCEPT ![q] = to] : to \in {"test_sending", "tx_burst"}}
    BY <1>8 DEF TxBurst
  <2>4. UNCHANGED <<Mode, Unaware, handed, Stopping>>
    BY <2>1, <2>3
  <2>5. UNCHANGED Left
    BY <2>3, <2>4
  <2>6. QED
    BY <2>2, <2>4, <2>5
<1>9. QED
  BY <1>1, <1>2, <1>3, <1>4, <1>5, <1>6, <1>7, <1>8 DEF TxCoreStep

\* Every step of a port with one careful commander and private pools is a step
\* of the contract or leaves what the contract sees alone: runs have exactly
\* the size asked for, end by themselves only when nothing is left, and no
\* lcore takes a packet that is not there or hands one over twice.
THEOREM RefinesContract == Careful /\ PrivatePools /\ Spec => ImplementsContract
<1>1. Careful /\ PrivatePools /\ TypeOK /\ ProtocolInv /\ PoolInv /\ [Next]_vars => ContractStep
  <2> SUFFICES ASSUME Careful, PrivatePools, TypeOK, ProtocolInv, PoolInv, [Next]_vars
               PROVE  ContractStep
    OBVIOUS
  <2>1. ASSUME NEW m \in Commanders, CommanderStep(m) PROVE ContractStep
    BY <2>1, CommanderImplements
  <2>2. ASSUME NEW q \in TxQueues, TxCoreStep(q) PROVE ContractStep
    BY <2>2, CoreImplements
  <2>3. ASSUME NEW q \in TxQueues, NicTransmit(q) PROVE ContractStep
    <3>1. UNCHANGED <<Mode, Left, Hands, handed, Unaware, Stopping>>
      BY <2>3 DEF NicTransmit, shared, commander, lcore, history, Mode, Left, Hands, Unaware,
         Stopping, InHand, Hands, Tst
    <3>2. QED
      BY <3>1, Stutter
  <2>4. CASE UNCHANGED vars
    <3>1. UNCHANGED <<Mode, Left, Hands, handed, Unaware, Stopping>>
      BY <2>4 DEF vars, shared, commander, lcore, history, Mode, Left, Hands, Unaware,
         Stopping, InHand, Hands, Tst
    <3>2. QED
      BY <3>1, Stutter
  <2>5. QED
    BY <2>1, <2>2, <2>3, <2>4 DEF Next
<1>2. PrivatePools /\ Spec => []PoolInv
  <2>1. PrivatePools /\ Init => PoolInv
    BY ConstantsAssumption DEF PrivatePools, Init, PoolInv, InBurst, Pools
  <2>2. CASE PrivatePools
    BY <2>1, <2>2, PoolStep, TypeCorrect, PTL DEF Spec
  <2>3. QED
    BY <2>2
<1>3. CASE Careful /\ PrivatePools
  BY <1>1, <1>2, <1>3, ContractStart, ProtocolHolds, TypeCorrect, PTL
     DEF Spec, ContractStep, ImplementsContract, Contract!Spec
<1>4. QED
  BY <1>3
=============================================================================
