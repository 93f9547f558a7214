-------------------------- MODULE ConfigStore_proofs --------------------------
(* Proofs about ConfigStore, for every set of configurations and their     *)
(* sizes, every buffer and page size, every number of changes and boots.   *)
EXTENDS ConfigStore, TLAPS

(* The first byte of flash tells whose JSON is there, if any. *)
FirstByte == flash[0] \in {Erased, Junk, <<saving, 0>>}

(* The buffer holds c from its first byte to its last. *)
Buffered(c) ==
  /\ len = Size[c] /\ Size[c] <= BufSize
  /\ \A a \in 0 .. Size[c] - 1 : buf[a] = <<c, a>>

(* A save writes the configuration in memory, page by page, and no one     *)
(* changes it meanwhile.                                                   *)
SaveInProgress ==
  /\ task = "erase" => Buffered(config)
  /\ task = "write" =>
       /\ saving = config /\ Buffered(config)
       /\ \E k \in Nat : pos = k * Page
       /\ \A a \in 0 .. Size[config] - 1 : a < pos => flash[a] = <<config, a>>

(* A save is requested or sits out its delay. *)
Pending == (signal /\ task = "wait") \/ task = "delay"

(* While a reset may come, a change that was acknowledged before is in     *)
(* flash, or its save is under way, or due with the time to spare that     *)
(* slack counts, or failed.                                                *)
SaveComesFirst ==
  since # {} /\ task # "off" =>
    /\ config \in since
    /\ reset = "none" => since = {config}
    /\ \/ failed
       \/ Pending /\ (reset = "none" \/ resetIn >= Remaining + slack)
       \/ task \in {"erase", "write"}
       \/ task \in {"wait", "delay"} /\ \E c \in since : InFlash(c)

IInv == TypeOK /\ FirstByte /\ SaveInProgress /\ SaveComesFirst

-----------------------------------------------------------------------------
LEMMA Sizes ==
  /\ DefaultCfg \in Cfg /\ Valid \subseteq Cfg
  /\ \A c \in Cfg : Size[c] \in Nat /\ Size[c] >= 2
  /\ Page \in Nat /\ Page > 0 /\ BufSize \in Nat /\ BufSize > 0
  /\ 0 \in Address
BY SizesAssumption DEF Address

LEMMA BytesDiffer ==
  ASSUME NEW c \in Cfg, NEW a
  PROVE  <<c, a>> # Erased /\ <<c, a>> # Junk /\ <<c, a>> # Zeroed
BY SizesAssumption DEF Erased, Junk, Zeroed

(* aligned_len covers the JSON with whole pages and stays in the buffer. *)
LEMMA Aligned ==
  ASSUME len \in 0 .. BufSize
  PROVE  /\ aligned_len >= len
         /\ \E q \in Nat : aligned_len = q * Page /\ q * Page <= BufSize
<1> DEFINE q == (len + Page - 1) \div Page
           r == (len + Page - 1) % Page
           b == BufSize \div Page
<1>1. /\ q \in Int /\ r \in 0 .. Page - 1 /\ len + Page - 1 = Page * q + r
      /\ b \in Int /\ BufSize = Page * b
  BY Sizes, SizesAssumption
<1>2. aligned_len = q * Page
  BY DEF aligned_len
<1> HIDE DEF q, r, b
<1>3. q * Page >= len
  BY <1>1, Sizes
<1>4. q <= b
  <2>1. SUFFICES ASSUME q >= b + 1 PROVE FALSE
    BY <1>1
  <2>2. Page * q >= Page * b + Page
    BY <2>1, <1>1, Sizes
  <2> QED
    BY <2>2, <1>1, Sizes
<1>5. q >= 0
  <2>1. SUFFICES ASSUME q <= -1 PROVE FALSE
    BY <1>1
  <2>2. Page * q <= -Page
    BY <2>1, <1>1, Sizes
  <2> QED
    BY <2>2, <1>1, Sizes
<1>6. q * Page <= BufSize
  BY <1>1, <1>4, Sizes
<1> QED
  BY <1>1, <1>2, <1>3, <1>5, <1>6

(* A page that is begun below aligned_len ends in the buffer. *)
LEMMA NextPage ==
  ASSUME len \in 0 .. BufSize, pos \in 0 .. BufSize, NEW k \in Nat, pos = k * Page,
         pos < aligned_len
  PROVE  pos + Page \in 0 .. BufSize /\ pos + Page = (k + 1) * Page
<1>1. PICK q \in Nat : aligned_len = q * Page /\ q * Page <= BufSize
  BY Aligned
<1>2. k < q
  <2>1. SUFFICES ASSUME k >= q PROVE FALSE
    OBVIOUS
  <2>2. k * Page >= q * Page
    BY <2>1, Sizes
  <2> QED
    BY <2>2, <1>1, Sizes
<1>3. (k + 1) * Page <= q * Page
  BY <1>2, Sizes
<1>4. (k + 1) * Page = k * Page + Page
  BY Sizes
<1> QED
  BY <1>1, <1>3, <1>4, Sizes

(* A boot reads the configuration whose first byte is in flash, or the     *)
(* defaults.                                                               *)
LEMMA LoadFirst ==
  ASSUME NEW f, NEW c \in Cfg, f[0] \in {Erased, Junk, <<c, 0>>}
  PROVE  load(f) \in {c, DefaultCfg}
<1> DEFINE found == from_slice(f, json_end(f)) \cap Valid
<1>1. CASE json_end(f) < 2 \/ found = {}
  BY <1>1 DEF load
<1>2. CASE ~(json_end(f) < 2 \/ found = {})
  <2>1. ASSUME NEW d \in found PROVE d \in Cfg /\ d = c
    <3>1. d \in Cfg /\ Size[d] = json_end(f) /\ \A a \in 0 .. json_end(f) - 1 : f[a] = <<d, a>>
      BY <2>1 DEF from_slice
    <3>2. f[0] = <<d, 0>>
      BY <3>1, Sizes
    <3>3. <<d, 0>> = <<c, 0>>
      BY <3>1, <3>2, BytesDiffer
    <3> QED
      BY <3>1, <3>3
  <2>2. load(f) = CHOOSE d \in Cfg : d \in found
    BY <1>2 DEF load
  <2> HIDE DEF found
  <2>3. (CHOOSE d \in Cfg : d \in found) \in found
    BY <1>2, <2>1
  <2> QED
    BY <2>1, <2>2, <2>3
<1> QED
  BY <1>1, <1>2

LEMMA LoadIn == ASSUME IInv PROVE load(flash) \in {saving, DefaultCfg}
BY LoadFirst DEF IInv, TypeOK, FirstByte

-----------------------------------------------------------------------------
LEMMA InitIInv == Init => IInv
<1> SUFFICES ASSUME Init PROVE IInv
  OBVIOUS
<1>1. TypeOK
  <2>1. Zeroed \in Byte /\ Erased \in Byte
    BY DEF Zeroed, Erased, Byte
  <2>2. buf \in [Address -> Byte] /\ flash \in [Address -> Byte]
    BY <2>1 DEF Init
  <2>3. /\ edits \in 0 .. MaxEdits /\ boots \in 1 .. MaxBoots
        /\ len \in 0 .. BufSize /\ pos \in 0 .. BufSize
        /\ saveIn \in Nat /\ resetIn \in Nat /\ slack \in Int
    BY SizesAssumption, Sizes DEF Init
  <2> QED
    BY <2>2, <2>3, Sizes DEF Init, TypeOK
<1>2. FirstByte
  BY Sizes DEF Init, FirstByte
<1> QED
  BY <1>1, <1>2 DEF Init, IInv, SaveInProgress, SaveComesFirst

(* A handler's change: the save task waits, and is signalled. *)
LEMMA EditIInv ==
  ASSUME IInv, NEW c \in Cfg, Edit(c)
  PROVE  IInv'
<1>1. TypeOK'
  BY SizesAssumption DEF IInv, TypeOK, Edit, request_save
<1>2. FirstByte' /\ SaveInProgress'
  BY DEF IInv, FirstByte, SaveInProgress, Edit, OthersRun
<1>3. SaveComesFirst'
  <2>1. CASE reset = "none"
    BY <2>1 DEF Edit, OthersRun, request_save, SaveComesFirst, Pending
  <2>2. CASE reset # "none" /\ since = {}
    BY <2>2 DEF Edit, SaveComesFirst
  <2>3. CASE reset # "none" /\ since # {}
    <3>1. \A d \in since : InFlash(d)' = InFlash(d)
      BY DEF Edit, InFlash
    <3> QED
      BY <2>3, <3>1 DEF IInv, Edit, OthersRun, request_save, SaveComesFirst, Pending, Remaining
  <2> QED
    BY <2>1, <2>2, <2>3
<1> QED
  BY <1>1, <1>2, <1>3 DEF IInv

LEMMA FlashKept ==
  ASSUME UNCHANGED flash
  PROVE  \A c : InFlash(c)' = InFlash(c)
BY DEF InFlash

LEMMA SerialisedType ==
  ASSUME TypeOK
  PROVE  Serialised(config) \in [Address -> Byte]
<1>1. \A a \in Address : <<config, a>> \in Byte /\ buf[a] \in Byte
  BY Sizes DEF TypeOK, Address, Byte
<1> QED
  BY <1>1 DEF Serialised

(* The steps of the save task and the error that ends a save. *)
LEMMA SaveIInv ==
  ASSUME IInv, SaveStep \/ FlashFails
  PROVE  IInv'
<1>0. TypeOK /\ FirstByte /\ SaveInProgress /\ SaveComesFirst
  BY DEF IInv
<1>1. CASE SaveWake
  <2>1. TypeOK'
    BY <1>0, <1>1, DelaysAssumption DEF TypeOK, SaveWake
  <2>2. FirstByte' /\ SaveInProgress'
    BY <1>0, <1>1 DEF FirstByte, SaveInProgress, SaveWake
  <2>3. SaveComesFirst'
    BY <1>0, <1>1, FlashKept DEF SaveComesFirst, SaveWake, Pending, Remaining
  <2> QED
    BY <2>1, <2>2, <2>3 DEF IInv
<1>2. CASE Serialise
  <2>1. config \in Cfg /\ Size[config] \in Nat /\ Size[config] >= 2 /\ Size[config] <= BufSize
    BY <1>0, <1>2, Sizes DEF TypeOK, Serialise, timeVars
  <2>2. buf' \in [Address -> Byte]
    BY <1>2, SerialisedType, <1>0 DEF Serialise, TypeOK
  <2>3. TypeOK'
    <3>1. len' \in 0 .. BufSize
      BY <1>2, <2>1, Sizes DEF Serialise
    <3> QED
      BY <1>0, <1>2, <2>2, <3>1 DEF TypeOK, Serialise, timeVars
  <2>4. Buffered(config)'
    BY <1>2, <2>1, Sizes DEF Serialise, Serialised, Buffered, Address
  <2>5. FirstByte' /\ SaveInProgress'
    BY <1>0, <1>2, <2>4 DEF FirstByte, SaveInProgress, Serialise
  <2>6. SaveComesFirst'
    BY <1>0, <1>2 DEF SaveComesFirst, Serialise, timeVars
  <2> QED
    BY <2>3, <2>5, <2>6 DEF IInv
<1>3. CASE SerialiseFails
  <2>1. buf' \in [Address -> Byte]
    BY <1>3, SerialisedType, <1>0 DEF SerialiseFails, TypeOK
  <2>2. TypeOK'
    BY <1>0, <1>3, <2>1 DEF TypeOK, SerialiseFails, timeVars
  <2>3. FirstByte' /\ SaveInProgress'
    BY <1>0, <1>3 DEF FirstByte, SaveInProgress, SerialiseFails
  <2>4. SaveComesFirst'
    BY <1>0, <1>3 DEF SaveComesFirst, SerialiseFails, timeVars
  <2> QED
    BY <2>2, <2>3, <2>4 DEF IInv
<1>4. CASE Erase
  <2>1. Erased \in Byte
    BY DEF Erased, Byte
  <2>2. TypeOK'
    BY <1>0, <1>4, <2>1, Sizes DEF TypeOK, Erase, timeVars
  <2>3. FirstByte'
    BY <1>4, Sizes DEF FirstByte, Erase
  <2>4. SaveInProgress'
    <3>1. Buffered(config)'
      BY <1>0, <1>4 DEF SaveInProgress, Erase, Buffered
    <3>2. pos' = 0 * Page /\ 0 \in Nat
      BY <1>4, Sizes DEF Erase
    <3>3. \A a \in 0 .. Size[config'] - 1 : ~(a < pos')
      BY <1>4 DEF Erase
    <3> QED
      BY <1>4, <3>1, <3>2, <3>3 DEF SaveInProgress, Erase
  <2>5. SaveComesFirst'
    BY <1>0, <1>4 DEF SaveComesFirst, Erase, timeVars
  <2> QED
    BY <2>2, <2>3, <2>4, <2>5 DEF IInv
<1>5. CASE WritePage
  <2>0. /\ saving = config /\ Buffered(config) /\ task = "write"
        /\ \A a \in 0 .. Size[config] - 1 : a < pos => flash[a] = <<config, a>>
        /\ config \in Cfg /\ Size[config] \in Nat /\ Size[config] >= 2
    BY <1>0, <1>5, Sizes DEF SaveInProgress, WritePage, TypeOK
  <2>1. PICK k \in Nat : pos = k * Page
    BY <1>0, <1>5 DEF SaveInProgress, WritePage
  <2>2. pos' \in 0 .. BufSize /\ pos' = (k + 1) * Page /\ pos' = pos + Page
    BY <1>0, <1>5, <2>1, NextPage DEF TypeOK, WritePage, timeVars
  <2>3. flash' \in [Address -> Byte]
    BY <1>0, <1>5 DEF TypeOK, WritePage, timeVars
  <2>4. TypeOK'
    BY <1>0, <1>5, <2>2, <2>3 DEF TypeOK, WritePage, timeVars
  <2>5. \A a \in 0 .. Size[config] - 1 : a < pos' => flash'[a] = <<config, a>>
    <3> SUFFICES ASSUME NEW a \in 0 .. Size[config] - 1, a < pos'
                 PROVE  flash'[a] = <<config, a>>
      OBVIOUS
    <3>1. a \in Address /\ buf[a] = <<config, a>>
      BY <2>0, Sizes DEF Buffered, Address
    <3>2. CASE a < pos
      BY <1>0, <1>5, <2>0, <3>1, <3>2, Sizes DEF WritePage, TypeOK
    <3>3. CASE a >= pos
      <4>1. a \in pos .. pos + Page - 1
        BY <1>0, <2>2, <3>3, Sizes DEF TypeOK
      <4> QED
        BY <1>5, <3>1, <4>1 DEF WritePage
    <3> QED
      BY <3>2, <3>3, <1>0 DEF TypeOK
  <2>6. FirstByte'
    <3>1. 0 \in 0 .. Size[config] - 1 /\ 0 < pos'
      BY <1>0, <2>0, <2>2, Sizes DEF TypeOK
    <3> QED
      BY <1>5, <2>0, <2>5, <3>1 DEF FirstByte, WritePage
  <2>7. SaveInProgress'
    <3>1. Buffered(config)'
      BY <1>5, <2>0 DEF Buffered, WritePage
    <3>2. k + 1 \in Nat
      OBVIOUS
    <3> QED
      BY <1>5, <2>0, <2>2, <2>5, <3>1, <3>2 DEF SaveInProgress, WritePage
  <2>8. SaveComesFirst'
    BY <1>0, <1>5 DEF SaveComesFirst, WritePage, timeVars
  <2> QED
    BY <2>4, <2>6, <2>7, <2>8 DEF IInv
<1>6. CASE Saved
  <2>1. TypeOK'
    BY <1>0, <1>6 DEF TypeOK, Saved, timeVars
  <2>2. FirstByte' /\ SaveInProgress'
    BY <1>0, <1>6 DEF FirstByte, SaveInProgress, Saved
  <2>3. InFlash(config)
    <3>1. /\ Buffered(config) /\ config \in Cfg /\ Size[config] \in Nat
          /\ \A a \in 0 .. Size[config] - 1 : a < pos => flash[a] = <<config, a>>
      BY <1>0, <1>6, Sizes DEF SaveInProgress, Saved, TypeOK
    <3>2. pos >= len
      <4>1. aligned_len >= len /\ \E q \in Nat : aligned_len = q * Page
        BY <1>0, Aligned DEF TypeOK
      <4>2. aligned_len \in Int
        BY <4>1, Sizes
      <4> QED
        BY <1>0, <1>6, <4>1, <4>2 DEF Saved, TypeOK
    <3> QED
      BY <1>0, <3>1, <3>2 DEF InFlash, Buffered, TypeOK
  <2>4. SaveComesFirst'
    <3>1. InFlash(config)'
      BY <2>3, FlashKept, <1>6 DEF InFlash, Saved
    <3> QED
      BY <1>0, <1>6, <3>1 DEF SaveComesFirst, Saved, timeVars
  <2> QED
    BY <2>1, <2>2, <2>4 DEF IInv
<1>7. CASE FlashFails
  <2>1. TypeOK'
    BY <1>0, <1>7 DEF TypeOK, FlashFails, timeVars
  <2>2. FirstByte' /\ SaveInProgress'
    BY <1>0, <1>7 DEF FirstByte, SaveInProgress, FlashFails
  <2>3. SaveComesFirst'
    BY <1>0, <1>7 DEF SaveComesFirst, FlashFails, timeVars
  <2> QED
    BY <2>1, <2>2, <2>3 DEF IInv
<1> QED
  BY <1>1, <1>2, <1>3, <1>4, <1>5, <1>6, <1>7 DEF SaveStep

LEMMA NextIInv == IInv /\ [Next]_vars => IInv'
<1> SUFFICES ASSUME IInv, [Next]_vars PROVE IInv'
  OBVIOUS
<1>0. TypeOK /\ FirstByte /\ SaveInProgress /\ SaveComesFirst
  BY DEF IInv
<1>1. ASSUME NEW c \in Cfg, Edit(c) \/ Import(c) PROVE IInv'
  BY <1>1, EditIInv DEF Import
<1>2. CASE Reboot \/ OtaDone
  <2>1. TypeOK'
    <3>1. Remaining \in Nat
      BY <1>0, DelaysAssumption DEF TypeOK, Remaining
    <3> QED
      BY <1>0, <1>2, <3>1, DelaysAssumption DEF TypeOK, Reboot, OtaDone, Announce
  <2>2. FirstByte' /\ SaveInProgress'
    BY <1>0, <1>2 DEF FirstByte, SaveInProgress, Reboot, OtaDone, OthersRun
  <2>3. SaveComesFirst'
    <3>1. Remaining' = Remaining /\ Remaining \in Nat
      BY <1>0, <1>2, DelaysAssumption DEF TypeOK, Remaining, Reboot, OtaDone
    <3>2. resetIn' >= Remaining' + slack'
      BY <1>2, <3>1, DelaysAssumption DEF Reboot, OtaDone, Announce
    <3> QED
      BY <1>0, <1>2, <3>2, FlashKept
         DEF SaveComesFirst, Reboot, OtaDone, OthersRun, Announce, Pending
  <2> QED
    BY <2>1, <2>2, <2>3 DEF IInv
<1>3. CASE FactoryReset
  <2>0. Remaining' = Remaining /\ Remaining \in Nat
    BY <1>0, <1>3, DelaysAssumption DEF TypeOK, Remaining, FactoryReset, request_save
  <2>1. TypeOK'
    BY <1>0, <1>3, <2>0, Sizes, SizesAssumption, DelaysAssumption
       DEF TypeOK, FactoryReset, request_save, Announce
  <2>2. FirstByte' /\ SaveInProgress'
    BY <1>0, <1>3 DEF FirstByte, SaveInProgress, FactoryReset, OthersRun
  <2>3. SaveComesFirst'
    <3>1. resetIn' >= Remaining' + slack'
      BY <1>3, <2>0, DelaysAssumption DEF FactoryReset, Announce
    <3> QED
      BY <1>3, <3>1 DEF SaveComesFirst, FactoryReset, OthersRun, request_save, Announce, Pending
  <2> QED
    BY <2>1, <2>2, <2>3 DEF IInv
<1>9. CASE HoldConfig \/ Occupy \/ Release
  <2> USE DEF HoldConfig, Occupy, Release, OthersRun, timeVars
  <2>1. TypeOK'
    BY <1>0, <1>9 DEF TypeOK
  <2>2. FirstByte' /\ SaveInProgress'
    BY <1>0, <1>9 DEF FirstByte, SaveInProgress, Buffered
  <2>3. SaveComesFirst'
    BY <1>0, <1>9, FlashKept DEF SaveComesFirst, Pending, Remaining
  <2> QED
    BY <2>1, <2>2, <2>3 DEF IInv
<1>10. CASE Tick
  <2>1. TypeOK'
    BY <1>0, <1>10 DEF TypeOK, Tick
  <2>2. FirstByte' /\ SaveInProgress'
    BY <1>0, <1>10 DEF FirstByte, SaveInProgress, Tick
  <2>3. ASSUME Pending, resetIn >= Remaining + slack PROVE resetIn' >= Remaining' + slack'
    <3>1. saveIn \in Nat /\ resetIn \in Nat /\ slack \in Int /\ SaveDelay \in Nat
      BY <1>0, DelaysAssumption DEF TypeOK
    <3>2. CASE task = "delay"
      BY <1>10, <2>3, <3>1, <3>2 DEF Tick, Remaining, SaveDue
    <3>3. CASE task = "wait" /\ signal
      BY <1>10, <2>3, <3>1, <3>3 DEF Tick, Remaining, SaveDue
    <3> QED
      BY <2>3, <3>2, <3>3 DEF Pending
  <2>4. SaveComesFirst'
    BY <1>0, <1>10, <2>3, FlashKept DEF SaveComesFirst, Tick, Pending
  <2> QED
    BY <2>1, <2>2, <2>4 DEF IInv
<1>4. CASE SaveStep \/ FlashFails
  BY <1>4, SaveIInv
<1>5. CASE Reset
  <2>0. saveIn' \in Nat /\ resetIn' \in Nat /\ slack' \in Int
    BY <1>5 DEF Reset, Down
  <2>1. TypeOK'
    BY <1>0, <1>5, <2>0 DEF TypeOK, Reset, Down
  <2> QED
    BY <1>0, <1>5, <2>1 DEF IInv, FirstByte, SaveInProgress, SaveComesFirst, Reset, Down
<1>6. CASE PowerLoss
  <2>1. flash' = flash \/ flash' = [a \in Address |-> Junk]
    BY <1>6 DEF PowerLoss
  <2>2. flash' \in [Address -> Byte]
    BY <1>0, <2>1 DEF TypeOK, Junk, Byte
  <2>0. saveIn' \in Nat /\ resetIn' \in Nat /\ slack' \in Int
    BY <1>6 DEF PowerLoss, Down
  <2>3. TypeOK'
    BY <1>0, <1>6, <2>0, <2>2 DEF TypeOK, PowerLoss, Down
  <2>4. FirstByte'
    BY <1>0, <1>6, <2>1, Sizes DEF FirstByte, PowerLoss
  <2> QED
    BY <1>6, <2>3, <2>4 DEF IInv, SaveInProgress, SaveComesFirst, PowerLoss, Down
<1>7. CASE Boot
  <2>1. load(flash) \in Cfg
    BY <1>0, LoadIn, Sizes DEF TypeOK
  <2>2. TypeOK'
    <3>1. Zeroed \in Byte
      BY DEF Zeroed, Byte
    <3>2. buf' \in [Address -> Byte]
      BY <1>7, <3>1 DEF Boot
    <3>3. /\ len' \in 0 .. BufSize /\ pos' \in 0 .. BufSize
          /\ boots' \in 1 .. MaxBoots
      BY <1>0, <1>7, Sizes, SizesAssumption DEF Boot, TypeOK
    <3> QED
      BY <1>0, <1>7, <2>1, <3>2, <3>3 DEF TypeOK, Boot, timeVars
  <2> QED
    BY <1>0, <1>7, <2>2 DEF IInv, FirstByte, SaveInProgress, SaveComesFirst, Boot
<1>8. CASE UNCHANGED vars
  <2>1. TypeOK'
    BY <1>0, <1>8 DEF TypeOK, vars, timeVars
  <2>2. FirstByte' /\ SaveInProgress'
    BY <1>0, <1>8 DEF FirstByte, SaveInProgress, Buffered, vars
  <2>3. SaveComesFirst'
    BY <1>0, <1>8, FlashKept DEF SaveComesFirst, vars, timeVars, Pending, Remaining
  <2> QED
    BY <2>1, <2>2, <2>3 DEF IInv
<1> QED
  BY <1>1, <1>2, <1>3, <1>4, <1>5, <1>6, <1>7, <1>8, <1>9, <1>10 DEF Next

-----------------------------------------------------------------------------
(* The inductive invariant holds in every reachable state. *)
THEOREM Invariance == Spec => []IInv
BY InitIInv, NextIInv, PTL DEF Spec

(* The save never writes past the buffer or the region, and buffer and     *)
(* flash hold bytes (config.rs:252-302).                                   *)
THEOREM TypeCorrect == Spec => []TypeOK
<1>1. IInv => TypeOK
  BY DEF IInv
<1> QED
  BY <1>1, Invariance, PTL

(* Wherever power is lost, a boot loads the configuration last written or  *)
(* the defaults (config.rs:101-143, 252-302).                              *)
THEOREM NoOldConfiguration == Spec => []BootsLastOrDefault
<1>1. IInv => BootsLastOrDefault
  BY LoadIn DEF BootsLastOrDefault
<1> QED
  BY <1>1, Invariance, PTL

(* An announced reset overtakes the save of a change acknowledged before   *)
(* only if the save was kept waiting, for CONFIG or for the executor, as   *)
(* long as it had to spare, or failed: for every length of the delays and  *)
(* every wait (http.rs:577-590, 1517-1537, config.rs:252-302).             *)
THEOREM ResetAfterSave == Spec => ResetKeepsEdits
<1>1. IInv /\ [Next]_vars =>
        [(Reset /\ since # {} /\ ~failed /\ slack > 0) => \E c \in since : InFlash(c)]_vars
  <2> SUFFICES ASSUME IInv, Reset, since # {}, ~failed, slack > 0
               PROVE  \E c \in since : InFlash(c)
    OBVIOUS
  <2>1. Remaining \in Nat /\ slack \in Int /\ resetIn = 0
    BY DelaysAssumption DEF IInv, TypeOK, Remaining, Reset
  <2>2. ~(resetIn >= Remaining + slack)
    BY <2>1
  <2> QED
    BY <2>2 DEF IInv, SaveComesFirst, Reset, OthersRun
<1> QED
  BY <1>1, Invariance, PTL DEF Spec, ResetKeepsEdits

-----------------------------------------------------------------------------
(* Each step of the store is a step of the register, or none. *)
LEMMA InitRegister == Init => Register!Init
<1> SUFFICES ASSUME Init PROVE Register!Init
  OBVIOUS
<1>1. load(flash) = DefaultCfg
  BY Sizes, LoadFirst DEF Init
<1> QED
  BY <1>1 DEF Init, Register!Init

LEMMA StepRegister ==
  IInv /\ IInv' /\ [Next]_vars => [Register!Next]_<<task # "off", config, load(flash)>>
<1> SUFFICES ASSUME IInv, IInv', [Next]_vars
             PROVE  [Register!Next]_<<task # "off", config, load(flash)>>
  OBVIOUS
<1> USE DEF Register!Next
<1>0. TypeOK /\ SaveInProgress
  BY DEF IInv
<1>1. ASSUME NEW c \in Cfg, Edit(c) \/ Import(c)
      PROVE  [Register!Next]_<<task # "off", config, load(flash)>>
  BY <1>1 DEF Import, Edit, OthersRun, Register!Change
<1>2. CASE FactoryReset
  BY <1>2, Sizes DEF FactoryReset, OthersRun, Register!Change
<1>3. CASE \/ Reboot \/ OtaDone \/ SaveWake \/ Serialise \/ SerialiseFails \/ Saved \/ FlashFails
         \/ HoldConfig \/ Occupy \/ Release \/ Tick
  BY <1>3 DEF Reboot, OtaDone, SaveWake, Serialise, SerialiseFails, Saved, FlashFails, OthersRun,
              HoldConfig, Occupy, Release, Tick
<1>4. CASE Erase
  <2>1. flash'[0] = Erased
    BY <1>4, Sizes DEF Erase
  <2>2. load(flash') = DefaultCfg
    BY <2>1, Sizes, LoadFirst
  <2> QED
    BY <1>4, <2>2 DEF Erase, Register!Lose
<1>5. CASE WritePage
  <2>1. load(flash)' \in {saving', DefaultCfg}
    BY LoadFirst DEF IInv, FirstByte, TypeOK
  <2>2. saving' = config
    BY <1>0, <1>5 DEF SaveInProgress, WritePage
  <2> QED
    BY <1>5, <2>1, <2>2 DEF WritePage, Register!Commit, Register!Lose
<1>6. CASE Reset
  BY <1>6 DEF Reset, Down, OthersRun, Register!Crash
<1>7. CASE PowerLoss
  <2>1. CASE UNCHANGED flash
    BY <1>7, <2>1 DEF PowerLoss, Down, Register!Crash
  <2>2. CASE flash' = [a \in Address |-> Junk]
    <3>1. flash'[0] = Junk
      BY <2>2, Sizes
    <3>2. load(flash') = DefaultCfg
      BY <3>1, Sizes, LoadFirst
    <3> QED
      BY <1>7, <3>2 DEF PowerLoss, Down, Register!Crash
  <2> QED
    BY <1>7, <2>1, <2>2 DEF PowerLoss
<1>8. CASE Boot
  BY <1>8 DEF Boot, Register!Restart
<1>9. CASE UNCHANGED vars
  BY <1>9 DEF vars
<1> QED
  BY <1>1, <1>2, <1>3, <1>4, <1>5, <1>6, <1>7, <1>8, <1>9 DEF Next, SaveStep

(* Flash, seen through load, is a register of configurations: a boot reads *)
(* the one last made permanent or the defaults (config.rs:101-143,         *)
(* 246-302).                                                               *)
THEOREM StoreIsRegister == Spec => IsRegister
BY InitRegister, StepRegister, Invariance, PTL DEF Spec, IsRegister, Register!Spec
=============================================================================
