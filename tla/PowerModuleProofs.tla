------------------------- MODULE PowerModuleProofs -------------------------
(***************************************************************************)
(* Proofs about PowerModule for any number of hint threads and of calls of *)
(* init and open, and any list of frequencies.                             *)
(***************************************************************************)
EXTENDS PowerModule, SequenceTheorems, FiniteSetTheorems, TLAPS

(* The places after the poker was stored, those with a table, and those    *)
(* with the boost frequencies.                                             *)
Stored == {"count", "table", "lp", "interaction", "animation", "boost"}
Tabled == {"lp", "interaction", "animation", "boost"}
Boosted == {"interaction", "animation", "boost"}

(* A frequency that a hint may ask for.                                    *)
Fine(use, f) ==
    \/ f = IdleTopFreq
    \/ /\ \E i \in DOMAIN FreqList : f = FreqList[i]
       /\ f >= Wanted(use)

(* Before the first call nothing is there.  From then on pInfo is, and     *)
(* once the call has stored its poker, pInfo has one that runs.            *)
Started ==
    /\ calls = 0 => main = Returned /\ pInfo = NULL
    /\ calls # 0 => pInfo \in Info
    /\ main.at = "idle" => main = Returned
    /\ main.at = "wait" => main.i \in Pokers
    /\ HasReturned \/ main.at \in Stored => HasLooper(pInfo.mTimeoutPoker)
    /\ \A c \in HintThreads : hint[c] # NothingLoaded => HasReturned
    /\ \A p \in ready : worker[p] = "polling"

(* The table has num_available entries, and is the list unless a read has  *)
(* failed.                                                                 *)
Table ==
    /\ main.at \in {"table"} \cup Tabled =>
          /\ pInfo.num_available \in Nat \ {0}
          /\ ~failed => pInfo.num_available = Len(FreqList)
    /\ main.at \in Tabled =>
          /\ Len(pInfo.available) = pInfo.num_available
          /\ ~failed => pInfo.available = FreqList

(* The boost frequencies stay fine while a later init sets them again.     *)
Boosts ==
    ~failed =>
        /\ HasReturned \/ main.at \in Boosted =>
              /\ Fine("interaction", pInfo.interaction)
              /\ Fine("animation", pInfo.animation)
        /\ \A c \in HintThreads :
              hint[c].freq # Garbage => Fine(hint[c].use, hint[c].freq)

IInv ==
    /\ TypeOK /\ Started /\ PokersAreLive
    /\ Table /\ Boosts /\ HintFreqAvailable /\ BootBoostIsMax

-----------------------------------------------------------------------------
(* Texts and frequencies. *)

LEMMA FreqListType ==
  /\ FreqList \in Seq(Frequencies)
  /\ Len(FreqList) \in Nat \ {0}
  /\ DOMAIN FreqList = 1 .. Len(FreqList)
<1>1. /\ FreqList \in Seq(Nat)
      /\ Len(FreqList) \in Nat
      /\ DOMAIN FreqList = 1 .. Len(FreqList)
  BY FrequencyAssumption
<1>2. Len(FreqList) # 0
  BY <1>1, FrequencyAssumption, EmptySeq
<1>3. \A i \in 1 .. Len(FreqList) : FreqList[i] \in Frequencies
  BY <1>1 DEF Frequencies
<1>4. FreqList \in Seq(Frequencies)
  BY <1>1, <1>3
<1>5. QED
  BY <1>1, <1>2, <1>4

(* Every text has two words at least, so that what Counted makes of it is  *)
(* positive.                                                               *)
LEMMA TextType ==
  ASSUME NEW text \in Texts
  PROVE  /\ text \in Seq(Frequencies)
         /\ Counted(text) \in Nat \ {0}
         /\ Len(text) \in Nat
<1>1. 0 \in Frequencies
  BY DEF Frequencies
<1>2. CASE text = Listing
  <2>1. text \in Seq(Frequencies) /\ Len(text) = Len(FreqList) + 1
    BY <1>1, <1>2, FreqListType, AppendProperties DEF Listing
  <2>2. QED
    BY <2>1, FreqListType DEF Counted
<1>3. CASE text # Listing
  <2>1. PICK n \in ErrorWords : text = [i \in 1 .. n |-> 0]
    BY <1>3 DEF Texts
  <2>2. n \in Nat /\ n >= 2
    BY ErrorAssumption
  <2>3. text \in Seq(Frequencies) /\ Len(text) = n
    BY <1>1, <2>1, <2>2
  <2>4. QED
    BY <2>2, <2>3 DEF Counted
<1>4. QED
  BY <1>2, <1>3

(* What CountFrequencies and StoreFrequencies make of the list.            *)
LEMMA ListingStored ==
  /\ Counted(Listing) = Len(FreqList)
  /\ SubSeq(Listing, 1, Len(FreqList)) = FreqList
<1> DEFINE n == Len(FreqList)
           s == SubSeq(Listing, 1, n)
<1>1. /\ Listing \in Seq(Frequencies)
      /\ Len(Listing) = n + 1
      /\ \A i \in 1 .. n : Listing[i] = FreqList[i]
  <2>1. 0 \in Frequencies
    BY DEF Frequencies
  <2>2. QED
    BY <2>1, FreqListType, AppendProperties DEF Listing
<1>2. n \in Nat
  BY FreqListType
<1>3. Counted(Listing) = n
  BY <1>1, <1>2 DEF Counted
<1>4. /\ s \in Seq(Frequencies)
      /\ Len(s) = n
      /\ \A i \in 1 .. n : s[i] = Listing[i]
  <2>1. \A i \in 1 .. n : Listing[i] \in Frequencies
    BY <1>1, FreqListType
  <2> HIDE DEF n
  <2>2. /\ s \in Seq(Frequencies)
        /\ Len(s) = IF 1 <= n THEN n - 1 + 1 ELSE 0
        /\ \A i \in 1 .. n - 1 + 1 : s[i] = Listing[1 + i - 1]
    BY <1>2, <2>1, SubSeqProperties
  <2>3. QED
    BY <1>2, <2>2
<1>5. s = FreqList
  <2> HIDE DEF s
  <2>1. \A i \in 1 .. n : s[i] = FreqList[i]
    BY <1>1, <1>4
  <2>2. QED
    BY <1>2, <1>4, <2>1, FreqListType, SeqEqual
<1>6. QED
  BY <1>3, <1>5

(* The first words of a text. *)
LEMMA FirstWords ==
  ASSUME NEW text \in Texts, NEW n \in Nat, n <= Len(text)
  PROVE  /\ SubSeq(text, 1, n) \in Seq(Frequencies)
         /\ Len(SubSeq(text, 1, n)) = n
<1>1. text \in Seq(Frequencies) /\ Len(text) \in Nat
  BY TextType
<1>2. \A i \in 1 .. n : text[i] \in Frequencies
  BY <1>1
<1>3. /\ SubSeq(text, 1, n) \in Seq(Frequencies)
      /\ Len(SubSeq(text, 1, n)) = IF 1 <= n THEN n - 1 + 1 ELSE 0
  BY <1>2, SubSeqProperties
<1>4. QED
  BY <1>3

-----------------------------------------------------------------------------
(* Types. *)

MainType == [at : Places, op : {"none", "init", "open"}, i : Nat, n : Nat]
HintType ==
    [use : Uses, poker : Pokers \cup {NoPoker, Garbage},
     freq : Frequencies \cup {Garbage}]
RequestType ==
    [use : Uses \cup {"boot"}, poker : Pokers \cup {NoPoker, Garbage},
     freq : Frequencies \cup {Garbage}]
WorkerStates == {"none", "started", "prepared", "polling", "dead"}

LEMMA Types ==
  TypeOK <=>
    /\ main \in MainType
    /\ calls \in 0 .. MaxCalls
    /\ pInfo = NULL \/ pInfo \in Info
    /\ dev_id \in [Devices -> -1 .. Len(inputs) - 1]
    /\ inputs \in Inputs
    /\ worker \in [Pokers -> WorkerStates]
    /\ ready \subseteq Pokers
    /\ hint \in [HintThreads -> HintType]
    /\ request \in RequestType
    /\ failed \in BOOLEAN
BY DEF TypeOK, MainType, HintType, RequestType, WorkerStates

(* The numbers that stand for nothing are no pokers and no frequencies.    *)
LEMMA Numbers ==
  /\ NoPoker \notin Pokers /\ Garbage \notin Pokers /\ NoPoker # Garbage
  /\ Garbage \notin Frequencies
  /\ Frequencies \subseteq Nat
  /\ IdleTopFreq \in Frequencies /\ 0 \in Frequencies
<1>1. MaxCalls \in Nat /\ IdleTopFreq \in Nat
  BY CallsAssumption, FrequencyAssumption
<1>2. NoPoker \notin Pokers /\ Garbage \notin Pokers /\ NoPoker # Garbage
  BY <1>1 DEF NoPoker, Garbage, Pokers
<1>3. \A i \in DOMAIN FreqList : FreqList[i] \in Nat
  BY FrequencyAssumption
<1>4. Frequencies \subseteq Nat
  BY <1>1, <1>3 DEF Frequencies
<1>5. Garbage \notin Frequencies
  BY <1>4 DEF Garbage
<1>6. IdleTopFreq \in Frequencies /\ 0 \in Frequencies
  BY DEF Frequencies
<1>7. QED
  BY <1>2, <1>4, <1>5, <1>6

LEMMA RecordTypes ==
  /\ Returned \in MainType /\ Returned.at = "idle"
  /\ \A at \in Places, op \in {"none", "init", "open"}, i \in Nat, n \in Nat :
        Main(at, op, i, n) \in MainType /\ Main(at, op, i, n).at = at
  /\ NothingLoaded \in HintType /\ NoRequest \in RequestType
  /\ \A v \in {0, Garbage} : Allocated(v) \in Info
<1>1. Returned \in MainType /\ Returned.at = "idle"
  BY DEF Returned, Main, MainType, Places
<1>2. \A at \in Places, op \in {"none", "init", "open"}, i \in Nat, n \in Nat :
        Main(at, op, i, n) \in MainType /\ Main(at, op, i, n).at = at
  BY DEF Main, MainType
<1>3. NothingLoaded \in HintType /\ NoRequest \in RequestType
  <2>1. 0 \in Frequencies
    BY Numbers
  <2>2. QED
    BY <2>1 DEF NothingLoaded, NoRequest, HintType, RequestType, Uses
<1>4. ASSUME NEW v \in {0, Garbage} PROVE Allocated(v) \in Info
  <2>1. /\ v \in Nat \cup {Garbage}
        /\ v \in Pokers \cup {NoPoker, Garbage}
        /\ v \in Frequencies \cup {Garbage}
    BY <1>4, Numbers DEF NoPoker, Garbage
  <2>2. << >> \in Seq(Frequencies)
    OBVIOUS
  <2>3. QED
    BY <2>1, <2>2 DEF Allocated, Info
<1>5. QED
  BY <1>1, <1>2, <1>3, <1>4

LEMMA InitInv == Init => IInv
<1> SUFFICES ASSUME Init PROVE IInv
  OBVIOUS
<1>1. TypeOK
  <2>1. dev_id \in [Devices -> -1 .. Len(inputs) - 1]
    <3>1. Len(inputs) \in Nat
      BY InputsAssumption DEF Init
    <3>2. -1 \in -1 .. Len(inputs) - 1
      BY <3>1
    <3>3. QED
      BY <3>2 DEF Init, Garbage
  <2>2. 0 \in 0 .. MaxCalls
    BY CallsAssumption
  <2>3. worker \in [Pokers -> WorkerStates] /\ failed \in BOOLEAN
    BY DEF Init, WorkerStates
  <2>4. QED
    BY <2>1, <2>2, <2>3, Types, RecordTypes DEF Init
<1>2. ~HasReturned
  BY DEF Init, HasReturned
<1>3. Started
  BY <1>2, RecordTypes DEF Init, Started, Stored
<1>4. PokersAreLive
  BY DEF Init, PokersAreLive, NothingLoaded, NoRequest
<1>5. Table /\ Boosts
  BY <1>2, RecordTypes
     DEF Init, Table, Boosts, Tabled, Boosted, NothingLoaded
<1>6. HintFreqAvailable /\ BootBoostIsMax
  BY DEF Init, HintFreqAvailable, BootBoostIsMax, NoRequest
<1>7. QED
  BY <1>1, <1>3, <1>4, <1>5, <1>6 DEF IInv

-----------------------------------------------------------------------------
(* Steps of the framework's thread. *)

(* A step inside a call that leaves the pokers and the hints alone.        *)
LEMMA MainMoves ==
  ASSUME IInv, main.at # "idle",
         UNCHANGED <<calls, inputs, pokers, hints>>,
         main' \in MainType, pInfo' \in Info, failed' \in BOOLEAN,
         dev_id' \in [Devices -> -1 .. Len(inputs) - 1],
         failed => failed',
         main'.at = "idle" => main' = Returned,
         main'.at # "wait",
         HasLooper(pInfo.mTimeoutPoker) => HasLooper(pInfo'.mTimeoutPoker),
         main'.at \in Stored \cup {"idle"} => HasLooper(pInfo'.mTimeoutPoker),
         Table',
         ~failed' /\ (HasReturned \/ main'.at \in Boosted \cup {"idle"}) =>
            /\ Fine("interaction", pInfo'.interaction)
            /\ Fine("animation", pInfo'.animation)
  PROVE  IInv'
<1> USE DEF IInv
<1>1. worker' = worker /\ ready' = ready /\ hint' = hint /\ request' = request
  BY DEF pokers, hints
<1>2. TypeOK'
  BY <1>1 DEF TypeOK, MainType
<1>3. calls # 0 /\ calls \in Nat
  BY RecordTypes, CallsAssumption, Types DEF Started
<1>4. HasReturned => HasReturned'
  BY RecordTypes DEF HasReturned
<1>5. HasReturned' => HasReturned \/ main'.at = "idle"
  BY RecordTypes DEF HasReturned
<1>6. Started'
  <2>1. HasReturned' \/ main'.at \in Stored => HasLooper(pInfo'.mTimeoutPoker)
    BY <1>5 DEF Started
  <2>2. (HasReturned \/ main.at \in Stored)'
            => HasLooper(pInfo.mTimeoutPoker)'
    BY <1>1, <2>1 DEF HasLooper
  <2>3. QED
    BY <1>1, <1>3, <1>4, <2>2 DEF Started
<1>7. PokersAreLive'
  BY <1>1 DEF PokersAreLive, HasLooper
<1>8. Boosts'
  BY <1>1, <1>5 DEF Boosts, Fine
<1>9. HintFreqAvailable' /\ BootBoostIsMax'
  BY <1>1 DEF HintFreqAvailable, BootBoostIsMax
<1>10. QED
  BY <1>2, <1>6, <1>7, <1>8, <1>9

(* What is known within a call. *)
LEMMA WithinCall ==
  ASSUME IInv, main.at # "idle"
  PROVE  /\ main \in MainType
         /\ pInfo \in Info
         /\ dev_id \in [Devices -> -1 .. Len(inputs) - 1]
         /\ failed \in BOOLEAN
         /\ main.op \in {"none", "init", "open"}
         /\ HasReturned \/ main.at \in Stored =>
               HasLooper(pInfo.mTimeoutPoker)
         /\ ~failed /\ (HasReturned \/ main.at \in Boosted) =>
               /\ Fine("interaction", pInfo.interaction)
               /\ Fine("animation", pInfo.animation)
         /\ \A at \in Places : Goto(at) => main' \in MainType /\ main'.at = at
<1> USE DEF IInv
<1>1. main \in MainType /\ failed \in BOOLEAN
      /\ dev_id \in [Devices -> -1 .. Len(inputs) - 1]
  BY Types
<1>2. pInfo \in Info
  BY RecordTypes DEF Started
<1>3. main.op \in {"none", "init", "open"}
  BY <1>1 DEF MainType
<1>4. \A at \in Places : Goto(at) => main' \in MainType /\ main'.at = at
  BY <1>3, RecordTypes DEF Goto
<1>5. QED
  BY <1>1, <1>2, <1>3, <1>4 DEF Started, Boosts

(* The search for the input devices. *)
LEMMA InputsInv ==
  ASSUME IInv, CountInputs \/ ScanInput \/ EndScan
  PROVE  IInv'
<1>1. main.at = "inputs"
  BY DEF CountInputs, ScanInput, EndScan
<1>2. inputs \in Inputs /\ Len(inputs) \in Nat
  BY InputsAssumption, Types DEF IInv
<1>3. main.i \in Nat /\ main.n \in Nat
  BY <1>1, WithinCall DEF MainType
<1>4. /\ main' \in MainType
      /\ main'.at \in {"inputs", "construct"}
  <2>1. CASE Goto("construct")
    BY <1>1, <2>1, WithinCall DEF Places
  <2>2. CASE ~Goto("construct")
    <3> DEFINE found == NewDevices(main.i + 1)
               n == main.n + Cardinality(found)
    <3>1. main' = Main("inputs", main.op, main.i + 1, n)
      BY <2>2 DEF CountInputs, ScanInput, EndScan
    <3>2. Cardinality(found) \in Nat
      <4>1. Len(DevNames) \in Nat
        BY InputsAssumption
      <4>2. IsFiniteSet(Devices)
        BY <4>1, FS_Interval DEF Devices
      <4>3. found \in SUBSET Devices
        BY DEF NewDevices
      <4> HIDE DEF found
      <4>4. IsFiniteSet(found)
        BY <4>2, <4>3, FS_Subset
      <4>5. QED
        BY <4>4, FS_CardinalityType
    <3> HIDE DEF found
    <3>3. n \in Nat /\ main.i + 1 \in Nat
      BY <1>3, <3>2
    <3> HIDE DEF n
    <3>4. "inputs" \in Places
      BY DEF Places
    <3>5. QED
      BY <1>1, <3>1, <3>3, <3>4, WithinCall, RecordTypes
  <2>3. QED
    BY <2>1, <2>2
<1>5. dev_id' \in [Devices -> -1 .. Len(inputs) - 1]
  <2>1. CASE ScanInput
    <3>1. main.i \in -1 .. Len(inputs) - 1
      BY <1>2, <1>3, <2>1 DEF ScanInput
    <3>2. PICK found : FoundAt(found)
      BY <2>1 DEF ScanInput
    <3>3. dev_id \in [Devices -> -1 .. Len(inputs) - 1]
      BY <1>1, WithinCall
    <3>4. QED
      BY <3>1, <3>2, <3>3 DEF FoundAt
  <2>2. CASE ~ScanInput
    BY <1>1, <2>2, WithinCall DEF CountInputs, EndScan, devices
  <2>3. QED
    BY <2>1, <2>2
<1>6. /\ pInfo' \in Info
      /\ pInfo'.mTimeoutPoker = pInfo.mTimeoutPoker
      /\ pInfo'.interaction = pInfo.interaction
      /\ pInfo'.animation = pInfo.animation
  <2>1. pInfo \in Info
    BY <1>1, WithinCall
  <2>2. CASE CountInputs
    BY <1>2, <2>1, <2>2 DEF CountInputs, Info
  <2>3. CASE ~CountInputs
    BY <2>1, <2>3 DEF ScanInput, EndScan
  <2>4. QED
    BY <2>2, <2>3
<1>7. Table'
  BY <1>4 DEF Table, Tabled
<1>8. UNCHANGED <<calls, inputs, pokers, hints, failed>>
  BY DEF CountInputs, ScanInput, EndScan, devices
<1>9. main'.at \notin Stored \cup Boosted \cup {"idle", "wait"}
  BY <1>4 DEF Stored, Boosted
<1>10. failed \in BOOLEAN
  BY <1>1, WithinCall
<1>11. ~failed /\ HasReturned =>
          /\ Fine("interaction", pInfo'.interaction)
          /\ Fine("animation", pInfo'.animation)
  BY <1>1, <1>6, WithinCall
<1>12. QED
  BY <1>1, <1>4, <1>5, <1>6, <1>7, <1>8, <1>9, <1>10, <1>11, MainMoves

LEMMA StorePokerInv ==
  ASSUME IInv, StorePoker
  PROVE  IInv'
<1>1. main.at = "wait" /\ main.i \in ready
  BY DEF StorePoker
<1>2. main.i \in Pokers /\ worker[main.i] = "polling"
  BY <1>1 DEF IInv, Started
<1>3. pInfo' \in Info /\ pInfo'.mTimeoutPoker = main.i
      /\ pInfo'.interaction = pInfo.interaction
      /\ pInfo'.animation = pInfo.animation
  BY <1>1, <1>2, WithinCall DEF StorePoker, Info
<1>4. HasLooper(pInfo'.mTimeoutPoker)
  BY <1>2, <1>3 DEF HasLooper
<1>5. main' \in MainType /\ main'.at = "count"
  BY <1>1, WithinCall DEF StorePoker, Places
<1>6. Table'
  BY <1>5 DEF Table, Tabled
<1>7. ~failed /\ HasReturned =>
          /\ Fine("interaction", pInfo'.interaction)
          /\ Fine("animation", pInfo'.animation)
  BY <1>1, <1>3, WithinCall
<1>8. UNCHANGED <<calls, inputs, pokers, hints, failed, dev_id>>
  BY DEF StorePoker, devices
<1>9. failed \in BOOLEAN /\ dev_id \in [Devices -> -1 .. Len(inputs) - 1]
  BY <1>1, WithinCall
<1>10. "count" \notin Boosted \cup {"idle"}
  BY DEF Boosted
<1>11. QED
  BY <1>1, <1>3, <1>4, <1>5, <1>6, <1>7, <1>8, <1>9, <1>10, MainMoves

(* The same for the steps that follow, which keep the poker.               *)
LEMMA FrequencyMoves ==
  ASSUME IInv, main.at \in Stored, NEW to \in Places, Goto(to),
         UNCHANGED <<calls, devices, pokers, hints>>,
         pInfo' \in Info, pInfo'.mTimeoutPoker = pInfo.mTimeoutPoker,
         failed' \in BOOLEAN, failed => failed',
         to \notin {"idle", "wait"},
         Table',
         ~failed' /\ (HasReturned \/ to \in Boosted) =>
            /\ Fine("interaction", pInfo'.interaction)
            /\ Fine("animation", pInfo'.animation)
  PROVE  IInv'
<1>1. main.at # "idle"
  BY DEF Stored
<1>2. main' \in MainType /\ main'.at = to
  BY <1>1, WithinCall
<1>3. HasLooper(pInfo'.mTimeoutPoker)
  BY <1>1, WithinCall
<1>4. UNCHANGED inputs /\ dev_id' \in [Devices -> -1 .. Len(inputs) - 1]
  BY <1>1, WithinCall DEF devices
<1>5. QED
  BY <1>1, <1>2, <1>3, <1>4, MainMoves

LEMMA CountFrequenciesInv ==
  ASSUME IInv, CountFrequencies
  PROVE  IInv'
<1>1. main.at = "count" /\ main.at \in Stored /\ main.at # "idle"
  BY DEF CountFrequencies, Stored
<1> PICK text \in Texts :
      /\ pInfo' = [pInfo EXCEPT !.num_available = Counted(text)]
      /\ failed' = (failed \/ text # Listing)
  BY DEF CountFrequencies
<1>2. pInfo \in Info /\ failed \in BOOLEAN
  BY <1>1, WithinCall
<1>3. Counted(text) \in Nat \ {0}
  BY TextType
<1>4. /\ pInfo' \in Info
      /\ pInfo'.num_available = Counted(text)
      /\ pInfo'.mTimeoutPoker = pInfo.mTimeoutPoker
      /\ pInfo'.interaction = pInfo.interaction
      /\ pInfo'.animation = pInfo.animation
  BY <1>2, <1>3 DEF Info
<1>5. failed' \in BOOLEAN /\ (failed => failed')
      /\ (~failed' => text = Listing)
  BY <1>2
<1>6. "table" \in Places /\ "table" \notin Boosted \cup Tabled
  BY DEF Places, Boosted, Tabled
<1>7. Goto("table") /\ UNCHANGED <<calls, devices, pokers, hints>>
  BY DEF CountFrequencies
<1>8. main'.at = "table"
  BY <1>1, <1>6, <1>7, WithinCall
<1>9. Table'
  BY <1>3, <1>4, <1>5, <1>6, <1>8, ListingStored DEF Table
<1>10. ~failed' /\ HasReturned =>
          /\ Fine("interaction", pInfo'.interaction)
          /\ Fine("animation", pInfo'.animation)
  BY <1>1, <1>4, <1>5, WithinCall
<1>11. QED
  BY <1>1, <1>4, <1>5, <1>6, <1>7, <1>9, <1>10, FrequencyMoves

LEMMA StoreFrequenciesInv ==
  ASSUME IInv, StoreFrequencies
  PROVE  IInv'
<1>1. main.at = "table" /\ main.at \in Stored /\ main.at # "idle"
  BY DEF StoreFrequencies, Stored
<1> DEFINE n == pInfo.num_available
<1> PICK text \in Texts :
      /\ failed' = (failed \/ text # Listing)
      /\ IF Len(text) < n
         THEN Goto("crashed") /\ UNCHANGED pInfo
         ELSE /\ pInfo' = [pInfo EXCEPT !.available = SubSeq(text, 1, n)]
              /\ Goto("lp")
  BY DEF StoreFrequencies
<1>2. pInfo \in Info /\ failed \in BOOLEAN
  BY <1>1, WithinCall
<1>3. n \in Nat \ {0} /\ (~failed => n = Len(FreqList))
  BY <1>1 DEF IInv, Table
<1>4. failed' \in BOOLEAN /\ (failed => failed')
      /\ (~failed' => ~failed /\ text = Listing)
  BY <1>2
<1>5. UNCHANGED <<calls, devices, pokers, hints>>
  BY DEF StoreFrequencies
<1>6. {"crashed", "lp"} \subseteq Places \ (Boosted \cup {"table"})
      /\ "crashed" \notin Tabled
  BY DEF Places, Boosted, Tabled
<1>7. CASE Len(text) < n
  <2>1. Goto("crashed") /\ UNCHANGED pInfo
    BY <1>7
  <2>2. main'.at = "crashed"
    BY <1>1, <1>6, <2>1, WithinCall
  <2>3. Table'
    BY <1>6, <2>2 DEF Table
  <2>4. ~failed' /\ HasReturned =>
          /\ Fine("interaction", pInfo'.interaction)
          /\ Fine("animation", pInfo'.animation)
    BY <1>1, <1>4, <2>1, WithinCall
  <2>5. QED
    BY <1>1, <1>2, <1>4, <1>5, <1>6, <2>1, <2>3, <2>4, FrequencyMoves
<1>8. CASE ~(Len(text) < n)
  <2>1. /\ Goto("lp")
        /\ pInfo' = [pInfo EXCEPT !.available = SubSeq(text, 1, n)]
    BY <1>8
  <2>2. n \in Nat /\ n <= Len(text)
    BY <1>3, <1>8, TextType
  <2> HIDE DEF n
  <2>3. SubSeq(text, 1, n) \in Seq(Frequencies) /\ Len(SubSeq(text, 1, n)) = n
    BY <2>2, FirstWords
  <2>4. /\ pInfo' \in Info
        /\ pInfo'.available = SubSeq(text, 1, n)
        /\ pInfo'.num_available = pInfo.num_available
        /\ pInfo'.mTimeoutPoker = pInfo.mTimeoutPoker
        /\ pInfo'.interaction = pInfo.interaction
        /\ pInfo'.animation = pInfo.animation
    BY <1>2, <2>1, <2>3 DEF Info
  <2>5. main'.at = "lp"
    BY <1>1, <1>6, <2>1, WithinCall
  <2>6. ~failed' => pInfo'.available = FreqList
    BY <1>3, <1>4, <2>4, ListingStored
  <2>7. pInfo'.num_available = n
    BY <2>4 DEF n
  <2>8. Table'
    BY <1>3, <1>4, <2>3, <2>4, <2>5, <2>6, <2>7 DEF Table
  <2>9. ~failed' /\ HasReturned =>
          /\ Fine("interaction", pInfo'.interaction)
          /\ Fine("animation", pInfo'.animation)
    BY <1>1, <1>4, <2>4, WithinCall
  <2>10. QED
    BY <1>1, <1>4, <1>5, <1>6, <2>1, <2>4, <2>8, <2>9, FrequencyMoves
<1>9. QED
  BY <1>7, <1>8

LEMMA StoreLpMaxFrequencyInv ==
  ASSUME IInv, StoreLpMaxFrequency
  PROVE  IInv'
<1>1. main.at = "lp" /\ main.at \in Stored /\ main.at # "idle"
  BY DEF StoreLpMaxFrequency, Stored
<1> PICK f \in {IdleTopFreq, 0} :
      /\ DefaultBoost(f)
      /\ failed' = (failed \/ f # IdleTopFreq)
  BY DEF StoreLpMaxFrequency
<1>2. pInfo \in Info /\ failed \in BOOLEAN
  BY <1>1, WithinCall
<1>3. f \in Frequencies
  BY Numbers
<1>4. /\ pInfo' \in Info
      /\ pInfo'.available = pInfo.available
      /\ pInfo'.num_available = pInfo.num_available
      /\ pInfo'.mTimeoutPoker = pInfo.mTimeoutPoker
      /\ pInfo'.interaction = f
      /\ pInfo'.animation = f
  BY <1>2, <1>3 DEF Info, DefaultBoost
<1>5. failed' \in BOOLEAN /\ (failed => failed')
      /\ (~failed' => f = IdleTopFreq)
  BY <1>2
<1>6. "interaction" \in Places /\ "interaction" # "table"
  BY DEF Places
<1>7. Goto("interaction") /\ UNCHANGED <<calls, devices, pokers, hints>>
  BY DEF StoreLpMaxFrequency
<1>8. main'.at = "interaction"
  BY <1>1, <1>6, <1>7, WithinCall
<1>9. Table'
  BY <1>1, <1>4, <1>5, <1>8 DEF IInv, Table, Tabled
<1>10. ~failed' =>
          /\ Fine("interaction", pInfo'.interaction)
          /\ Fine("animation", pInfo'.animation)
  BY <1>4, <1>5 DEF Fine
<1>11. QED
  BY <1>1, <1>4, <1>5, <1>6, <1>7, <1>9, <1>10, FrequencyMoves

(* An entry of the table that a loop of common_power_open may pick.        *)
LEMMA EntryIsFine ==
  ASSUME IInv, main.at \in Boosted, NEW i \in DOMAIN pInfo.available,
         NEW use \in {"interaction", "animation"},
         pInfo.available[i] >= Wanted(use)
  PROVE  /\ pInfo.available[i] \in Frequencies
         /\ ~failed => Fine(use, pInfo.available[i])
<1>1. pInfo \in Info
  BY WithinCall DEF Boosted
<1>2. pInfo.available \in Seq(Frequencies)
  BY <1>1 DEF Info
<1>3. pInfo.available[i] \in Frequencies
  BY <1>2
<1>4. ~failed => pInfo.available = FreqList
  BY DEF IInv, Table, Tabled, Boosted
<1>5. QED
  BY <1>3, <1>4 DEF Fine

LEMMA SetInteractionFrequencyInv ==
  ASSUME IInv, SetInteractionFrequency
  PROVE  IInv'
<1>1. main.at = "interaction" /\ main.at \in Stored \cap Boosted
      /\ main.at # "idle"
  BY DEF SetInteractionFrequency, Stored, Boosted
<1>2. pInfo \in Info /\ failed \in BOOLEAN
  BY <1>1, WithinCall
<1>3. \E f \in Frequencies \cup {Garbage} :
        /\ pInfo' = [pInfo EXCEPT !.interaction = f]
        /\ ~failed => Fine("interaction", f)
  <2>1. CASE UNCHANGED pInfo
    <3>1. pInfo.interaction \in Frequencies \cup {Garbage}
      BY <1>2 DEF Info
    <3>2. pInfo' = [pInfo EXCEPT !.interaction = pInfo.interaction]
      BY <1>2, <2>1 DEF Info
    <3>3. QED
      BY <1>1, <3>1, <3>2, WithinCall
  <2>2. CASE \E i \in DOMAIN pInfo.available :
               /\ FirstFrom(INTERACTION_FREQ, i)
               /\ pInfo' = [pInfo EXCEPT !.interaction = pInfo.available[i]]
    BY <1>1, <2>2, EntryIsFine DEF FirstFrom, Wanted
  <2>3. QED
    BY <2>1, <2>2 DEF SetInteractionFrequency
<1> PICK f \in Frequencies \cup {Garbage} :
      /\ pInfo' = [pInfo EXCEPT !.interaction = f]
      /\ ~failed => Fine("interaction", f)
  BY <1>3
<1>4. /\ pInfo' \in Info
      /\ pInfo'.available = pInfo.available
      /\ pInfo'.num_available = pInfo.num_available
      /\ pInfo'.mTimeoutPoker = pInfo.mTimeoutPoker
      /\ pInfo'.animation = pInfo.animation
      /\ pInfo'.interaction = f
  BY <1>2 DEF Info
<1>5. "animation" \in Places
  BY DEF Places
<1>6. Goto("animation") /\ UNCHANGED <<calls, devices, pokers, hints, failed>>
  BY DEF SetInteractionFrequency
<1>7. main'.at = "animation"
  BY <1>1, <1>5, <1>6, WithinCall
<1>8. Table'
  BY <1>1, <1>4, <1>6, <1>7 DEF IInv, Table, Tabled
<1>9. ~failed' =>
          /\ Fine("interaction", pInfo'.interaction)
          /\ Fine("animation", pInfo'.animation)
  BY <1>1, <1>4, <1>6, WithinCall
<1>10. QED
  BY <1>1, <1>2, <1>4, <1>5, <1>6, <1>8, <1>9, FrequencyMoves

LEMMA SetAnimationFrequencyInv ==
  ASSUME IInv, SetAnimationFrequency
  PROVE  IInv'
<1>1. main.at = "animation" /\ main.at \in Stored \cap Boosted
      /\ main.at # "idle"
  BY DEF SetAnimationFrequency, Stored, Boosted
<1>2. pInfo \in Info /\ failed \in BOOLEAN
  BY <1>1, WithinCall
<1>3. \E f \in Frequencies \cup {Garbage} :
        /\ pInfo' = [pInfo EXCEPT !.animation = f]
        /\ ~failed => Fine("animation", f)
  <2>1. CASE UNCHANGED pInfo
    <3>1. pInfo.animation \in Frequencies \cup {Garbage}
      BY <1>2 DEF Info
    <3>2. pInfo' = [pInfo EXCEPT !.animation = pInfo.animation]
      BY <1>2, <2>1 DEF Info
    <3>3. QED
      BY <1>1, <3>1, <3>2, WithinCall
  <2>2. CASE \E i \in DOMAIN pInfo.available :
               /\ FirstFrom(ANIMATION_FREQ, i)
               /\ pInfo' = [pInfo EXCEPT !.animation = pInfo.available[i]]
    BY <1>1, <2>2, EntryIsFine DEF FirstFrom, Wanted
  <2>3. QED
    BY <2>1, <2>2 DEF SetAnimationFrequency
<1> PICK f \in Frequencies \cup {Garbage} :
      /\ pInfo' = [pInfo EXCEPT !.animation = f]
      /\ ~failed => Fine("animation", f)
  BY <1>3
<1>4. /\ pInfo' \in Info
      /\ pInfo'.available = pInfo.available
      /\ pInfo'.num_available = pInfo.num_available
      /\ pInfo'.mTimeoutPoker = pInfo.mTimeoutPoker
      /\ pInfo'.interaction = pInfo.interaction
      /\ pInfo'.animation = f
  BY <1>2 DEF Info
<1>5. UNCHANGED <<calls, inputs, pokers, hints, failed, dev_id>>
  BY DEF SetAnimationFrequency, devices
<1>6. /\ main' \in MainType
      /\ main'.at \in {"boost", "idle"}
      /\ main'.at = "idle" => main' = Returned
  <2>1. CASE Goto("boost")
    BY <1>1, <2>1, WithinCall DEF Places
  <2>2. CASE main' = Returned
    BY <2>2, RecordTypes
  <2>3. QED
    BY <2>1, <2>2 DEF SetAnimationFrequency
<1>7. Table'
  BY <1>1, <1>4, <1>5, <1>6 DEF IInv, Table, Tabled
<1>8. ~failed' =>
          /\ Fine("interaction", pInfo'.interaction)
          /\ Fine("animation", pInfo'.animation)
  BY <1>1, <1>4, <1>5, WithinCall
<1>9. HasLooper(pInfo'.mTimeoutPoker)
  BY <1>1, <1>4, WithinCall
<1>10. dev_id' \in [Devices -> -1 .. Len(inputs) - 1]
  BY <1>1, <1>5, WithinCall
<1>11. QED
  BY <1>1, <1>2, <1>4, <1>5, <1>6, <1>7, <1>8, <1>9, <1>10, MainMoves

LEMMA BoostBootInv ==
  ASSUME IInv, BoostBoot
  PROVE  IInv'
<1>1. main.at = "boost" /\ main.at \in Stored \cap Boosted \cap Tabled
      /\ main.at # "idle"
  BY DEF BoostBoot, Stored, Boosted, Tabled
<1>2. /\ UNCHANGED <<calls, pInfo, dev_id, inputs, worker, ready, hint, failed>>
      /\ main' = Returned
  BY DEF BoostBoot, devices, pokers
<1>3. pInfo \in Info /\ HasLooper(pInfo.mTimeoutPoker)
  BY <1>1, WithinCall
<1> DEFINE top == pInfo.available[pInfo.num_available]
<1>4. request' = [use |-> "boot", poker |-> pInfo.mTimeoutPoker, freq |-> top]
  BY DEF BoostBoot
<1>5. /\ pInfo.num_available \in Nat \ {0}
      /\ Len(pInfo.available) = pInfo.num_available
      /\ ~failed => pInfo.available = FreqList
  BY <1>1 DEF IInv, Table
<1>6. top \in Frequencies
  <2>1. pInfo.available \in Seq(Frequencies)
    BY <1>3 DEF Info
  <2>2. QED
    BY <1>5, <2>1
<1>7. ~failed => top = FreqList[Len(FreqList)]
  BY <1>5
<1> HIDE DEF top
<1>8. request' \in RequestType /\ request'.use = "boot"
      /\ request'.poker = pInfo.mTimeoutPoker /\ request'.freq = top
  BY <1>3, <1>4, <1>6 DEF RequestType, Info
<1>9. main' \in MainType /\ main'.at = "idle"
  BY <1>2, RecordTypes
<1>10. TypeOK'
  BY <1>2, <1>8, <1>9 DEF IInv, TypeOK, MainType, RequestType
<1>11. calls # 0 /\ calls \in Nat
  BY <1>1, RecordTypes, CallsAssumption, Types DEF IInv, Started
<1>12. Started'
  BY <1>1, <1>2, <1>3, <1>9, <1>11
     DEF IInv, Started, HasLooper, HasReturned, Stored
<1>13. PokersAreLive'
  BY <1>2, <1>3, <1>8 DEF IInv, PokersAreLive, HasLooper
<1>14. Table'
  BY <1>9 DEF Table, Tabled
<1>15. Boosts'
  BY <1>1, <1>2 DEF IInv, Boosts, Fine
<1>16. HintFreqAvailable' /\ BootBoostIsMax'
  BY <1>2, <1>7, <1>8 DEF HintFreqAvailable, BootBoostIsMax
<1>17. QED
  BY <1>10, <1>12, <1>13, <1>14, <1>15, <1>16 DEF IInv

(* Constructing a poker leaves those alone that somebody knows of.         *)
LEMMA NewPokerInv ==
  ASSUME IInv, NewPoker
  PROVE  IInv'
<1>1. main.at = "construct" /\ main.at # "idle"
  BY DEF NewPoker
<1> PICK p \in Pokers, s \in {"started", "dead"} :
      /\ worker[p] = "none"
      /\ worker' = [worker EXCEPT ![p] = s]
      /\ main' = Main("wait", main.op, p, 0)
  BY DEF NewPoker
<1>2. UNCHANGED <<calls, pInfo, dev_id, inputs, ready, hint, request, failed>>
  BY DEF NewPoker, devices, hints
<1>3. worker \in [Pokers -> WorkerStates]
  BY Types DEF IInv
<1>4. worker' \in [Pokers -> WorkerStates]
  BY <1>3 DEF WorkerStates
<1>5. p \in Nat
  BY CallsAssumption DEF Pokers
<1>6. main' \in MainType /\ main'.at = "wait" /\ main'.i = p
  <2>1. "wait" \in Places
    BY DEF Places
  <2>2. main.op \in {"none", "init", "open"}
    BY <1>1, WithinCall
  <2>3. QED
    BY <1>5, <2>1, <2>2 DEF Main, MainType
<1>7. TypeOK'
  BY <1>2, <1>4, <1>6 DEF IInv, TypeOK, MainType, WorkerStates
<1>8. \A q \in Pokers : worker[q] # "none" => worker'[q] = worker[q]
  BY <1>3
<1>9. calls # 0 /\ calls \in Nat /\ main # Returned
  BY <1>1, RecordTypes, CallsAssumption, Types DEF IInv, Started
<1>10. HasReturned' <=> HasReturned
  BY <1>2, <1>6, <1>9, RecordTypes DEF HasReturned
<1>11. \A q \in ready : worker'[q] = "polling"
  BY <1>3 DEF IInv, Started, TypeOK
<1>12. Started'
  <2>1. HasReturned => HasLooper(pInfo.mTimeoutPoker)
    BY DEF IInv, Started
  <2>2. main'.at \notin Stored \cup {"idle"}
    BY <1>6 DEF Stored
  <2>3. (HasReturned \/ main.at \in Stored)' => HasLooper(pInfo.mTimeoutPoker)'
    BY <1>2, <1>8, <1>10, <2>1, <2>2 DEF HasLooper
  <2>4. (\A c \in HintThreads : hint[c] # NothingLoaded => HasReturned)'
    BY <1>2, <1>10 DEF IInv, Started
  <2>5. QED
    BY <1>2, <1>6, <1>9, <1>11, <2>2, <2>3, <2>4 DEF IInv, Started
<1>13. PokersAreLive'
  BY <1>2, <1>8 DEF IInv, PokersAreLive, HasLooper
<1>14. Table'
  BY <1>6 DEF Table, Tabled
<1>15. Boosts'
  BY <1>2, <1>6, <1>10 DEF IInv, Boosts, Boosted, Fine
<1>16. HintFreqAvailable' /\ BootBoostIsMax'
  BY <1>2 DEF IInv, HintFreqAvailable, BootBoostIsMax
<1>17. QED
  BY <1>7, <1>12, <1>13, <1>14, <1>15, <1>16 DEF IInv

LEMMA StartingInv == IInv /\ Starting => IInv'
BY InputsInv, NewPokerInv, StorePokerInv, CountFrequenciesInv,
   StoreFrequenciesInv, StoreLpMaxFrequencyInv, SetInteractionFrequencyInv,
   SetAnimationFrequencyInv, BoostBootInv
   DEF Starting

-----------------------------------------------------------------------------
(* The entry points. *)

(* A call leaves what the hints look at as the previous call left it; no   *)
(* hint comes before the first has returned.                               *)
LEMMA CallMoves ==
  ASSUME IInv, main = Returned, calls < MaxCalls, calls' = calls + 1,
         UNCHANGED <<devices, pokers, hints, failed>>,
         \/ main' \in MainType /\ main'.at = "inputs"
         \/ main' = main /\ calls # 0,
         pInfo' \in Info,
         calls # 0 => /\ pInfo'.mTimeoutPoker = pInfo.mTimeoutPoker
                      /\ pInfo'.interaction = pInfo.interaction
                      /\ pInfo'.animation = pInfo.animation
  PROVE  IInv'
<1>1. UNCHANGED <<dev_id, inputs, worker, ready, hint, request, failed>>
  BY DEF devices, pokers, hints
<1>2. calls \in Nat /\ calls' \in 0 .. MaxCalls /\ calls' # 0
  BY CallsAssumption, Types DEF IInv
<1>3. /\ main' \in MainType
      /\ main'.at \in {"inputs", "idle"}
      /\ main'.at = "idle" => main' = Returned /\ calls # 0
  BY RecordTypes
<1>4. TypeOK'
  BY <1>1, <1>2, <1>3 DEF IInv, TypeOK, MainType
<1>5. HasReturned <=> calls # 0
  BY <1>2 DEF HasReturned
<1>6. HasReturned' <=> calls # 0
  BY <1>2, <1>3, RecordTypes DEF HasReturned
<1>7. main'.at \notin Stored \cup Boosted \cup {"wait", "table"} \cup Tabled
  BY <1>3 DEF Stored, Boosted, Tabled
<1>8. Started'
  <2>1. (HasReturned \/ main.at \in Stored)' => HasLooper(pInfo.mTimeoutPoker)'
    BY <1>1, <1>5, <1>6, <1>7 DEF IInv, Started, HasLooper
  <2>2. (\A c \in HintThreads : hint[c] # NothingLoaded => HasReturned)'
    BY <1>1, <1>5, <1>6 DEF IInv, Started
  <2>3. QED
    BY <1>1, <1>2, <1>3, <1>7, <2>1, <2>2 DEF IInv, Started
<1>9. PokersAreLive'
  BY <1>1 DEF IInv, PokersAreLive, HasLooper
<1>10. Table'
  BY <1>7 DEF Table
<1>11. Boosts'
  BY <1>1, <1>5, <1>6, <1>7 DEF IInv, Boosts, Fine
<1>12. HintFreqAvailable' /\ BootBoostIsMax'
  BY <1>1 DEF IInv, HintFreqAvailable, BootBoostIsMax
<1>13. QED
  BY <1>4, <1>8, <1>9, <1>10, <1>11, <1>12 DEF IInv

LEMMA CallInv ==
  ASSUME IInv, CallInit \/ CallOpen
  PROVE  IInv'
<1>1. main = Returned /\ calls < MaxCalls /\ calls' = calls + 1
  BY DEF CallInit, CallOpen
<1>2. UNCHANGED <<devices, pokers, hints, failed>>
  BY DEF CallInit, CallOpen
<1>3. IF calls = 0 THEN pInfo = NULL ELSE pInfo \in Info /\ pInfo # NULL
  BY NullAssumption DEF IInv, Started
<1>4. \A op \in {"init", "open"} :
        main' = Main("inputs", op, 0, 0)
            => main' \in MainType /\ main'.at = "inputs"
  <2>1. "inputs" \in Places
    BY DEF Places
  <2>2. QED
    BY <2>1, RecordTypes
<1>5. CASE CallInit
  <2> DEFINE info == IF pInfo = NULL THEN Allocated(Garbage) ELSE pInfo
  <2>1. info \in Info /\ (calls # 0 => info = pInfo)
    BY <1>3, RecordTypes
  <2>2. pInfo' = [info EXCEPT !.input_devs = TRUE,
                              !.input_cnt = Len(DevNames)]
    BY <1>5 DEF CallInit
  <2> HIDE DEF info
  <2>3. Len(DevNames) \in Nat
    BY InputsAssumption
  <2>4. /\ pInfo' \in Info
        /\ pInfo'.mTimeoutPoker = info.mTimeoutPoker
        /\ pInfo'.interaction = info.interaction
        /\ pInfo'.animation = info.animation
    BY <2>1, <2>2, <2>3 DEF Info
  <2>5. main' \in MainType /\ main'.at = "inputs"
    BY <1>4, <1>5 DEF CallInit
  <2>6. QED
    BY <1>1, <1>2, <2>1, <2>4, <2>5, CallMoves
<1>6. CASE CallOpen
  <2>1. CASE pInfo = NULL
    <3>1. calls = 0 /\ pInfo' = Allocated(0)
          /\ main' = Main("inputs", "open", 0, 0)
      BY <1>3, <1>6, <2>1 DEF CallOpen
    <3>2. pInfo' \in Info
      BY <3>1, RecordTypes
    <3>3. main' \in MainType /\ main'.at = "inputs"
      BY <1>4, <3>1
    <3>4. QED
      BY <1>1, <1>2, <3>1, <3>2, <3>3, CallMoves
  <2>2. CASE pInfo # NULL
    BY <1>1, <1>2, <1>3, <1>6, <2>2, CallMoves DEF CallOpen
  <2>3. QED
    BY <2>1, <2>2
<1>7. QED
  BY <1>5, <1>6

-----------------------------------------------------------------------------
(* The Looper threads and the hints. *)

LEMMA LooperInv ==
  ASSUME IInv, NEW p \in Pokers, Looper(p)
  PROVE  IInv'
<1>1. UNCHANGED <<main, calls, pInfo, dev_id, inputs, hint, request, failed>>
  BY DEF Looper, Prepare, OpenReady, devices, hints
<1>2. worker \in [Pokers -> WorkerStates] /\ ready \subseteq Pokers
  BY Types DEF IInv
<1>3. /\ worker' \in [Pokers -> WorkerStates]
      /\ ready' \subseteq Pokers
      /\ \A q \in ready' : worker'[q] = "polling"
  BY <1>2 DEF Looper, Prepare, OpenReady, WorkerStates, IInv, Started
<1>4. \A q \in Pokers : worker[q] \in {"prepared", "polling"}
                            => worker'[q] \in {"prepared", "polling"}
  BY <1>2 DEF Looper, Prepare, OpenReady
<1>5. TypeOK'
  BY <1>1, <1>3 DEF IInv, TypeOK, WorkerStates
<1>6. HasReturned' <=> HasReturned
  BY <1>1 DEF HasReturned
<1>7. Started'
  BY <1>1, <1>3, <1>4, <1>6 DEF IInv, Started, HasLooper
<1>8. PokersAreLive'
  BY <1>1, <1>4 DEF IInv, PokersAreLive, HasLooper
<1>9. Table' /\ Boosts'
  BY <1>1, <1>6 DEF IInv, Table, Boosts, Fine
<1>10. HintFreqAvailable' /\ BootBoostIsMax'
  BY <1>1 DEF IInv, HintFreqAvailable, BootBoostIsMax
<1>11. QED
  BY <1>5, <1>7, <1>8, <1>9, <1>10 DEF IInv

(* A hint thread that gets as far as h.                                    *)
LEMMA HintMoves ==
  ASSUME IInv, NEW c \in HintThreads, NEW h \in HintType, HasReturned,
         UNCHANGED <<main, calls, pInfo, devices, pokers, failed>>,
         hint' = [hint EXCEPT ![c] = h],
         h.poker # NoPoker => HasLooper(h.poker),
         ~failed /\ h.freq # Garbage => Fine(h.use, h.freq),
         request' \in RequestType,
         request'.use # "none" => HasLooper(request'.poker),
         HintFreqAvailable', BootBoostIsMax'
  PROVE  IInv'
<1>1. UNCHANGED <<dev_id, inputs, worker, ready>>
  BY DEF devices, pokers
<1>2. hint \in [HintThreads -> HintType]
  BY Types DEF IInv
<1>3. hint' \in [HintThreads -> HintType]
      /\ \A d \in HintThreads : hint'[d] = IF d = c THEN h ELSE hint[d]
  BY <1>2
<1>4. TypeOK'
  BY <1>1, <1>3 DEF IInv, TypeOK, HintType, RequestType
<1>5. HasReturned'
  BY DEF HasReturned
<1>6. Started'
  BY <1>1, <1>5 DEF IInv, Started, HasLooper
<1>7. PokersAreLive'
  BY <1>1, <1>3 DEF IInv, PokersAreLive, HasLooper
<1>8. Table' /\ Boosts'
  BY <1>1, <1>3, <1>5 DEF IInv, Table, Boosts, Fine
<1>9. QED
  BY <1>4, <1>6, <1>7, <1>8 DEF IInv

LEMMA HintingInv ==
  ASSUME IInv, NEW c \in HintThreads, Hinting(c)
  PROVE  IInv'
<1>1. hint[c] \in HintType /\ request \in RequestType
      /\ hint \in [HintThreads -> HintType]
  BY Types DEF IInv
<1>2. UNCHANGED <<main, calls, pInfo, devices, pokers, failed>>
  BY DEF Hinting, BeginHint, LoadPoker, LoadFrequency, SendRequest
<1>3. /\ NothingLoaded.use = "none"
      /\ NothingLoaded.poker = NoPoker
      /\ NothingLoaded.freq = Garbage
  BY DEF NothingLoaded
<1>4. HasReturned
  <2>1. HasReturned \/ hint[c] # NothingLoaded
    BY <1>3 DEF Hinting, BeginHint, LoadPoker, LoadFrequency, SendRequest
  <2>2. QED
    BY <2>1 DEF IInv, Started
<1>5. /\ pInfo \in Info
      /\ HasLooper(pInfo.mTimeoutPoker)
      /\ ~failed => /\ Fine("interaction", pInfo.interaction)
                    /\ Fine("animation", pInfo.animation)
  <2>1. calls # 0
    BY <1>4 DEF HasReturned
  <2>2. QED
    BY <1>4, <2>1 DEF IInv, Started, Boosts
<1>6. /\ hint[c].poker # NoPoker => HasLooper(hint[c].poker)
      /\ ~failed /\ hint[c].freq # Garbage => Fine(hint[c].use, hint[c].freq)
  BY DEF IInv, PokersAreLive, Boosts
<1>7. request.use # "none" => HasLooper(request.poker)
  BY DEF IInv, PokersAreLive
<1>8. CASE BeginHint(c)
  <2>1. PICK u \in {"interaction", "animation"} :
          hint' = [hint EXCEPT ![c].use = u]
    BY <1>8 DEF BeginHint
  <2> DEFINE h == [NothingLoaded EXCEPT !.use = u]
  <2>2. h \in HintType /\ h.poker = NoPoker /\ h.freq = Garbage
    BY RecordTypes, <1>3 DEF HintType, Uses
  <2>3. hint' = [hint EXCEPT ![c] = h]
    BY <1>8, <2>1 DEF BeginHint
  <2> HIDE DEF h
  <2>4. request' = request /\ failed' = failed
    BY <1>8 DEF BeginHint
  <2>5. HintFreqAvailable' /\ BootBoostIsMax'
    BY <2>4 DEF IInv, HintFreqAvailable, BootBoostIsMax
  <2>6. QED
    BY <1>1, <1>2, <1>4, <1>7, <2>2, <2>3, <2>4, <2>5, HintMoves
<1>9. CASE LoadPoker(c)
  <2> DEFINE h == [hint[c] EXCEPT !.poker = pInfo.mTimeoutPoker]
  <2>1. /\ h \in HintType
        /\ h.poker = pInfo.mTimeoutPoker
        /\ h.freq = hint[c].freq
        /\ h.use = hint[c].use
    BY <1>1, <1>5 DEF HintType, Info
  <2>2. hint' = [hint EXCEPT ![c] = h]
    BY <1>9 DEF LoadPoker
  <2> HIDE DEF h
  <2>3. request' = request /\ failed' = failed
    BY <1>9 DEF LoadPoker
  <2>4. HintFreqAvailable' /\ BootBoostIsMax'
    BY <2>3 DEF IInv, HintFreqAvailable, BootBoostIsMax
  <2>5. QED
    BY <1>1, <1>2, <1>4, <1>5, <1>6, <1>7, <2>1, <2>2, <2>3, <2>4, HintMoves
<1>10. CASE LoadFrequency(c)
  <2>1. PICK f \in Frequencies \cup {Garbage} :
          /\ hint' = [hint EXCEPT ![c].freq = f]
          /\ ~failed => Fine(hint[c].use, f)
    <3>1. hint[c].use \in {"interaction", "animation"}
      BY <1>1, <1>10 DEF LoadFrequency, HintType, Uses
    <3>2. CASE hint[c].use = "interaction"
      <4>1. pInfo[hint[c].use] = pInfo.interaction
        BY <3>2
      <4>2. QED
        BY <1>5, <1>10, <3>2, <4>1 DEF LoadFrequency, Info
    <3>3. CASE hint[c].use = "animation"
      <4>1. pInfo[hint[c].use] = pInfo.animation
        BY <3>3
      <4>2. QED
        BY <1>5, <1>10, <3>3, <4>1 DEF LoadFrequency, Info
    <3>4. QED
      BY <3>1, <3>2, <3>3
  <2> DEFINE h == [hint[c] EXCEPT !.freq = f]
  <2>2. /\ h \in HintType
        /\ h.poker = hint[c].poker
        /\ h.freq = f
        /\ h.use = hint[c].use
    BY <1>1 DEF HintType
  <2>3. hint' = [hint EXCEPT ![c] = h]
    BY <2>1
  <2> HIDE DEF h
  <2>4. request' = request /\ failed' = failed
    BY <1>10 DEF LoadFrequency
  <2>5. HintFreqAvailable' /\ BootBoostIsMax'
    BY <2>4 DEF IInv, HintFreqAvailable, BootBoostIsMax
  <2>6. QED
    BY <1>1, <1>2, <1>4, <1>6, <1>7, <2>1, <2>2, <2>3, <2>4, <2>5, HintMoves
<1>11. CASE SendRequest(c)
  <2>1. /\ request' = hint[c]
        /\ hint' = [hint EXCEPT ![c] = NothingLoaded]
        /\ hint[c].poker # NoPoker /\ hint[c].freq # Garbage
        /\ failed' = failed
    BY <1>11 DEF SendRequest
  <2>2. hint[c] \in RequestType
    BY <1>1 DEF HintType, RequestType
  <2>3. hint[c].use # "boot"
    BY <1>1 DEF HintType, Uses
  <2>4. HintFreqAvailable' /\ BootBoostIsMax'
    BY <1>6, <2>1, <2>3 DEF HintFreqAvailable, BootBoostIsMax, Fine
  <2>5. NothingLoaded \in HintType
    BY RecordTypes
  <2>6. QED
    BY <1>2, <1>3, <1>4, <1>6, <2>1, <2>2, <2>4, <2>5, HintMoves
<1>12. QED
  BY <1>8, <1>9, <1>10, <1>11 DEF Hinting

-----------------------------------------------------------------------------
(* The invariant, and the theorems. *)

LEMMA NextInv == IInv /\ [Next]_vars => IInv'
<1> SUFFICES ASSUME IInv, [Next]_vars PROVE IInv'
  OBVIOUS
<1>1. CASE CallInit \/ CallOpen
  BY <1>1, CallInv
<1>2. CASE Starting
  BY <1>2, StartingInv
<1>3. ASSUME NEW p \in Pokers, Looper(p) PROVE IInv'
  BY <1>3, LooperInv
<1>4. ASSUME NEW c \in HintThreads, Hinting(c) PROVE IInv'
  BY <1>4, HintingInv
<1>5. CASE UNCHANGED vars
  BY <1>5
     DEF vars, devices, pokers, hints, IInv, TypeOK, Started, PokersAreLive,
         Table, Boosts, HintFreqAvailable, BootBoostIsMax, HasLooper,
         HasReturned, Fine
<1>6. QED
  BY <1>1, <1>2, <1>3, <1>4, <1>5 DEF Next

LEMMA Invariant == Spec => []IInv
<1>1. Init => IInv
  BY InitInv
<1>2. IInv /\ [Next]_vars => IInv'
  BY NextInv
<1>3. QED
  BY <1>1, <1>2, PTL DEF Spec

(* The state of the power module's start has its type.                     *)
THEOREM TypeCorrect == Spec => []TypeOK
<1>1. IInv => TypeOK
  BY DEF IInv
<1>2. QED
  BY <1>1, Invariant, PTL

(* Whatever a later init replaces, a hint and the boot boost reach a poker *)
(* whose thread has prepared its Looper (timeoutpoker.cpp:171).            *)
THEOREM HintsReachLivePokers == Spec => []PokersAreLive
<1>1. IInv => PokersAreLive
  BY DEF IInv
<1>2. QED
  BY <1>1, Invariant, PTL

(* While no read of sysfs fails, a hint asks for a frequency that is high  *)
(* enough and exists (nvpowerhal.cpp:180-197).                             *)
THEOREM HintsAskAvailable == Spec => []HintFreqAvailable
<1>1. IInv => HintFreqAvailable
  BY DEF IInv
<1>2. QED
  BY <1>1, Invariant, PTL

(* While no read of sysfs fails, the boost of the boot is the last entry   *)
(* of the list (nvpowerhal.cpp:151-170, 245-249).                          *)
THEOREM BootAsksMax == Spec => []BootBoostIsMax
<1>1. IInv => BootBoostIsMax
  BY DEF IInv
<1>2. QED
  BY <1>1, Invariant, PTL

(* The boost of the boot reads an entry of the table, whichever reads have *)
(* failed: each text has two words at least (nvpowerhal.cpp:247).          *)
BootHasEntry ==
    main.at = "boost" =>
        /\ Len(pInfo.available) = pInfo.num_available
        /\ pInfo.num_available \in DOMAIN pInfo.available

(* In every behaviour the lookup at num_available_frequencies - 1 stays    *)
(* inside what the latest malloc has made room for.                        *)
THEOREM BootReadsTable == Spec => []BootHasEntry
<1>1. IInv => BootHasEntry
  <2> SUFFICES ASSUME IInv, main.at = "boost"
               PROVE  /\ Len(pInfo.available) = pInfo.num_available
                      /\ pInfo.num_available \in DOMAIN pInfo.available
    BY DEF BootHasEntry
  <2>1. /\ Len(pInfo.available) = pInfo.num_available
        /\ pInfo.num_available \in Nat \ {0}
    BY DEF IInv, Table, Tabled
  <2>2. pInfo.available \in Seq(Frequencies)
    BY WithinCall DEF Info
  <2>3. QED
    BY <2>1, <2>2
<1>2. QED
  BY <1>1, Invariant, PTL

-----------------------------------------------------------------------------
(* The search for the input devices. *)

(* The entry j of input_devs is not named by the first m input devices.    *)
NotAmong(j, m) == \A k \in 1 .. m : inputs[k] # DevNames[j]

Found == {j \in Devices : dev_id[j] # -1}

(* An entry that was found, by whichever call, is the first of its name.   *)
(* Within a call of init, an entry that was not found yet is none of the   *)
(* input devices looked at, and the count of those that this call found is *)
(* at most the number of those that were found: it reaches input_cnt only  *)
(* if nothing is left to look for.                                         *)
Search ==
    /\ \A j \in Found : /\ inputs[dev_id[j] + 1] = DevNames[j]
                        /\ NotAmong(j, dev_id[j])
    /\ main.at = "inputs" /\ main.op = "init" =>
          /\ pInfo.input_devs = TRUE /\ pInfo.input_cnt = Len(DevNames)
          /\ main.i <= Len(inputs)
          /\ main.n <= Cardinality(Found)
          /\ \A j \in Devices \ Found : NotAmong(j, main.i)
    /\ main.at = "inputs" /\ main.op # "init" => pInfo.input_devs = FALSE
    /\ main.at = "construct" /\ main.op = "init" =>
          \A j \in Devices \ Found : NotAmong(j, Len(inputs))

LEMMA SearchTypes ==
  ASSUME TypeOK
  PROVE  /\ inputs \in Seq(Names) /\ Len(inputs) \in Nat
         /\ DOMAIN inputs = 1 .. Len(inputs)
         /\ Len(DevNames) \in Nat
         /\ IsFiniteSet(Devices) /\ Cardinality(Devices) = Len(DevNames)
         /\ \A j \in Devices : dev_id[j] \in -1 .. Len(inputs) - 1
         /\ main \in MainType /\ main.i \in Nat /\ main.n \in Nat
<1>1. inputs \in Seq(Names)
  BY InputsAssumption DEF TypeOK
<1>2. Len(DevNames) \in Nat
  BY InputsAssumption
<1>3. IsFiniteSet(Devices) /\ Cardinality(Devices) = Len(DevNames)
  <2>1. /\ IsFiniteSet(1 .. Len(DevNames))
        /\ Cardinality(1 .. Len(DevNames)) =
              IF 1 > Len(DevNames) THEN 0 ELSE Len(DevNames) - 1 + 1
    BY <1>2, FS_Interval
  <2>2. QED
    BY <1>2, <2>1 DEF Devices
<1>4. main \in MainType /\ main.i \in Nat /\ main.n \in Nat
  BY Types DEF MainType
<1>5. QED
  BY <1>1, <1>2, <1>3, <1>4 DEF TypeOK

(* The sets of a finite set are finite, and no larger.                     *)
LEMMA FoundDevices ==
  ASSUME TypeOK, NEW D, D \subseteq Devices
  PROVE  /\ IsFiniteSet(D) /\ Cardinality(D) \in Nat
         /\ Cardinality(D) >= Len(DevNames) => D = Devices
<1>1. /\ IsFiniteSet(D)
      /\ Cardinality(D) <= Cardinality(Devices)
      /\ Cardinality(Devices) = Cardinality(D) => Devices = D
  BY SearchTypes, FS_Subset
<1>2. Cardinality(D) \in Nat
  BY <1>1, FS_CardinalityType
<1>3. QED
  BY <1>1, <1>2, SearchTypes

(* A step that neither is in the search nor goes there.                    *)
LEMMA SearchKept ==
  ASSUME Search, UNCHANGED devices,
         \/ UNCHANGED <<main, pInfo>>
         \/ main'.at \notin {"inputs", "construct"}
  PROVE  Search'
BY DEF Search, Found, NotAmong, devices

(* The call of init or open begins the search at the first input device.   *)
LEMMA CallSearch ==
  ASSUME TypeOK, Search, CallInit \/ CallOpen
  PROVE  Search'
<1>1. UNCHANGED <<dev_id, inputs>> /\ Found' = Found
  BY DEF CallInit, CallOpen, devices, Found
<1>2. Cardinality(Found) \in Nat
  BY FoundDevices DEF Found
<1>3. CASE CallInit
  <2>1. /\ main'.at = "inputs" /\ main'.i = 0 /\ main'.n = 0
    BY <1>3 DEF CallInit, Main
  <2>2. pInfo'.input_devs = TRUE /\ pInfo'.input_cnt = Len(DevNames)
    <3> DEFINE info == IF pInfo = NULL THEN Allocated(Garbage) ELSE pInfo
    <3>1. PICK r : /\ r = Allocated(Garbage) \/ r \in Info
                   /\ pInfo' = [r EXCEPT !.input_devs = TRUE,
                                         !.input_cnt = Len(DevNames)]
      BY <1>3 DEF CallInit, TypeOK
    <3>2. QED
      BY <3>1 DEF Allocated, Info
  <2>3. 0 <= Len(inputs) /\ 0 <= Cardinality(Found)
    BY <1>2, SearchTypes
  <2>4. \A j \in Devices : NotAmong(j, main.i)'
    BY <2>1 DEF NotAmong
  <2>5. \A j \in Found' : /\ inputs'[dev_id'[j] + 1] = DevNames[j]
                          /\ NotAmong(j, dev_id[j])'
    BY <1>1 DEF Search, NotAmong
  <2>6. main'.at # "construct" /\ main'.op = "init"
    BY <1>3 DEF CallInit, Main
  <2>7. QED
    BY <1>1, <2>1, <2>2, <2>3, <2>4, <2>5, <2>6 DEF Search
<1>4. CASE CallOpen
  <2>1. CASE UNCHANGED <<pInfo, main>>
    BY <1>1, <2>1, SearchKept DEF devices
  <2>2. CASE ~UNCHANGED <<pInfo, main>>
    <3>1. /\ main'.at = "inputs" /\ main'.op = "open"
          /\ pInfo'.input_devs = FALSE
      BY <1>4, <2>2 DEF CallOpen, Main, Allocated
    <3>2. QED
      BY <1>1, <3>1 DEF Search, NotAmong
  <2>3. QED
    BY <2>1, <2>2
<1>5. QED
  BY <1>3, <1>4

(* One round of find_input_device_ids. *)
LEMMA ScanSearch ==
  ASSUME TypeOK, Search, ScanInput
  PROVE  Search'
<1> DEFINE new == NewDevices(main.i + 1)
           n == main.n + Cardinality(new)
<1>1. main.at = "inputs" /\ main.op = "init" /\ main.i < Len(inputs)
  BY DEF ScanInput, NoDevices, Search
<1>2. /\ pInfo.input_devs = TRUE /\ pInfo.input_cnt = Len(DevNames)
      /\ main.n <= Cardinality(Found)
      /\ \A j \in Devices \ Found : NotAmong(j, main.i)
  BY <1>1 DEF Search
<1>3. UNCHANGED <<pInfo, inputs>>
  BY DEF ScanInput
<1>4. dev_id' = [j \in Devices |-> IF j \in new THEN main.i ELSE dev_id[j]]
  BY DEF ScanInput, FoundAt
<1>5. /\ new \subseteq Devices /\ new \cap Found = {}
      /\ \A j \in new : dev_id'[j] = main.i
                        /\ inputs[main.i + 1] = DevNames[j]
      /\ \A j \in Devices \ (Found \cup new) :
            inputs[main.i + 1] # DevNames[j]
  BY <1>4 DEF NewDevices, Found
<1>6. \/ n = pInfo.input_cnt /\ Goto("construct")
      \/ main' = Main("inputs", main.op, main.i + 1, n)
  BY DEF ScanInput
<1> HIDE DEF new
<1>7. Found' = Found \cup new /\ \A j \in Found : dev_id'[j] = dev_id[j]
  <2>1. main.i # -1
    BY SearchTypes
  <2>2. QED
    BY <1>4, <1>5, <2>1 DEF Found
<1>8. Cardinality(Found') >= n /\ n \in Nat
  <2>1. /\ IsFiniteSet(Found) /\ Cardinality(Found) \in Nat
        /\ IsFiniteSet(new) /\ Cardinality(new) \in Nat
    BY <1>5, FoundDevices DEF Found
  <2>2. Cardinality(Found \cup new) =
          Cardinality(Found) + Cardinality(new) - Cardinality(Found \cap new)
    BY <2>1, FS_Union
  <2>3. Cardinality(Found \cap new) = 0
    BY <1>5, FS_EmptySet
  <2>4. QED
    BY <1>2, <1>7, <2>1, <2>2, <2>3, SearchTypes
<1> HIDE DEF n
<1>9. \A j \in Found' : /\ inputs'[dev_id'[j] + 1] = DevNames[j]
                        /\ NotAmong(j, dev_id[j])'
  <2>1. ASSUME NEW j \in Found
        PROVE  /\ inputs'[dev_id'[j] + 1] = DevNames[j]
               /\ NotAmong(j, dev_id[j])'
    BY <1>3, <1>7 DEF Search, NotAmong
  <2>2. ASSUME NEW j \in new
        PROVE  /\ inputs'[dev_id'[j] + 1] = DevNames[j]
               /\ NotAmong(j, dev_id[j])'
    BY <1>2, <1>3, <1>5 DEF NotAmong
  <2>3. QED
    BY <1>7, <2>1, <2>2
<1>10. \A j \in Devices \ Found' : NotAmong(j, main.i + 1)
  <2> SUFFICES ASSUME NEW j \in Devices \ Found', NEW k \in 1 .. main.i + 1
               PROVE  inputs[k] # DevNames[j]
    BY DEF NotAmong
  <2>1. CASE k = main.i + 1
    BY <1>5, <1>7, <2>1
  <2>2. CASE k # main.i + 1
    <3>1. k \in 1 .. main.i
      BY <2>2, SearchTypes
    <3>2. QED
      BY <1>2, <1>7, <3>1 DEF NotAmong
  <2>3. QED
    BY <2>1, <2>2
<1>11. CASE n = pInfo.input_cnt /\ Goto("construct")
  <2>1. Found' = Devices
    <3>1. Found' \subseteq Devices
      BY DEF Found
    <3>2. Cardinality(Found') >= Len(DevNames)
      BY <1>2, <1>8, <1>11
    <3>3. QED
      BY <3>1, <3>2, FoundDevices
  <2>2. main'.at = "construct"
    BY <1>11 DEF Goto, Main
  <2>3. QED
    BY <1>9, <2>1, <2>2 DEF Search
<1>12. CASE main' = Main("inputs", main.op, main.i + 1, n)
  <2>1. /\ main'.at = "inputs" /\ main'.op = "init"
        /\ main'.i = main.i + 1 /\ main'.n = n
    BY <1>1, <1>12 DEF Main
  <2>2. main.i + 1 <= Len(inputs)
    BY <1>1, SearchTypes
  <2>3. n <= Cardinality(Found')
    BY <1>8, FoundDevices
  <2>4. \A j \in Devices \ Found' : NotAmong(j, main.i)'
    BY <1>3, <1>10, <2>1 DEF NotAmong
  <2>5. QED
    BY <1>2, <1>3, <1>9, <2>1, <2>2, <2>3, <2>4 DEF Search
<1>13. QED
  BY <1>6, <1>11, <1>12

(* The search ends without a device for every entry, or was not needed.    *)
LEMMA EndSearch ==
  ASSUME TypeOK, Search, EndScan \/ CountInputs
  PROVE  Search'
<1>1. UNCHANGED <<dev_id, inputs>> /\ main.at = "inputs" /\ Goto("construct")
  BY DEF EndScan, CountInputs, devices
<1>2. main'.at = "construct" /\ main'.op = main.op
  BY <1>1 DEF Goto, Main
<1>3. ASSUME main.op = "init", NEW j \in Devices \ Found
      PROVE  NotAmong(j, Len(inputs))
  <2>1. NotAmong(j, main.i) /\ main.i <= Len(inputs)
    BY <1>1, <1>3 DEF Search
  <2>2. CASE EndScan
    <3>1. main.i = Len(inputs)
      BY <2>1, <2>2, SearchTypes DEF EndScan
    <3>2. QED
      BY <2>1, <3>1
  <2>3. CASE CountInputs
    <3>1. Len(DevNames) = 0
      BY <1>1, <1>3, <2>3 DEF CountInputs, NoDevices, Search
    <3>2. QED
      BY <3>1 DEF Devices
  <2>4. QED
    BY <2>2, <2>3
<1>4. QED
  BY <1>1, <1>2, <1>3 DEF Search, Found, NotAmong

LEMMA NextSearch == TypeOK /\ Search /\ [Next]_vars => Search'
<1> SUFFICES ASSUME TypeOK, Search, [Next]_vars PROVE Search'
  OBVIOUS
<1>1. CASE CallInit \/ CallOpen
  BY <1>1, CallSearch
<1>2. CASE ScanInput
  BY <1>2, ScanSearch
<1>3. CASE EndScan \/ CountInputs
  BY <1>3, EndSearch
<1>4. CASE \/ NewPoker \/ StorePoker \/ CountFrequencies \/ StoreFrequencies
           \/ StoreLpMaxFrequency \/ SetInteractionFrequency
           \/ SetAnimationFrequency \/ BoostBoot
  <2>1. UNCHANGED devices
    BY <1>4 DEF NewPoker, StorePoker, CountFrequencies, StoreFrequencies,
         StoreLpMaxFrequency, SetInteractionFrequency, SetAnimationFrequency,
         BoostBoot
  <2>2. main'.at \notin {"inputs", "construct"}
    BY <1>4 DEF NewPoker, StorePoker, CountFrequencies, StoreFrequencies,
         StoreLpMaxFrequency, SetInteractionFrequency, SetAnimationFrequency,
         BoostBoot, Goto, Main, Returned
  <2>3. QED
    BY <2>1, <2>2, SearchKept
<1>5. ASSUME NEW p \in Pokers, Looper(p) PROVE Search'
  BY <1>5, SearchKept DEF Looper, Prepare, OpenReady
<1>6. ASSUME NEW c \in HintThreads, Hinting(c) PROVE Search'
  BY <1>6, SearchKept
     DEF Hinting, BeginHint, LoadPoker, LoadFrequency, SendRequest
<1>7. CASE UNCHANGED vars
  BY <1>7, SearchKept DEF vars
<1>8. QED
  BY <1>1, <1>2, <1>3, <1>4, <1>5, <1>6, <1>7 DEF Next, Starting

LEMMA SearchFinds == TypeOK /\ Search => DevicesFound
<1> SUFFICES ASSUME TypeOK, Search, main.at = "construct", main.op = "init",
                    NEW j \in Devices
             PROVE  dev_id[j] = FirstNamed(j)
  BY DEF DevicesFound
<1>1. CASE j \notin Found
  <2>1. \A i \in DOMAIN inputs : inputs[i] # DevNames[j]
    BY <1>1, SearchTypes DEF Search, NotAmong
  <2>2. QED
    BY <1>1, <2>1 DEF Found, FirstNamed
<1>2. CASE j \in Found
  <2> DEFINE First(i) == /\ inputs[i] = DevNames[j]
                         /\ \A k \in 1 .. i - 1 : inputs[k] # DevNames[j]
             m == dev_id[j] + 1
  <2>1. m \in DOMAIN inputs /\ m - 1 = dev_id[j]
    BY <1>2, SearchTypes DEF Found
  <2>2. First(m)
    BY <1>2, <2>1 DEF Search, NotAmong
  <2>3. ASSUME NEW i \in DOMAIN inputs, First(i) PROVE i = m
    <3>1. i \in Nat /\ m \in Nat /\ i >= 1 /\ m >= 1
      BY <2>1, SearchTypes
    <3>2. ~(i < m)
      BY <2>2, <2>3, <3>1
    <3>3. ~(m < i)
      BY <2>2, <2>3, <3>1
    <3>4. QED
      BY <3>1, <3>2, <3>3
  <2> HIDE DEF m
  <2>4. (CHOOSE i \in DOMAIN inputs : First(i)) = m
    BY <2>1, <2>2, <2>3
  <2>5. QED
    BY <2>1, <2>2, <2>4 DEF FirstNamed
<1>3. QED
  BY <1>1, <1>2

(* After the search of a call of init, each entry of input_devs names the  *)
(* first input device of its name, or none, whatever earlier calls found   *)
(* and however early the count ends the loop (nvpowerhal.cpp:63-97).  *)
THEOREM InitFindsDevices == Spec => []DevicesFound
<1>1. Init => Search
  BY RecordTypes DEF Init, Search, Found, Garbage
<1>2. TypeOK /\ Search /\ [Next]_vars => Search'
  BY NextSearch
<1>3. TypeOK /\ Search => DevicesFound
  BY SearchFinds
<1>4. QED
  BY <1>1, <1>2, <1>3, TypeCorrect, PTL DEF Spec
-----------------------------------------------------------------------------
(* The wait for the Looper thread. *)

(* A thread that polls has opened its barrier; the pokers are numbered in  *)
(* the order in which calls make them, at most one each.                   *)
Answers ==
    /\ \A p \in Pokers : worker[p] = "polling" => p \in ready
    /\ main.at = "wait" => main.i \in Pokers /\ worker[main.i] # "none"
    /\ \A p \in Pokers : worker[p] # "none" => p <= calls
    /\ main.at \in {"inputs", "construct"} =>
          calls > 0 /\ \A p \in Pokers : worker[p] # "none" => p < calls

(* Steps that leave the pokers alone and do not get to one.                *)
LEMMA AnswersKept ==
  ASSUME TypeOK, Answers, UNCHANGED <<calls, pokers>>,
         main'.at = "wait" => main' = main,
         main'.at \in {"inputs", "construct"} =>
            main.at \in {"inputs", "construct"}
  PROVE  Answers'
BY DEF Answers, pokers

LEMMA StartingAnswers ==
  ASSUME TypeOK, Answers, Starting
  PROVE  Answers'
<1>1. CASE NewPoker
  <2>1. PICK p \in Pokers, s \in {"started", "dead"} :
            /\ worker[p] = "none"
            /\ worker' = [worker EXCEPT ![p] = s]
            /\ \A q \in Pokers : q < p => worker[q] # "none"
            /\ main' = Main("wait", main.op, p, 0)
    BY <1>1 DEF NewPoker
  <2>2. /\ worker'[p] = s
        /\ \A q \in Pokers : q # p => worker'[q] = worker[q]
    BY <2>1, Types
  <2>3. main'.at = "wait" /\ main'.i = p
    BY <2>1 DEF Main
  <2>4. /\ main.at = "construct" /\ ready' = ready /\ calls' = calls
        /\ calls \in Nat
    BY <1>1, Types, CallsAssumption DEF NewPoker
  <2>5. calls \in Pokers /\ worker[calls] = "none" /\ p \in Nat
    BY <2>4, Types, CallsAssumption DEF Answers, Pokers
  <2>6. p <= calls
    BY <2>1, <2>4, <2>5
  <2>7. QED
    BY <2>1, <2>2, <2>3, <2>4, <2>6 DEF Answers
<1>2. CASE CountInputs \/ ScanInput \/ EndScan
  <2>1. main.at = "inputs" /\ UNCHANGED <<calls, pokers>>
    BY <1>2 DEF CountInputs, ScanInput, EndScan
  <2>2. main'.at \in {"inputs", "construct"}
    BY <1>2 DEF CountInputs, ScanInput, EndScan, Goto, Main
  <2>3. QED
    BY <2>1, <2>2, AnswersKept
<1>3. CASE \/ StorePoker \/ CountFrequencies \/ StoreFrequencies
           \/ StoreLpMaxFrequency \/ SetInteractionFrequency
           \/ SetAnimationFrequency \/ BoostBoot
  <2>1. UNCHANGED <<calls, pokers>>
    BY <1>3 DEF StorePoker, CountFrequencies, StoreFrequencies,
         StoreLpMaxFrequency, SetInteractionFrequency, SetAnimationFrequency,
         BoostBoot
  <2>2. main'.at \notin {"inputs", "construct", "wait"}
    BY <1>3 DEF StorePoker, CountFrequencies, StoreFrequencies,
         StoreLpMaxFrequency, SetInteractionFrequency, SetAnimationFrequency,
         BoostBoot, Goto, Main, Returned
  <2>3. QED
    BY <2>1, <2>2, AnswersKept
<1>4. QED
  BY <1>1, <1>2, <1>3 DEF Starting

LEMMA CallAnswers ==
  ASSUME TypeOK, Answers, CallInit \/ CallOpen
  PROVE  Answers'
<1>1. /\ calls' = calls + 1 /\ worker' = worker /\ ready' = ready
      /\ main.at = "idle" /\ main'.at \in {"idle", "inputs"}
      /\ calls \in Nat
  BY Types, CallsAssumption
     DEF CallInit, CallOpen, pokers, Returned, Main
<1>2. \A p \in Pokers : worker[p] # "none" => p <= calls /\ p \in Nat
  BY CallsAssumption DEF Answers, Pokers
<1>3. QED
  BY <1>1, <1>2 DEF Answers

LEMMA LooperAnswers ==
  ASSUME TypeOK, Answers, NEW p \in Pokers, Looper(p)
  PROVE  Answers'
<1>1. main' = main /\ calls' = calls /\ ready \subseteq ready'
  BY DEF Looper, Prepare, OpenReady
<1>2. /\ worker[p] # "none" /\ worker'[p] # "none"
      /\ worker'[p] = "polling" => p \in ready'
      /\ \A q \in Pokers : q # p => worker'[q] = worker[q]
  BY Types DEF Looper, Prepare, OpenReady
<1>3. QED
  BY <1>1, <1>2 DEF Answers

LEMMA NextAnswers == IInv /\ Answers /\ [Next]_vars => Answers'
<1> SUFFICES ASSUME IInv, Answers, [Next]_vars PROVE Answers'
  OBVIOUS
<1>1. TypeOK
  BY DEF IInv
<1>2. CASE CallInit \/ CallOpen
  BY <1>1, <1>2, CallAnswers
<1>3. CASE Starting
  BY <1>1, <1>3, StartingAnswers
<1>4. ASSUME NEW p \in Pokers, Looper(p) PROVE Answers'
  BY <1>1, <1>4, LooperAnswers
<1>5. ASSUME NEW c \in HintThreads, Hinting(c) PROVE Answers'
  BY <1>1, <1>5, AnswersKept
     DEF Hinting, BeginHint, LoadPoker, LoadFrequency, SendRequest
<1>6. CASE UNCHANGED vars
  BY <1>1, <1>6, AnswersKept DEF vars
<1>7. QED
  BY <1>2, <1>3, <1>4, <1>5, <1>6 DEF Next

(* A call that waits for its Looper thread waits for one that is on its    *)
(* way to the barrier, or finds the barrier open; or the thread did not    *)
(* get that far (timeoutpoker.cpp:197, 248).                               *)
WaitIsAnswered ==
    main.at = "wait" =>
        \/ main.i \in ready
        \/ worker[main.i] \in {"started", "prepared", "dead"}

(* The safety half of StartReturns: init and open never wait for a thread  *)
(* that polls without having opened their barrier, however many calls have *)
(* made a poker before.                                                    *)
THEOREM NobodyWaitsForAnother == Spec => []WaitIsAnswered
<1>1. Init => Answers
  BY RecordTypes DEF Init, Answers
<1>2. IInv /\ Answers => WaitIsAnswered
  BY Types DEF IInv, Started, Answers, WaitIsAnswered, WorkerStates
<1>3. QED
  BY <1>1, <1>2, NextAnswers, Invariant, PTL DEF Spec
=============================================================================
