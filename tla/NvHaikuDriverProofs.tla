------------------------- MODULE NvHaikuDriverProofs -------------------------
(***************************************************************************)
(* The life of the two drivers of NvHaikuDriver, for any bus, any number   *)
(* of devices and a failure at any step: what Init() did is taken back in  *)
(* the reverse order, and NVKMS never outlives the module it calls into;   *)
(* the names it publishes open the devices they stand for, and firmware is *)
(* handed out whole or not at all.                                         *)
(***************************************************************************)
EXTENDS NvHaikuDriver, SequenceTheorems, FiniteSetTheorems, TLAPS

\* What is there at each place of module_init and module_uninit.  The steps
\* before "scan" have a known state; the destructor starts from any of them.
Stage ==
  /\ pc \in {"unloaded", "pci", "pool", "rm", "control", "scan", "names", "loaded",
             "delete", "shutdown", "reclaim"}
  /\ pc \in {"unloaded", "pci"} => pci = 0 /\ ~pool
  /\ pc \in {"pool", "rm", "control", "scan", "names", "loaded"} => pci = 1
  /\ pc = "pool" => ~pool
  /\ pc \in {"rm", "control", "scan", "names", "loaded"} => pool
  /\ pc \in {"unloaded", "pci", "pool", "rm", "reclaim"} => ~rm
  /\ pc \in {"control", "scan", "names", "loaded"} => rm
  /\ pc \in {"unloaded", "pci", "pool", "rm", "control", "shutdown", "reclaim"} => locks = 0
  /\ pc \in {"unloaded", "pci", "pool", "rm", "control"} => private = {}
  /\ pc \in {"unloaded", "pci", "pool", "rm"} => ~initRmDone

\* What the destructor relies on, wherever Init() stopped.
Mirror ==
  /\ pci \in {0, 1} /\ pool \in BOOLEAN /\ rm \in BOOLEAN /\ initRmDone \in BOOLEAN
  /\ locks \in {0, 1}
  /\ pc # "reclaim" => (initRmDone <=> rm)
  /\ private # {} \/ locks > 0 => rm
  /\ rm => pool
  /\ pool => pci = 1

\* Each private state belongs to a device that the destructor has yet to delete.
DeviceOf(x) == \E i \in 1 .. Len(devices) : devices[i].at = x /\ (pc = "delete" => i >= next)

IsASequence(s) == \E S : s \in Seq(S)

Private ==
  /\ next \in Nat /\ (pc = "delete" => next >= 1)
  /\ IsASequence(devices)
  /\ pc \in {"shutdown", "reclaim"} => private = {}
  /\ \A x \in private : DeviceOf(x)

DriverInv == Stage /\ Mirror /\ Private

LEMMA AppendFacts ==
  ASSUME NEW s, IsASequence(s), NEW x
  PROVE  /\ IsASequence(Append(s, x)) /\ Len(s) \in Nat /\ Len(Append(s, x)) = Len(s) + 1
         /\ Append(s, x)[Len(s) + 1] = x
         /\ \A i \in 1 .. Len(s) : Append(s, x)[i] = s[i]
<1>1. PICK S : s \in Seq(S)
  BY DEF IsASequence
<1>2. s \in Seq(S \cup {x}) /\ x \in S \cup {x}
  BY <1>1
<1>3. Append(s, x) \in Seq(S \cup {x})
  BY <1>2
<1> QED
  BY <1>2, <1>3 DEF IsASequence

LEMMA StageStep ==
  ASSUME Stage, Mirror, Private, [Next]_vars
  PROVE  Stage'
<1> USE DEF Stage, Mirror, Private, held, Continue
<1>1. CASE UNCHANGED vars
  BY <1>1 DEF vars
<1>2. CASE ModuleInit
  <2>1. CASE InitPci \/ InitPool
    BY <2>1 DEF InitPci, InitPool
  <2>2. CASE InitRm
    BY <2>2 DEF InitRm
  <2>3. CASE InitControl
    BY <2>3 DEF InitControl
  <2>4. CASE ProbeFails \/ ProbeNotAdded \/ InitNames \/ InitDone
    BY <2>4 DEF ProbeFails, ProbeNotAdded, InitNames, InitDone
  <2>5. CASE Probe \/ SetName
    BY <2>5 DEF Probe, SetName
  <2> QED
    BY <1>2, <2>1, <2>2, <2>3, <2>4, <2>5 DEF ModuleInit
<1>3. CASE ModuleUninit
  <2>1. CASE DeleteDevice
    BY <2>1 DEF DeleteDevice
  <2>2. CASE DeleteControl
    BY <2>2 DEF DeleteControl
  <2>3. CASE ShutdownRm
    BY <2>3 DEF ShutdownRm
  <2>4. CASE DeleteRest
    BY <2>4 DEF DeleteRest
  <2> QED
    BY <1>3, <2>1, <2>2, <2>3, <2>4 DEF ModuleUninit
<1>4. CASE InitDriver \/ UninitDriver \/ Kms
  BY <1>4 DEF InitDriver, UninitDriver, GetModule, PutModule, Kms, KmsInit, KmsGotModule, KmsLoad,
              KmsUnload, KmsPutModule, instance
<1> QED
  BY <1>1, <1>2, <1>3, <1>4 DEF Next

LEMMA MirrorStep ==
  ASSUME Stage, Mirror, Private, [Next]_vars
  PROVE  Mirror'
<1> USE DEF Stage, Mirror, held, Continue
<1>1. CASE UNCHANGED vars
  BY <1>1 DEF vars
<1>2. CASE ModuleInit
  <2>1. CASE InitPci \/ InitPool
    <3>1. /\ pci' \in {0, 1} /\ pc # "reclaim" /\ ~initRmDone /\ ~rm /\ private = {} /\ locks = 0
          /\ UNCHANGED <<rm, initRmDone, private, locks>>
      BY <2>1 DEF InitPci, InitPool
    <3>2. pool' \in BOOLEAN /\ (pool' => pci' = 1)
      <4>1. (pool' = TRUE \/ pool' = pool) /\ (pool' => pci' = 1)
        BY <2>1 DEF InitPci, InitPool
      <4> QED
        BY <4>1
    <3> QED
      BY <3>1, <3>2
  <2>2. CASE InitRm
    <3>1. /\ pool /\ pci = 1 /\ private = {} /\ locks = 0 /\ UNCHANGED <<pci, pool, private, locks>>
      BY <2>2 DEF InitRm
    <3>2. (rm' = TRUE /\ initRmDone' = TRUE) \/ UNCHANGED <<rm, initRmDone>>
      BY <2>2 DEF InitRm
    <3>3. CASE rm' = TRUE /\ initRmDone' = TRUE
      <4>1. rm' \in BOOLEAN /\ initRmDone' \in BOOLEAN /\ rm' /\ initRmDone'
        BY <3>3
      <4> QED
        BY <3>1, <4>1
    <3>4. CASE UNCHANGED <<rm, initRmDone>>
      <4>1. pc # "reclaim"
        BY <2>2 DEF InitRm
      <4> QED
        BY <3>1, <3>4, <4>1
    <3> QED
      BY <3>2, <3>3, <3>4
  <2>3. CASE InitControl
    BY <2>3 DEF InitControl
  <2>4. CASE ProbeFails \/ ProbeNotAdded \/ InitNames \/ InitDone
    BY <2>4 DEF ProbeFails, ProbeNotAdded, InitNames, InitDone
  <2>5. CASE Probe \/ SetName
    BY <2>5 DEF Probe, SetName
  <2> QED
    BY <1>2, <2>1, <2>2, <2>3, <2>4, <2>5 DEF ModuleInit
<1>3. CASE ModuleUninit
  <2>1. CASE DeleteDevice
    <3>1. private' \subseteq private
      BY <2>1 DEF DeleteDevice
    <3>2. UNCHANGED <<pci, pool, rm, locks, initRmDone>> /\ pc' = pc /\ pc = "delete"
      BY <2>1 DEF DeleteDevice
    <3> QED
      BY <3>1, <3>2
  <2>2. CASE DeleteControl
    BY <2>2 DEF DeleteControl
  <2>3. CASE ShutdownRm
    <3>1. private = {} /\ locks = 0 /\ ~rm'
      BY <2>3 DEF ShutdownRm, Private
    <3> QED
      BY <2>3, <3>1 DEF ShutdownRm
  <2>4. CASE DeleteRest
    <3>1. private = {} /\ locks = 0 /\ ~rm
      BY <2>4 DEF DeleteRest, Private
    <3> QED
      <4>1. /\ pci' = 0 /\ pool' = FALSE /\ rm' = rm /\ initRmDone' = FALSE
            /\ UNCHANGED <<private, locks>>
        BY <2>4 DEF DeleteRest
      <4> QED
        BY <3>1, <4>1
  <2> QED
    BY <1>3, <2>1, <2>2, <2>3, <2>4 DEF ModuleUninit
<1>4. CASE InitDriver \/ UninitDriver \/ Kms
  <2>1. UNCHANGED instance
    BY <1>4 DEF InitDriver, UninitDriver, Kms, KmsInit, KmsGotModule, KmsLoad, KmsUnload, KmsPutModule
  <2>2. (pc # "reclaim" /\ pc' # "reclaim") \/ pc' = pc
    BY <1>4 DEF InitDriver, UninitDriver, GetModule, PutModule, Kms, KmsInit, KmsGotModule, KmsLoad,
                KmsUnload, KmsPutModule
  <2> QED
    BY <2>1, <2>2 DEF instance
<1> QED
  BY <1>1, <1>2, <1>3, <1>4 DEF Next

\* The destructor reaches every device that has private state.
LEMMA PrivateStep ==
  ASSUME Stage, Private, [Next]_vars
  PROVE  Private'
<1>1. CASE UNCHANGED <<pc, next, devices, private>>
  BY <1>1 DEF Private, DeviceOf
<1>2. ASSUME UNCHANGED <<devices, private>>, next' \in Nat, pc' = "delete" => next' = 1,
             pc' \in {"shutdown", "reclaim"} => private = {}
      PROVE  Private'
  <2>1. \A i \in 1 .. Len(devices) : i >= 1
    OBVIOUS
  <2> QED
    BY <1>2, <2>1 DEF Private, DeviceOf
<1>3. CASE Probe
  <2>1. PICK handle : devices' = Append(devices, [at |-> next, index |-> Len(devices), handle |-> handle, bars |-> ScanBars(bus[next])])
    BY <1>3 DEF Probe
  <2> DEFINE d == [at |-> next, index |-> Len(devices), handle |-> handle, bars |-> ScanBars(bus[next])]
  <2>2. /\ IsASequence(devices') /\ Len(devices) \in Nat /\ Len(devices') = Len(devices) + 1
        /\ devices'[Len(devices) + 1] = d
        /\ \A i \in 1 .. Len(devices) : devices'[i] = devices[i]
    BY <2>1, AppendFacts DEF Private
  <2>3. d.at = next
    OBVIOUS
  <2>4. private' = private \cup {next} /\ next' = next + 1 /\ pc = "scan" /\ pc' = "scan"
    BY <1>3 DEF Probe
  <2>5. ASSUME NEW x \in private' PROVE DeviceOf(x)'
    <3>1. CASE x = next
      BY <2>2, <2>3, <2>4, <3>1 DEF DeviceOf
    <3>2. CASE x \in private
      BY <2>2, <2>4, <3>2 DEF DeviceOf, Private
    <3> QED
      BY <2>4, <2>5, <3>1, <3>2
  <2> QED
    BY <2>2, <2>4, <2>5 DEF Private
<1>4. CASE DeleteDevice
  <2>1. /\ private' = private \ {devices[next].at} /\ next' = next + 1 /\ UNCHANGED <<pc, devices>>
        /\ pc = "delete" /\ next \in Nat /\ next >= 1
    BY <1>4 DEF DeleteDevice, Private
  <2>2. ASSUME NEW x \in private' PROVE DeviceOf(x)'
    <3>1. PICK i \in 1 .. Len(devices) : devices[i].at = x /\ i >= next
      BY <2>1, <2>2 DEF Private, DeviceOf
    <3>2. i # next
      BY <2>1, <2>2, <3>1
    <3>3. i >= next + 1
      BY <2>1, <3>1, <3>2
    <3> QED
      BY <2>1, <3>1, <3>3 DEF DeviceOf
  <2> QED
    BY <2>1, <2>2 DEF Private
<1>5. CASE DeleteControl
  <2>1. Len(devices) \in Nat /\ next \in Nat
    BY AppendFacts DEF Private
  <2>2. private = {}
    BY <1>5, <2>1 DEF DeleteControl, Private, DeviceOf
  <2> QED
    BY <1>2, <1>5, <2>2 DEF DeleteControl, Continue
<1>6. CASE DeleteRest
  <2>1. private' = {} /\ devices' = <<>> /\ next' = 1 /\ pc' = "unloaded"
    BY <1>6 DEF DeleteRest, Private, Continue
  <2>2. <<>> \in Seq({})
    OBVIOUS
  <2> QED
    BY <2>1, <2>2 DEF Private, IsASequence
<1>7. CASE InitPci \/ InitPool \/ InitRm \/ InitControl \/ ProbeNotAdded \/ InitNames \/ InitDone
  BY <1>2, <1>7 DEF InitPci, InitPool, InitRm, InitControl, ProbeNotAdded, InitNames, InitDone, Continue, held, Stage, Private
<1>8. CASE ProbeFails \/ SetName
  BY <1>2, <1>8 DEF ProbeFails, SetName, held, Private
<1>9. CASE ShutdownRm
  BY <1>2, <1>9 DEF ShutdownRm, Continue, Private
<1>10. ASSUME NEW d, GetModule(d) \/ PutModule(d), UNCHANGED instance PROVE Private'
  <2>1. CASE GetModule(d)
    BY <1>1, <1>2, <1>10, <2>1 DEF GetModule, instance, held, Private
  <2>2. CASE PutModule(d)
    BY <1>1, <1>2, <1>10, <2>2 DEF PutModule, Continue, instance, held, Private
  <2> QED
    BY <1>10, <2>1, <2>2
<1>11. CASE InitDriver \/ UninitDriver \/ Kms
  BY <1>1, <1>10, <1>11 DEF InitDriver, UninitDriver, Kms, KmsInit, KmsGotModule, KmsLoad, KmsUnload,
                          KmsPutModule, instance, held
<1>12. CASE UNCHANGED vars
  BY <1>1, <1>12 DEF vars, held
<1> QED
  BY <1>3, <1>4, <1>5, <1>6, <1>7, <1>8, <1>9, <1>11, <1>12 DEF Next, ModuleInit, ModuleUninit

THEOREM DriverInvariance == Spec => []DriverInv
<1>1. Init => Stage /\ Mirror /\ Private
  <2>1. <<>> \in Seq({})
    OBVIOUS
  <2> QED
    <3> SUFFICES ASSUME Init PROVE Stage /\ Mirror /\ Private
      OBVIOUS
    <3>1. Stage
      BY DEF Init, Stage
    <3>2. Mirror
      <4>1. ~initRmDone /\ ~rm /\ ~pool /\ initRmDone \in BOOLEAN /\ rm \in BOOLEAN /\ pool \in BOOLEAN
        BY Zenon DEF Init
      <4> QED
        BY <4>1 DEF Init, Mirror
    <3>3. Private
      BY <2>1 DEF Init, Private, IsASequence
    <3> QED
      BY <3>1, <3>2, <3>3
<1>2. Stage /\ Mirror /\ Private /\ [Next]_vars => Stage' /\ Mirror' /\ Private'
  BY StageStep, MirrorStep, PrivateStep
<1> QED
  BY <1>1, <1>2, PTL DEF Spec, DriverInv

\* What a step of Init() did lasts as long as what later steps built on it, and
\* nothing is left of it in the end.
THEOREM TeardownCorrect == Spec => []TeardownMirrorsInit
<1>1. DriverInv => TeardownMirrorsInit
  BY DEF DriverInv, Stage, Mirror, TeardownMirrorsInit
<1> QED
  BY <1>1, DriverInvariance, PTL

-----------------------------------------------------------------------------
(* NVKMS and the module.                                                   *)

\* Whoever holds the module finds it whole; nvidia-modeset holds it from the end
\* of its get_module() to its put_module().
KmsInv ==
  /\ holders # {} => pc = "loaded"
  /\ kms \in {"queue", "in", "put"} => "nvidia-modeset" \in holders
  /\ kmsLoaded => kms = "in"

THEOREM KmsCorrect == Spec => []KmsOverModule
<1>1. Init => KmsInv
  BY DEF Init, KmsInv
<1>2. KmsInv /\ [Next]_vars => KmsInv'
  <2> SUFFICES ASSUME KmsInv, [Next]_vars PROVE KmsInv'
    OBVIOUS
  <2> USE DEF KmsInv, Continue
  <2>1. CASE UNCHANGED vars
    BY <2>1 DEF vars
  <2>2. CASE ModuleInit \/ ModuleUninit
    BY <2>2 DEF ModuleInit, ModuleUninit, InitPci, InitPool, InitRm, InitControl, ProbeFails, Probe,
                ProbeNotAdded, InitNames, SetName, InitDone, DeleteDevice, DeleteControl, ShutdownRm,
                DeleteRest, held
  <2>3. CASE InitDriver
    BY <2>3 DEF InitDriver, GetModule
  <2>4. CASE UninitDriver
    BY <2>4 DEF UninitDriver, PutModule
  <2>5. CASE KmsInit \/ KmsGotModule
    BY <2>5 DEF KmsInit, KmsGotModule, GetModule
  <2>6. CASE KmsLoad \/ KmsUnload
    BY <2>6 DEF KmsLoad, KmsUnload
  <2>7. CASE KmsPutModule
    BY <2>7 DEF KmsPutModule, PutModule
  <2> QED
    BY <2>1, <2>2, <2>3, <2>4, <2>5, <2>6, <2>7 DEF Next, Kms
<1>3. KmsInv => KmsOverModule
  BY DEF KmsInv, KmsOverModule
<1> QED
  BY <1>1, <1>2, <1>3, PTL DEF Spec

-----------------------------------------------------------------------------
(* Least elements and induction over the numbers, with sets for predicates. *)

LEMMA Least ==
  ASSUME NEW S \in SUBSET Nat, S # {}
  PROVE  \E m \in S : \A k \in S : m <= k
<1> DEFINE R == {ss \in Nat \X Nat : ss[1] < ss[2]}
<1>1. IsWellFoundedOn(R, Nat)
  BY NatLessThanWellFounded, Zenon DEF OpToRel
<1> HIDE DEF R
<1>2. PICK m \in S : \A k \in S : <<k, m>> \notin R
  BY <1>1, WFMin
<1>3. ASSUME NEW k \in S, k < m PROVE FALSE
  <2>1. <<k, m>> \in Nat \X Nat
    OBVIOUS
  <2>2. <<k, m>> \in R
    BY <1>3, <2>1 DEF R
  <2> QED
    BY <1>2, <2>2
<1> QED
  BY <1>3, \A k \in S : k \in Nat /\ (k < m \/ m <= k)

LEMMA Induct ==
  ASSUME NEW S \in SUBSET Nat, 0 \in S, \A n \in S : n + 1 \in S
  PROVE  S = Nat
<1> SUFFICES ASSUME Nat \ S # {} PROVE FALSE
  OBVIOUS
<1>1. PICK m \in Nat \ S : \A k \in Nat \ S : m <= k
  BY Least
<1>2. m - 1 \in S
  BY <1>1
<1> QED
  BY <1>1, <1>2

-----------------------------------------------------------------------------
(* The firmware.                                                           *)

LEMMA FirstIsLeast ==
  ASSUME NEW S \in SUBSET Nat, S # {}
  PROVE  First(S) \in S /\ \A j \in S : First(S) <= j
<1>1. \E i \in S : \A j \in S : i <= j
  BY Least
<1> QED
  BY <1>1 DEF First

\* A path that is not the directory's own is the type's, for a family of its kind.
LEMMA FirmwarePath ==
  ASSUME NEW type \in Types, NEW family, nv_firmware_path(type, family) # <<>>
  PROVE  /\ \/ family \in Ampere /\ nv_firmware_path(type, family) = <<type, "ga10x">>
            \/ family \in Turing /\ nv_firmware_path(type, family) = <<type, "tu10x">>
         /\ Len(nv_firmware_path(type, family)) = 2
<1>1. \/ family \in Ampere /\ nv_firmware_path(type, family) = <<type, "ga10x">>
      \/ family \in Turing /\ nv_firmware_path(type, family) = <<type, "tu10x">>
  BY DEF nv_firmware_path
<1>2. Len(<<type, "ga10x">>) = 2 /\ Len(<<type, "tu10x">>) = 2
  OBVIOUS
<1> QED
  BY <1>1, <1>2

\* What was told is the file of the first directory that has one, and all of it.
FirstWhole(dirs, told) ==
  LET file == dirs[told.from].files[told.name]
      Has(dir) == dir.found /\ told.name \in DOMAIN dir.files /\ dir.length + Len(told.name) < PathLength
  IN /\ told.bytes = file.size /\ file.read = told.bytes
     /\ Has(dirs[told.from]) /\ \A i \in 1 .. told.from - 1 : ~Has(dirs[i])

\* What is handed out is the first file there is, and all of it (nv_get_firmware).
LEMMA FirmwareIsWhole ==
  ASSUME NEW dirs \in DataDirectories, NEW type \in Types, NEW family,
         nv_get_firmware(dirs, type, family) \notin {Nothing, Stops}
  PROVE  LET told == nv_get_firmware(dirs, type, family)
         IN told.name = nv_firmware_path(type, family) /\ told.name # <<>> /\ FirstWhole(dirs, told)
<1> DEFINE suffix == nv_firmware_path(type, family)
           S == Opens(dirs, suffix)
           i == First(S)
           file == dirs[i].files[suffix]
           told == nv_get_firmware(dirs, type, family)
<1>1. S # {} /\ suffix # <<>> /\ ~(file.read < file.size)
      /\ told = [from |-> i, name |-> suffix, bytes |-> file.size]
  BY DEF nv_get_firmware
<1>2. Len(suffix) = 2
  BY <1>1, FirmwarePath
<1>3. DOMAIN dirs = 1 .. 4
  BY DirectoriesAssumption
<1>4. \A j \in 1 .. 4 : dirs[j].length \in Nat /\ PathLength \in Nat
  BY DirectoriesAssumption, PathLengthAssumption
<1> HIDE DEF suffix
<1>5. \A j : j \in S <=> /\ j \in 1 .. 4 /\ dirs[j].found /\ dirs[j].length + 2 < PathLength
                         /\ suffix \in DOMAIN dirs[j].files
  <2>1. \A j : j \in S <=> /\ j \in 1 .. 4 /\ dirs[j].found
                           /\ dirs[j].length + 2 <= PathLength - 1
                           /\ suffix \in DOMAIN dirs[j].files
    BY <1>1, <1>2, <1>3 DEF Opens
  <2>2. \A j \in 1 .. 4 : dirs[j].length + 2 <= PathLength - 1 <=> dirs[j].length + 2 < PathLength
    BY <1>4
  <2> QED
    BY <2>1, <2>2
<1> HIDE DEF S
<1>6. i \in S /\ \A j \in S : i <= j
  <2>1. S \in SUBSET Nat
    BY <1>5
  <2> QED
    BY <1>1, <2>1, FirstIsLeast
<1> HIDE DEF i, told
<1>7. file.size \in Nat /\ file.read \in 0 .. file.size
  BY <1>5, <1>6, DirectoriesAssumption
<1>8. file.read = file.size
  BY <1>1, <1>7
<1>9. told.from = i /\ told.name = suffix /\ told.bytes = file.size
  BY <1>1
<1>10. \A j \in 1 .. i - 1 : j \notin S /\ j \in 1 .. 4
  BY <1>5, <1>6
<1>11. FirstWhole(dirs, told)
  BY <1>2, <1>5, <1>6, <1>8, <1>9, <1>10 DEF FirstWhole
<1> QED
  BY ONLY <1>1, <1>9, <1>11, Zenon DEF suffix, told

\* No chip gets the firmware of another family or type, or a part of one; a
\* file in a user's directory goes before the system's.
THEOREM FirmwareCorrect == Spec => []FirmwareWhole
<1>1. FirmwareWhole
  <2>1. SUFFICES ASSUME NEW d \in DOMAIN devices, NEW dirs \in DataDirectories, NEW type \in Types
        PROVE LET family == bus[devices[d].at].family
                  told == nv_get_firmware(dirs, type, family)
                  Has(dir) == /\ dir.found /\ told.name \in DOMAIN dir.files
                              /\ dir.length + Len(told.name) < PathLength
              IN told \notin {Nothing, Stops} =>
                   LET file == dirs[told.from].files[told.name] IN
                   /\ \/ family \in Ampere /\ told.name = <<type, "ga10x">>
                      \/ family \in Turing /\ told.name = <<type, "tu10x">>
                   /\ told.bytes = file.size /\ file.read = told.bytes
                   /\ Has(dirs[told.from]) /\ \A i \in 1 .. told.from - 1 : ~Has(dirs[i])
    BY DEF FirmwareWhole
  <2> DEFINE family == bus[devices[d].at].family
             told == nv_get_firmware(dirs, type, family)
             path == nv_firmware_path(type, family)
  <2>2. SUFFICES ASSUME told \notin {Nothing, Stops}
        PROVE  LET file == dirs[told.from].files[told.name]
                   Has(dir) == /\ dir.found /\ told.name \in DOMAIN dir.files
                               /\ dir.length + Len(told.name) < PathLength
               IN /\ \/ family \in Ampere /\ told.name = <<type, "ga10x">>
                     \/ family \in Turing /\ told.name = <<type, "tu10x">>
                  /\ told.bytes = file.size /\ file.read = told.bytes
                  /\ Has(dirs[told.from]) /\ \A i \in 1 .. told.from - 1 : ~Has(dirs[i])
    OBVIOUS
  <2>3. told.name = path /\ path # <<>>
    BY <2>2, FirmwareIsWhole
  <2>4. \/ family \in Ampere /\ path = <<type, "ga10x">>
        \/ family \in Turing /\ path = <<type, "tu10x">>
    BY <2>3, FirmwarePath
  <2>5. FirstWhole(dirs, told)
    BY <2>2, FirmwareIsWhole
  <2> HIDE DEF told, path, family
  <2> QED
    BY ONLY <2>3, <2>4, <2>5, Zenon DEF FirstWhole
<1> QED
  BY <1>1, PTL

-----------------------------------------------------------------------------
(* Numbers and their names.                                                *)

\* One step of the recursion of Decimal.
Digits(g, n) == IF n < 10 THEN <<n>> ELSE Append(g[n \div 10], n % 10)

LEMMA Tens ==
  ASSUME NEW n \in Nat
  PROVE  /\ n \div 10 \in Nat /\ n % 10 \in 0 .. 9 /\ n = 10 * (n \div 10) + (n % 10)
         /\ n >= 10 => n \div 10 < n /\ n \div 10 > 0
         /\ n \div 10 <= n
<1> DEFINE q == n \div 10
           d == n % 10
<1>1. q \in Nat
  OBVIOUS
<1>2. d \in 0 .. 9
  OBVIOUS
<1>3. n = 10 * q + d
  OBVIOUS
<1> HIDE DEF q, d
<1>4. (n >= 10 => q < n /\ q > 0) /\ q <= n
  BY <1>1, <1>2, <1>3
<1> QED
  BY ONLY <1>1, <1>2, <1>3, <1>4, Zenon DEF q, d

LEMMA TensOf ==
  ASSUME NEW v \in Nat, NEW c \in 0 .. 9
  PROVE  (10 * v + c) \div 10 = v /\ (10 * v + c) % 10 = c /\ 10 * v + c \in Nat
OBVIOUS

\* There is a function that keeps to the equation up to any number, and only one.
LEMMA DigitsUpTo ==
  \A n \in Nat : \E g : g = [m \in 0 .. n |-> Digits(g, m)]
<1> DEFINE S == {n \in Nat : \E g : g = [m \in 0 .. n |-> Digits(g, m)]}
<1>1. 0 \in S
  <2> DEFINE g == [m \in 0 .. 0 |-> <<0>>]
  <2>1. ASSUME NEW m \in 0 .. 0 PROVE Digits(g, m) = g[m]
    BY DEF Digits
  <2>2. g = [m \in 0 .. 0 |-> g[m]]
    OBVIOUS
  <2> HIDE DEF g
  <2>3. g = [m \in 0 .. 0 |-> Digits(g, m)]
    BY <2>1, <2>2
  <2> QED
    BY <2>3
<1>2. ASSUME NEW n \in S PROVE n + 1 \in S
  <2>1. PICK g : g = [m \in 0 .. n |-> Digits(g, m)]
    OBVIOUS
  <2> DEFINE h == [m \in 0 .. n + 1 |-> Digits(g, m)]
  <2>2. ASSUME NEW m \in 0 .. n PROVE h[m] = g[m]
    <3>1. g[m] = Digits(g, m)
      BY <2>1
    <3>2. m \in 0 .. n + 1
      OBVIOUS
    <3> QED
      BY <3>1, <3>2
  <2>3. ASSUME NEW m \in 0 .. n + 1 PROVE Digits(h, m) = Digits(g, m)
    <3>1. CASE m < 10
      BY <3>1 DEF Digits
    <3>2. CASE m >= 10
      <4>1. m \div 10 \in 0 .. n
        BY <3>2, Tens
      <4>2. h[m \div 10] = g[m \div 10]
        BY <2>2, <4>1
      <4> HIDE DEF h
      <4> QED
        BY <3>2, <4>2 DEF Digits
    <3> QED
      BY <3>1, <3>2
  <2>4. h = [m \in 0 .. n + 1 |-> Digits(h, m)]
    <3>1. \A m \in 0 .. n + 1 : Digits(h, m) = Digits(g, m)
      BY <2>3
    <3> DEFINE f == [m \in 0 .. n + 1 |-> Digits(h, m)]
    <3>2. \A m \in 0 .. n + 1 : h[m] = Digits(g, m) /\ f[m] = Digits(h, m)
      OBVIOUS
    <3>3. DOMAIN h = 0 .. n + 1 /\ DOMAIN f = 0 .. n + 1
      OBVIOUS
    <3>4. h = [m \in 0 .. n + 1 |-> h[m]] /\ f = [m \in 0 .. n + 1 |-> f[m]]
      OBVIOUS
    <3> HIDE DEF h, f
    <3>5. \A m \in 0 .. n + 1 : h[m] = f[m]
      BY <3>1, <3>2
    <3>6. h = f
      BY ONLY <3>4, <3>5
    <3> QED
      BY <3>6 DEF f
  <2>5. n + 1 \in Nat
    OBVIOUS
  <2> HIDE DEF h
  <2> QED
    BY <2>4, <2>5
<1> HIDE DEF S
<1>3. S = Nat
  <2>1. S \in SUBSET Nat
    BY DEF S
  <2> QED
    BY <1>1, <1>2, <2>1, Induct
<1> QED
  BY <1>3 DEF S

LEMMA DigitsUnique ==
  ASSUME NEW a \in Nat, NEW b \in Nat, NEW g, NEW h,
         g = [m \in 0 .. a |-> Digits(g, m)], h = [m \in 0 .. b |-> Digits(h, m)],
         NEW n \in Nat, n <= a, n <= b
  PROVE  g[n] = h[n]
<1> DEFINE S == {m \in Nat : m <= a /\ m <= b /\ g[m] # h[m]}
<1>1. SUFFICES ASSUME S # {} PROVE FALSE
  OBVIOUS
<1>2. PICK m \in S : \A k \in S : m <= k
  <2>1. S \in SUBSET Nat
    OBVIOUS
  <2> HIDE DEF S
  <2> QED
    BY <1>1, <2>1, Least
<1>3. m \in 0 .. a /\ m \in 0 .. b /\ m \in Nat
  OBVIOUS
<1>4. g[m] = Digits(g, m) /\ h[m] = Digits(h, m)
  BY <1>3
<1>5. m >= 10 => g[m \div 10] = h[m \div 10]
  BY <1>2, <1>3, Tens
<1>6. Digits(g, m) = Digits(h, m)
  BY <1>3, <1>5 DEF Digits
<1> QED
  BY <1>4, <1>6

\* Decimal is what its definition says.
LEMMA DecimalIs ==
  ASSUME NEW n \in Nat
  PROVE  /\ n < 10 => Decimal[n] = <<n>>
         /\ ~(n < 10) => Decimal[n] = Append(Decimal[n \div 10], n % 10)
<1> DEFINE G(k) == CHOOSE g : g = [m \in 0 .. k |-> Digits(g, m)]
           f == [k \in Nat |-> G(k)[k]]
<1>1. \A k \in Nat : G(k) = [m \in 0 .. k |-> Digits(G(k), m)]
  BY DigitsUpTo
<1> HIDE DEF G
<1>2. ASSUME NEW k \in Nat PROVE f[k] = Digits(f, k)
  <2>1. k \in 0 .. k /\ G(k)[k] = Digits(G(k), k)
    <3>1. k \in 0 .. k
      OBVIOUS
    <3> QED
      BY <1>1, <3>1
  <2>2. CASE k < 10
    BY <2>1, <2>2 DEF Digits
  <2>3. CASE k >= 10
    <3>1. k \div 10 \in Nat /\ k \div 10 <= k
      BY Tens
    <3>2. G(k)[k \div 10] = G(k \div 10)[k \div 10]
      BY <1>1, <3>1, DigitsUnique
    <3>3. f[k \div 10] = G(k)[k \div 10]
      BY <3>1, <3>2
    <3>4. f[k] = G(k)[k]
      OBVIOUS
    <3> HIDE DEF f
    <3> QED
      BY <2>1, <2>3, <3>3, <3>4 DEF Digits
  <2> QED
    BY <2>2, <2>3
<1>3. f = [k \in Nat |-> f[k]]
  OBVIOUS
<1> HIDE DEF f
<1>4. f = [k \in Nat |-> IF k < 10 THEN <<k>> ELSE Append(f[k \div 10], k % 10)]
  BY <1>2, <1>3 DEF Digits
<1>5. Decimal = [k \in Nat |-> IF k < 10 THEN <<k>> ELSE Append(Decimal[k \div 10], k % 10)]
  BY <1>4 DEF Decimal
<1>6. Decimal[n] = IF n < 10 THEN <<n>> ELSE Append(Decimal[n \div 10], n % 10)
  BY <1>5
<1> QED
  BY <1>6, Zenon

\* The equation of Value, up to n digits of s.
Sums(g, s, n) == g[0] = 0 /\ \A i \in 1 .. n : g[i] = 10 * g[i - 1] + s[i]

LEMMA SumsAgree ==
  ASSUME NEW n \in Nat, NEW g, NEW h, NEW s, NEW t, Sums(g, s, n), Sums(h, t, n),
         \A i \in 1 .. n : s[i] = t[i]
  PROVE  g[n] = h[n]
<1> DEFINE S == {m \in Nat : m <= n /\ g[m] # h[m]}
<1>1. SUFFICES ASSUME S # {} PROVE FALSE
  OBVIOUS
<1>2. PICK m \in S : \A k \in S : m <= k
  <2>1. S \in SUBSET Nat
    OBVIOUS
  <2> HIDE DEF S
  <2> QED
    BY <1>1, <2>1, Least
<1>3. m # 0
  BY DEF Sums
<1>4. m \in 1 .. n /\ m - 1 \in Nat
  BY <1>3
<1>5. g[m - 1] = h[m - 1]
  BY <1>2, <1>4
<1> QED
  BY <1>4, <1>5 DEF Sums

\* Value(s) is the last sum.
LEMMA ValueIs ==
  ASSUME NEW s \in Seq(0 .. 9)
  PROVE  \E g \in [0 .. Len(s) -> Nat] : Sums(g, s, Len(s)) /\ Value(s) = g[Len(s)]
<1> DEFINE N == Len(s)
           S == {n \in Nat : n <= N => \E g \in [0 .. n -> Nat] : Sums(g, s, n)}
<1>0. N \in Nat /\ \A i \in 1 .. N : s[i] \in 0 .. 9
  OBVIOUS
<1>1. 0 \in S
  <2>1. [i \in 0 .. 0 |-> 0] \in [0 .. 0 -> Nat] /\ Sums([i \in 0 .. 0 |-> 0], s, 0)
    BY DEF Sums
  <2> QED
    BY <2>1
<1> HIDE DEF N
<1>2. ASSUME NEW n \in S PROVE n + 1 \in S
  <2>1. SUFFICES ASSUME n + 1 <= N PROVE \E g \in [0 .. n + 1 -> Nat] : Sums(g, s, n + 1)
    OBVIOUS
  <2>2. PICK g \in [0 .. n -> Nat] : Sums(g, s, n)
    BY <1>0, <2>1
  <2>0. n \in Nat
    OBVIOUS
  <2> HIDE DEF S
  <2> DEFINE h == [i \in 0 .. n + 1 |-> IF i = n + 1 THEN 10 * g[n] + s[n + 1] ELSE g[i]]
  <2>3. 10 * g[n] + s[n + 1] \in Nat
    <3>1. n \in 0 .. n /\ n + 1 \in 1 .. N
      BY <1>0, <2>0, <2>1
    <3>2. g[n] \in Nat /\ s[n + 1] \in 0 .. 9
      BY <1>0, <3>1
    <3> QED
      BY <3>2, TensOf, Zenon
  <2>4. \A i \in 0 .. n + 1 : i # n + 1 => i \in 0 .. n
    BY <2>0
  <2>5. h \in [0 .. n + 1 -> Nat]
    BY <2>3, <2>4
  <2>6. h[0] = 0
    BY <2>0, <2>2 DEF Sums
  <2>7. ASSUME NEW i \in 1 .. n + 1 PROVE h[i] = 10 * h[i - 1] + s[i]
    <3>1. i - 1 \in 0 .. n /\ i - 1 # n + 1 /\ i \in 0 .. n + 1 /\ i - 1 \in 0 .. n + 1
      BY <2>0
    <3>2. h[i - 1] = g[i - 1]
      BY <3>1
    <3>3. CASE i = n + 1
      BY <2>0, <3>1, <3>2, <3>3
    <3>4. CASE i # n + 1
      <4>1. i \in 1 .. n /\ h[i] = g[i]
        BY <2>0, <3>1, <3>4
      <4> HIDE DEF h
      <4> QED
        BY <2>2, <3>2, <4>1 DEF Sums
    <3> QED
      BY <3>3, <3>4
  <2> HIDE DEF h
  <2> QED
    BY <2>5, <2>6, <2>7 DEF Sums
<1>3. S = Nat
  <2>1. S \in SUBSET Nat
    OBVIOUS
  <2> HIDE DEF S
  <2> QED
    BY <1>1, <1>2, <2>1, Induct
<1>4. PICK g \in [0 .. N -> Nat] : Sums(g, s, N)
  <2>1. N \in {n \in Nat : n <= N => \E g \in [0 .. n -> Nat] : Sums(g, s, n)}
    BY <1>0, <1>3, Zenon
  <2>2. N <= N
    BY <1>0
  <2> QED
    BY <2>1, <2>2
<1> DEFINE F(f) == [i \in 0 .. N |-> IF i = 0 THEN 0 ELSE 10 * f[i - 1] + s[i]]
           value == CHOOSE f : f = F(f)
<1>5. g = F(g)
  <2>1. ASSUME NEW i \in 0 .. N PROVE g[i] = IF i = 0 THEN 0 ELSE 10 * g[i - 1] + s[i]
    BY <1>0, <1>4 DEF Sums
  <2>2. g = [i \in 0 .. N |-> g[i]]
    OBVIOUS
  <2> QED
    BY <2>1, <2>2
<1> HIDE DEF F
<1>6. value = F(value)
  BY <1>5
<1> HIDE DEF value
<1>7. Sums(value, s, N)
  <2>1. \A i \in 0 .. N : value[i] = IF i = 0 THEN 0 ELSE 10 * value[i - 1] + s[i]
    BY <1>6 DEF F
  <2>2. 0 \in 0 .. N /\ \A i \in 1 .. N : i \in 0 .. N /\ i # 0
    BY <1>0
  <2> QED
    BY <2>1, <2>2 DEF Sums
<1>8. value[N] = g[N]
  BY <1>0, <1>4, <1>7, SumsAgree
<1>9. Value(s) = value[N]
  BY DEF Value, value, F, N
<1> QED
  BY <1>4, <1>8, <1>9 DEF N

LEMMA ValueAppend ==
  ASSUME NEW s \in Seq(0 .. 9), NEW c \in 0 .. 9
  PROVE  Value(s) \in Nat /\ Value(Append(s, c)) = 10 * Value(s) + c
<1> DEFINE t == Append(s, c)
<1>1. /\ t \in Seq(0 .. 9) /\ Len(t) = Len(s) + 1 /\ Len(s) \in Nat
      /\ t[Len(s) + 1] = c /\ \A i \in 1 .. Len(s) : s[i] = t[i]
  OBVIOUS
<1> HIDE DEF t
<1>2. PICK g \in [0 .. Len(s) -> Nat] : Sums(g, s, Len(s)) /\ Value(s) = g[Len(s)]
  BY ValueIs
<1>3. PICK h \in [0 .. Len(t) -> Nat] : Sums(h, t, Len(t)) /\ Value(t) = h[Len(t)]
  BY <1>1, ValueIs
<1>4. Sums(h, t, Len(s))
  BY <1>1, <1>3 DEF Sums
<1>5. g[Len(s)] = h[Len(s)]
  BY <1>1, <1>2, <1>4, SumsAgree
<1>6. h[Len(s) + 1] = 10 * h[Len(s)] + t[Len(s) + 1]
  <2>1. Len(s) + 1 \in 1 .. Len(t) /\ Len(s) + 1 - 1 = Len(s)
    BY <1>1
  <2> QED
    BY <1>3, <2>1 DEF Sums
<1> QED
  <2>1. Len(s) \in 0 .. Len(s)
    BY <1>1
  <2> QED
    BY <1>1, <1>2, <1>3, <1>5, <1>6, <2>1 DEF t

LEMMA ValueOfOne ==
  ASSUME NEW c \in 0 .. 9
  PROVE  Value(<<c>>) = c
<1>0. <<c>> \in Seq(0 .. 9)
  OBVIOUS
<1>1. PICK g \in [0 .. Len(<<c>>) -> Nat] : Sums(g, <<c>>, Len(<<c>>)) /\ Value(<<c>>) = g[Len(<<c>>)]
  BY <1>0, ValueIs
<1>2. Len(<<c>>) = 1 /\ <<c>>[1] = c /\ 1 \in 1 .. 1 /\ 1 - 1 = 0
  OBVIOUS
<1> QED
  BY <1>1, <1>2 DEF Sums

\* How snprintf writes a number: the digits of a number whose value it is.
Written(n) ==
  /\ Decimal[n] \in Seq(0 .. 9) /\ Len(Decimal[n]) >= 1
  /\ Decimal[n] = <<0>> \/ Decimal[n][1] \in 1 .. 9
  /\ n # 0 => Decimal[n][1] \in 1 .. 9
  /\ Value(Decimal[n]) = n

LEMMA DecimalWrites == \A n \in Nat : Written(n)
<1> DEFINE S == {n \in Nat : ~Written(n)}
<1>1. SUFFICES ASSUME S # {} PROVE FALSE
  OBVIOUS
<1>2. PICK n \in S : \A k \in S : n <= k
  <2>1. S \in SUBSET Nat
    OBVIOUS
  <2> HIDE DEF S
  <2> QED
    BY <1>1, <2>1, Least
<1>3. n \in Nat /\ ~Written(n)
  OBVIOUS
<1>4. CASE n < 10
  <2>1. Decimal[n] = <<n>> /\ n \in 0 .. 9
    <3>1. Decimal[n] = <<n>>
      BY <1>3, <1>4, DecimalIs, Zenon
    <3> QED
      BY <1>3, <1>4, <3>1
  <2>2. <<n>> \in Seq(0 .. 9) /\ Len(<<n>>) = 1 /\ <<n>>[1] = n /\ (n = 0 \/ n \in 1 .. 9)
    BY <2>1
  <2>3. Value(<<n>>) = n
    BY <2>1, ValueOfOne
  <2> QED
    BY <1>3, <2>1, <2>2, <2>3 DEF Written
<1>5. CASE n >= 10
  <2> DEFINE q == n \div 10
             c == n % 10
  <2>1. Decimal[n] = Append(Decimal[q], c)
    <3>1. ~(n < 10)
      BY <1>3, <1>5
    <3> QED
      BY <1>3, <3>1, DecimalIs, Zenon
  <2>2. q \in Nat /\ c \in 0 .. 9 /\ n = 10 * q + c /\ q < n /\ q > 0
    BY <1>3, <1>5, Tens
  <2> HIDE DEF q, c
  <2>3. Written(q)
    BY <1>2, <1>3, <2>2
  <2> DEFINE s == Decimal[q]
  <2>4. s \in Seq(0 .. 9) /\ Len(s) >= 1 /\ s[1] \in 1 .. 9 /\ Value(s) = q
    BY <2>2, <2>3 DEF Written
  <2> HIDE DEF s
  <2>5. Append(s, c) \in Seq(0 .. 9) /\ Len(Append(s, c)) >= 1 /\ Append(s, c)[1] = s[1]
    BY <2>2, <2>4
  <2>6. Value(Append(s, c)) = 10 * Value(s) + c
    BY <2>2, <2>4, ValueAppend
  <2>7. Decimal[n] = Append(s, c)
    BY <2>1 DEF s
  <2> QED
    BY <1>3, <2>2, <2>4, <2>5, <2>6, <2>7 DEF Written
<1> QED
  BY <1>3, <1>4, <1>5

\* Digits that begin with one that is not 0 are how their value is written.
LEMMA WrittenBack ==
  ASSUME NEW s \in Seq(0 .. 9), s = << 0 >> \/ (s # <<>> /\ s[1] \in 1 .. 9)
  PROVE  Value(s) \in Nat /\ s = Decimal[Value(s)]
<1> DEFINE Back(t) == Value(t) \in Nat /\ Value(t) > 0 /\ t = Decimal[Value(t)]
           S == {n \in Nat : \A t \in Seq(0 .. 9) : Len(t) = n + 1 /\ t[1] \in 1 .. 9 => Back(t)}
<1> HIDE DEF Back
<1>1. 0 \in S
  <2> SUFFICES ASSUME NEW t \in Seq(0 .. 9), Len(t) = 1, t[1] \in 1 .. 9 PROVE Back(t)
    OBVIOUS
  <2>1. t = <<t[1]>> /\ t[1] \in 0 .. 9 /\ t[1] < 10 /\ t[1] > 0 /\ t[1] \in Nat
    OBVIOUS
  <2>2. Value(t) = t[1]
    BY <2>1, ValueOfOne
  <2>3. Decimal[t[1]] = <<t[1]>>
    BY <2>1, DecimalIs
  <2> QED
    BY <2>1, <2>2, <2>3 DEF Back
<1>2. ASSUME NEW n \in S PROVE n + 1 \in S
  <2> SUFFICES ASSUME NEW t \in Seq(0 .. 9), Len(t) = n + 1 + 1, t[1] \in 1 .. 9 PROVE Back(t)
    OBVIOUS
  <2> DEFINE r == SubSeq(t, 1, n + 1)
             c == t[n + 2]
  <2>1. n \in Nat
    OBVIOUS
  <2>2. r \in Seq(0 .. 9) /\ Len(r) = n + 1 /\ r[1] = t[1] /\ c \in 0 .. 9 /\ \A i \in 1 .. n + 1 : r[i] = t[i]
    BY <2>1
  <2>3. Back(r)
    BY <2>2
  <2> HIDE DEF S, r, c
  <2>4. t = Append(r, c)
    BY <2>1, <2>2 DEF c
  <2>5. Value(t) = 10 * Value(r) + c
    BY <2>2, <2>4, ValueAppend
  <2> DEFINE v == Value(r)
  <2>6. v \in Nat /\ v > 0 /\ r = Decimal[v]
    BY <2>3 DEF Back
  <2> HIDE DEF v
  <2>7. (10 * v + c) \div 10 = v /\ (10 * v + c) % 10 = c /\ 10 * v + c \in Nat
    BY <2>2, <2>6, TensOf
  <2>8. 10 * v + c >= 10 /\ ~(10 * v + c < 10) /\ 10 * v + c > 0
    BY <2>2, <2>6
  <2>9. Decimal[10 * v + c] = Append(Decimal[v], c)
    BY <2>7, <2>8, DecimalIs
  <2> QED
    BY <2>4, <2>5, <2>6, <2>7, <2>8, <2>9 DEF Back, v
<1>3. S = Nat
  <2>1. S \in SUBSET Nat
    OBVIOUS
  <2> HIDE DEF S
  <2> QED
    BY <1>1, <1>2, <2>1, Induct
<1>4. CASE s = <<0>>
  <2>1. Value(s) = 0
    BY <1>4, ValueOfOne
  <2>2. Decimal[0] = <<0>>
    <3>1. 0 \in Nat /\ 0 < 10
      OBVIOUS
    <3> QED
      BY <3>1, DecimalIs, Zenon
  <2> QED
    BY <1>4, <2>1, <2>2
<1>5. CASE s # <<>> /\ s[1] \in 1 .. 9
  <2>1. Len(s) - 1 \in Nat /\ Len(s) = Len(s) - 1 + 1
    BY <1>5
  <2>2. Len(s) - 1 \in {n \in Nat : \A t \in Seq(0 .. 9) : Len(t) = n + 1 /\ t[1] \in 1 .. 9 => Back(t)}
    BY <1>3, <2>1, Zenon
  <2>3. Back(s)
    BY <1>5, <2>1, <2>2
  <2> QED
    BY <2>3 DEF Back
<1> QED
  BY <1>4, <1>5

\* A name is the digits at its start, or it is none.
LEMMA DigitsAtStart ==
  ASSUME NEW N \in Nat, NEW s \in Seq(Nat), Len(s) = N
  PROVE  /\ Cardinality(DigitsOf(s)) \in 0 .. N
         /\ SubSeq(s, 1, Cardinality(DigitsOf(s))) = s <=> s \in Seq(0 .. 9)
<1> DEFINE c == Cardinality(DigitsOf(s))
<1>1. IsFiniteSet(1 .. N) /\ Cardinality(1 .. N) = N
  BY FS_Interval
<1>2. DigitsOf(s) \in SUBSET (1 .. N)
  BY DEF DigitsOf
<1>3. IsFiniteSet(DigitsOf(s)) /\ c <= N /\ (c = N => DigitsOf(s) = 1 .. N)
  BY <1>1, <1>2, FS_Subset, Zenon
<1>4. c \in 0 .. N
  <2>1. c \in Nat
    BY <1>3, FS_CardinalityType, Zenon
  <2> QED
    BY <1>3, <2>1
<1>5. ASSUME s \in Seq(0 .. 9) PROVE SubSeq(s, 1, c) = s
  <2>1. DigitsOf(s) = 1 .. N
    BY <1>5 DEF DigitsOf
  <2>2. c = Len(s)
    BY <1>1, <2>1
  <2> QED
    BY <1>5, <2>2, SubSeqFull
<1>6. ASSUME SubSeq(s, 1, c) = s PROVE s \in Seq(0 .. 9)
  <2>1. Len(SubSeq(s, 1, c)) = c
    <3> HIDE DEF c
    <3> QED
      BY <1>4
  <2>2. DigitsOf(s) = 1 .. N
    BY <1>3, <1>6, <2>1
  <2>3. \A i \in 1 .. N : s[i] \in 0 .. 9
    <3>1. ASSUME NEW i \in 1 .. N PROVE s[i] \in 0 .. 9
      <4>1. i \in DigitsOf(s) /\ i \in 1 .. i
        BY <2>2
      <4> QED
        BY <4>1 DEF DigitsOf
    <3> QED
      BY <3>1
  <2> QED
    BY <2>3
<1> QED
  BY <1>4, <1>5, <1>6

\* What ParseDeviceName takes is the one way to write a number.
LEMMA ParseIs ==
  ASSUME NEW s \in Seq(Nat)
  PROVE  LET n == ParseDeviceName(s)
         IN n = -1 \/ (n \in 0 .. MaxUint32 /\ s = Decimal[n])
<1> DEFINE digits == SubSeq(s, 1, Cardinality(DigitsOf(s)))
           n == ParseDeviceName(s)
<1>1. SUFFICES ASSUME n # -1 PROVE n \in 0 .. MaxUint32 /\ s = Decimal[n]
  OBVIOUS
<1>2. /\ s = <<0>> \/ (s # <<>> /\ s[1] \in 1 .. 9)
      /\ Value(digits) <= MaxUint32 /\ digits = s /\ n = Value(digits)
  BY <1>1 DEF ParseDeviceName
<1> HIDE DEF n
<1>3. Len(s) \in Nat
  OBVIOUS
<1>4. s \in Seq(0 .. 9)
  BY <1>2, <1>3, DigitsAtStart
<1> HIDE DEF digits
<1>5. Value(s) \in Nat /\ s = Decimal[Value(s)]
  BY <1>2, <1>4, WrittenBack
<1> QED
  BY <1>2, <1>5, MaxUint32Assumption

LEMMA ParseOfDecimal ==
  ASSUME NEW n \in 0 .. MaxUint32
  PROVE  ParseDeviceName(Decimal[n]) = n /\ Decimal[n] # Control /\ Decimal[n] # NoName
<1> DEFINE s == Decimal[n]
<1>1. n \in Nat
  BY MaxUint32Assumption
<1>2. /\ s \in Seq(0 .. 9) /\ Len(s) >= 1 /\ (s = <<0>> \/ s[1] \in 1 .. 9) /\ Value(s) = n
  BY <1>1, DecimalWrites DEF Written
<1> HIDE DEF s
<1>3. s # <<>> /\ s # <<11>> /\ s \in Seq(Nat) /\ Len(s) \in Nat
  BY <1>2
<1>4. SubSeq(s, 1, Cardinality(DigitsOf(s))) = s
  BY <1>2, <1>3, DigitsAtStart
<1>5. Value(s) <= MaxUint32
  BY <1>2, MaxUint32Assumption
<1>6. ParseDeviceName(s) = Value(s)
  BY <1>2, <1>3, <1>4, <1>5 DEF ParseDeviceName
<1> QED
  BY <1>2, <1>3, <1>6 DEF s, Control, NoName

-----------------------------------------------------------------------------
(* The BARs.                                                               *)

\* One step of the recursion of ScanBars, from the top register down.
BarsFrom(f, g, b) ==
  IF b >= 6 THEN <<>>
  ELSE LET wide == b \in f.wide
           used == f.size[b + 1] > 0 \/ (wide /\ b < 5 /\ f.size[b + 2] > 0)
       IN (IF used THEN <<b>> ELSE <<>>) \o g[IF wide THEN b + 2 ELSE b + 1]

LEMMA BarsFromSame ==
  ASSUME NEW f, NEW g, NEW h, NEW b \in 0 .. 7,
         \A c \in 0 .. 7 : c > b => g[c] = h[c]
  PROVE  BarsFrom(f, g, b) = BarsFrom(f, h, b)
<1>1. CASE b >= 6
  BY <1>1 DEF BarsFrom
<1>2. CASE b < 6
  <2>1. g[b + 1] = h[b + 1] /\ g[b + 2] = h[b + 2]
    BY <1>2
  <2>2. g[IF b \in f.wide THEN b + 2 ELSE b + 1] = h[IF b \in f.wide THEN b + 2 ELSE b + 1]
    BY <2>1
  <2> QED
    BY <2>2, Zenon DEF BarsFrom
<1> QED
  BY <1>1, <1>2

\* There is a function that keeps to the equation.
LEMMA BarsExist ==
  ASSUME NEW f
  PROVE  \E g : g = [b \in 0 .. 7 |-> BarsFrom(f, g, b)]
<1> DEFINE From(g, k) == \A b \in 0 .. 7 : b >= 7 - k => g[b] = BarsFrom(f, g, b)
           S == {k \in Nat : k <= 7 => \E g : From(g, k)}
<1>1. 0 \in S
  <2>1. From([b \in 0 .. 7 |-> <<>>], 0)
    BY DEF BarsFrom
  <2> QED
    BY <2>1
<1>2. ASSUME NEW k \in S PROVE k + 1 \in S
  <2>0. k \in Nat
    OBVIOUS
  <2>1. SUFFICES ASSUME k + 1 <= 7 PROVE \E g : From(g, k + 1)
    BY <2>0
  <2>2. PICK g : From(g, k)
    BY <2>0, <2>1
  <2> HIDE DEF S
  <2> DEFINE h == [b \in 0 .. 7 |-> BarsFrom(f, g, b)]
  <2>3. ASSUME NEW b \in 0 .. 7, b >= 7 - (k + 1) PROVE h[b] = BarsFrom(f, h, b)
    <3>1. h[b] = BarsFrom(f, g, b)
      OBVIOUS
    <3>2. ASSUME NEW c \in 0 .. 7, c > b PROVE g[c] = h[c]
      <4>1. c >= 7 - k
        BY <2>0, <2>3, <3>2
      <4>2. g[c] = BarsFrom(f, g, c)
        BY <2>2, <4>1
      <4>3. h[c] = BarsFrom(f, g, c)
        OBVIOUS
      <4> QED
        BY <4>2, <4>3
    <3> HIDE DEF h
    <3>3. BarsFrom(f, g, b) = BarsFrom(f, h, b)
      BY <3>2, BarsFromSame
    <3> QED
      BY <3>1, <3>3
  <2>4. From(h, k + 1)
    BY <2>3
  <2> QED
    BY <2>4
<1>3. 7 \in S
  <2>1. S \in SUBSET Nat
    OBVIOUS
  <2> HIDE DEF S
  <2> QED
    BY <1>1, <1>2, <2>1, Induct
<1>4. PICK g : From(g, 7)
  BY <1>3
<1>5. \A b \in 0 .. 7 : g[b] = BarsFrom(f, g, b)
  BY <1>4
<1> DEFINE h == [b \in 0 .. 7 |-> g[b]]
<1>6. ASSUME NEW b \in 0 .. 7 PROVE h[b] = BarsFrom(f, h, b)
  <2>1. \A c \in 0 .. 7 : h[c] = g[c]
    OBVIOUS
  <2> HIDE DEF h
  <2>2. BarsFrom(f, g, b) = BarsFrom(f, h, b)
    BY <2>1, BarsFromSame
  <2> QED
    BY <1>5, <2>1, <2>2
<1>7. h = [b \in 0 .. 7 |-> h[b]]
  OBVIOUS
<1> HIDE DEF h
<1>8. h = [b \in 0 .. 7 |-> BarsFrom(f, h, b)]
  BY <1>6, <1>7
<1> QED
  BY <1>8

\* A sequence of registers, none of them behind one in W but for b.
NotBehind(s, b, W) == s \in Seq(Nat) /\ \A i \in 1 .. Len(s) : s[i] = b \/ s[i] - 1 \notin W

LEMMA NotBehindStep ==
  ASSUME NEW W, NEW b \in 0 .. 5, \A r \in W : r + 1 \notin W,
         NEW u \in {<<b>>, <<>>}, NEW t, NotBehind(t, IF b \in W THEN b + 2 ELSE b + 1, W)
  PROVE  NotBehind(u \o t, b, W)
<1>1. \A i \in 1 .. Len(t) : t[i] \in Nat /\ t[i] - 1 \notin W
  <2> SUFFICES ASSUME NEW i \in 1 .. Len(t) PROVE t[i] \in Nat /\ t[i] - 1 \notin W
    OBVIOUS
  <2>1. t[i] \in Nat
    BY DEF NotBehind
  <2>2. CASE b \in W
    <3>1. t[i] = b + 2 \/ t[i] - 1 \notin W
      BY <2>2 DEF NotBehind
    <3>2. b + 2 - 1 = b + 1 /\ b + 1 \notin W
      BY <2>2
    <3> QED
      BY <2>1, <3>1, <3>2
  <2>3. CASE b \notin W
    <3>1. t[i] = b + 1 \/ t[i] - 1 \notin W
      BY <2>3 DEF NotBehind
    <3>2. b + 1 - 1 = b
      OBVIOUS
    <3> QED
      BY <2>1, <2>3, <3>1, <3>2
  <2> QED
    BY <2>2, <2>3
<1>2. t \in Seq(Nat) /\ u \in Seq(Nat) /\ (u = <<>> \/ (Len(u) = 1 /\ u[1] = b))
  <2>1. t \in Seq(Nat)
    BY DEF NotBehind
  <2>2. <<b>> \in Seq(Nat) /\ <<>> \in Seq(Nat) /\ Len(<<b>>) = 1 /\ <<b>>[1] = b
    OBVIOUS
  <2> QED
    BY ONLY <2>1, <2>2, u \in {<<b>>, <<>>}
<1>3. u \o t \in Seq(Nat) /\ Len(u \o t) = Len(u) + Len(t)
  BY <1>2
<1>4. ASSUME NEW i \in 1 .. Len(u \o t) PROVE (u \o t)[i] = b \/ (u \o t)[i] - 1 \notin W
  <2>1. CASE i <= Len(u)
    BY <1>2, <1>3, <1>4, <2>1
  <2>2. CASE i > Len(u)
    <3>1. i - Len(u) \in 1 .. Len(t) /\ (u \o t)[i] = t[i - Len(u)]
      BY <1>2, <1>3, <1>4, <2>2
    <3> QED
      BY <1>1, <3>1
  <2> QED
    BY <1>2, <1>3, <2>1, <2>2
<1> QED
  BY <1>3, <1>4 DEF NotBehind

\* No BAR that is found is the upper half of one.
LEMMA BarsAreBars ==
  ASSUME NEW f, f.wide \subseteq 0 .. 5, \A r \in f.wide : r + 1 \notin f.wide
  PROVE  \A b \in DOMAIN ScanBars(f) : ScanBars(f)[b] - 1 \notin f.wide
<1> DEFINE scan == CHOOSE g : g = [b \in 0 .. 7 |-> BarsFrom(f, g, b)]
           W == f.wide
           found == scan[0]
           n == IF Len(found) < 3 THEN Len(found) ELSE 3
<1>1. scan = [b \in 0 .. 7 |-> BarsFrom(f, scan, b)]
  BY BarsExist
<1>2. ScanBars(f) = SubSeq(found, 1, n)
  BY DEF ScanBars, BarsFrom
<1> HIDE DEF scan
<1>3. \A b \in 0 .. 7 : scan[b] = BarsFrom(f, scan, b)
  BY <1>1
<1> DEFINE S == {k \in Nat : k <= 7 => \A b \in 0 .. 7 : b >= 7 - k => NotBehind(scan[b], b, W)}
<1>4. ASSUME NEW b \in 0 .. 7, \A c \in 0 .. 7 : c > b => NotBehind(scan[c], c, W)
      PROVE  NotBehind(scan[b], b, W)
  <2>1. CASE b >= 6
    <3>1. scan[b] = <<>>
      BY <1>3, <2>1 DEF BarsFrom
    <3> QED
      BY <3>1 DEF NotBehind
  <2>2. CASE b < 6
    <3> DEFINE c == IF b \in W THEN b + 2 ELSE b + 1
    <3>1. c \in 0 .. 7 /\ c > b
      BY <2>2
    <3>2. PICK u \in {<<b>>, <<>>} : scan[b] = u \o scan[c]
      <4> DEFINE used == f.size[b + 1] > 0 \/ (b \in W /\ b < 5 /\ f.size[b + 2] > 0)
                 u == IF used THEN <<b>> ELSE <<>>
      <4>1. ~(b >= 6)
        BY <2>2
      <4>2. scan[b] = u \o scan[c]
        BY <1>3, <4>1, Zenon DEF BarsFrom
      <4> HIDE DEF used
      <4>3. u \in {<<b>>, <<>>}
        OBVIOUS
      <4> QED
        BY <4>2, <4>3, Zenon
    <3>3. NotBehind(scan[c], c, W)
      BY <1>4, <3>1
    <3>4. b \in 0 .. 5 /\ \A r \in W : r + 1 \notin W
      BY <2>2
    <3> QED
      BY <3>2, <3>3, <3>4, NotBehindStep, Zenon
  <2> QED
    BY <2>1, <2>2
<1>5. 0 \in S
  <2>1. ASSUME NEW b \in 0 .. 7, b >= 7 PROVE NotBehind(scan[b], b, W)
    BY <1>4, <2>1
  <2> QED
    BY <2>1
<1>6. ASSUME NEW k \in S PROVE k + 1 \in S
  <2>1. k \in Nat /\ (k + 1 <= 7 => \A b \in 0 .. 7 : b >= 7 - k => NotBehind(scan[b], b, W))
    OBVIOUS
  <2> HIDE DEF S
  <2>2. ASSUME NEW b \in 0 .. 7, k + 1 <= 7, b >= 7 - (k + 1) PROVE NotBehind(scan[b], b, W)
    <3>1. \A c \in 0 .. 7 : c > b => c >= 7 - k
      BY <2>1, <2>2
    <3> QED
      BY <1>4, <2>1, <2>2, <3>1
  <2> QED
    BY <2>1, <2>2 DEF S
<1>7. 7 \in S
  <2>1. S \in SUBSET Nat
    OBVIOUS
  <2> HIDE DEF S
  <2> QED
    BY <1>5, <1>6, <2>1, Induct
<1>8. NotBehind(found, 0, W)
  BY <1>7
<1> HIDE DEF found
<1>9. /\ found \in Seq(Nat) /\ n \in 0 .. Len(found)
      /\ \A i \in 1 .. Len(found) : found[i] - 1 \notin W
  <2>1. found \in Seq(Nat) /\ \A i \in 1 .. Len(found) : found[i] = 0 \/ found[i] - 1 \notin W
    BY <1>8 DEF NotBehind
  <2>2. 0 - 1 \notin W
    OBVIOUS
  <2>3. Len(found) \in Nat
    BY <2>1
  <2>4. n \in 0 .. Len(found)
    BY <2>3
  <2>5. \A i \in 1 .. Len(found) : found[i] - 1 \notin W
    BY ONLY <2>1, <2>2
  <2> QED
    BY <2>1, <2>4, <2>5
<1> HIDE DEF n
<1>10. DOMAIN SubSeq(found, 1, n) = 1 .. n /\ \A i \in 1 .. n : SubSeq(found, 1, n)[i] = found[i]
  BY <1>9
<1>11. \A i \in 1 .. n : i \in 1 .. Len(found)
  BY <1>9
<1> QED
  BY ONLY <1>2, <1>9, <1>10, <1>11, Zenon

-----------------------------------------------------------------------------
(* The devices and their names.                                            *)

\* Each device is a GPU of the bus, in the order of the scan, with a PCI handle
\* to its own function or none.
CardOf(d) ==
  /\ devices[d].at \in 1 .. Len(bus) /\ bus[devices[d].at].gpu
  /\ devices[d].index = d - 1 /\ devices[d].handle \in {0, devices[d].at}
  /\ devices[d].bars = ScanBars(bus[devices[d].at])

Cards ==
  /\ bus \in Buses
  /\ pc \in {"unloaded", "pci", "pool", "rm", "control"} => devices = <<>>
  /\ pc = "scan" => Len(devices) <= next - 1
  /\ Len(devices) <= Len(bus)
  /\ \A d \in 1 .. Len(devices) : CardOf(d)

NameOf(i) == IF i = 1 THEN Control ELSE Decimal[i - 2]

\* Each entry is empty or the name of its position.
Names ==
  pc \in {"names", "loaded"} =>
    /\ names = [i \in 1 .. 1 + Len(devices) |-> names[i]]
    /\ \A i \in 1 .. 1 + Len(devices) : names[i] \in {NoName, NameOf(i)}

\* A function has its place for itself, so a handle or an access is to it.
LEMMA OwnPlace ==
  ASSUME bus \in Buses, NEW n \in 1 .. Len(bus)
  PROVE  PciHandle(n) \subseteq {0, n} /\ PciConfig(n) = {n}
<1>1. {i \in 1 .. Len(bus) : bus[i].place = bus[n].place} = {n}
  BY BusesAssumption
<1>2. (CHOOSE i \in {n} : \A j \in {n} : i <= j) = n
  OBVIOUS
<1> QED
  BY <1>1, <1>2 DEF PciHandle, PciConfig

LEMMA CardsStep ==
  ASSUME Stage, Private, Cards, [Next]_vars
  PROVE  Cards'
<1>0. IsASequence(devices) /\ Len(devices) \in Nat /\ next \in Nat
  BY AppendFacts DEF Private
<1>1. ASSUME UNCHANGED <<bus, devices>>,
             pc' = pc \/ pc' = "scan" \/ pc' \notin {"unloaded", "pci", "pool", "rm", "control", "scan"}
                \/ devices = <<>>,
             pc' = "scan" => Len(devices) <= next' - 1
      PROVE  Cards'
  BY <1>1 DEF Cards, CardOf
<1>2. CASE UNCHANGED vars
  BY <1>1, <1>2 DEF vars, Cards
<1>3. CASE InitPci \/ InitPool \/ InitRm
  BY <1>1, <1>3 DEF InitPci, InitPool, InitRm, Continue, held, Cards
<1>4. CASE InitControl
  <2>1. devices = <<>> /\ Len(<<>>) = 0
    BY <1>4 DEF InitControl, Cards
  <2> QED
    BY <1>1, <1>4, <2>1 DEF InitControl, Continue, held
<1>5. CASE ProbeFails
  BY <1>0, <1>1, <1>5 DEF ProbeFails, Cards
<1>6. CASE Probe
  <2> DEFINE Card(h) == [at |-> next, index |-> Len(devices), handle |-> h, bars |-> ScanBars(bus[next])]
  <2>1. PICK h \in PciHandle(next) : devices' = Append(devices, Card(h))
    BY <1>6 DEF Probe
  <2>2. /\ pc = "scan" /\ pc' = "scan" /\ next \in 1 .. Len(bus) /\ next <= Len(bus)
        /\ bus[next].gpu /\ next' = next + 1 /\ bus' = bus /\ bus \in Buses
        /\ Len(devices) <= next - 1 /\ Len(bus) \in Nat
    <3>1. pc = "scan" /\ bus[next].gpu /\ next' = next + 1 /\ bus' = bus /\ next <= Len(bus) /\ pc' = pc
      BY <1>6 DEF Probe
    <3>2. bus \in Buses /\ Len(devices) <= next - 1
      BY <3>1 DEF Cards
    <3>3. Len(bus) \in Nat
      BY <3>2, BusesAssumption, MaxUint32Assumption
    <3> QED
      BY <1>0, <3>1, <3>2, <3>3
  <2>3. h \in {0, next}
    BY <2>1, <2>2, OwnPlace
  <2> DEFINE card == Card(h)
  <2>4. /\ card.at = next /\ card.index = Len(devices) /\ card.handle = h
        /\ card.bars = ScanBars(bus[next])
    OBVIOUS
  <2> HIDE DEF card
  <2>5. /\ Len(devices') = Len(devices) + 1 /\ devices'[Len(devices) + 1] = card
        /\ \A i \in 1 .. Len(devices) : devices'[i] = devices[i]
    BY <1>0, <2>1, AppendFacts DEF card
  <2>6. ASSUME NEW d \in 1 .. Len(devices') PROVE CardOf(d)'
    <3>1. CASE d = Len(devices) + 1
      BY <1>0, <2>2, <2>3, <2>4, <2>5, <3>1 DEF CardOf
    <3>2. CASE d \in 1 .. Len(devices)
      <4>1. devices'[d] = devices[d] /\ bus' = bus
        BY <2>2, <2>5, <3>2
      <4>2. CardOf(d)
        BY <3>2 DEF Cards
      <4> QED
        BY <4>1, <4>2 DEF CardOf
    <3> QED
      BY <1>0, <2>5, <3>1, <3>2
  <2> QED
    BY <1>0, <2>2, <2>5, <2>6 DEF Cards
<1>7. CASE ProbeNotAdded \/ InitNames \/ SetName \/ InitDone \/ DeleteDevice \/ DeleteControl \/ ShutdownRm
  BY <1>1, <1>7 DEF ProbeNotAdded, InitNames, SetName, InitDone, DeleteDevice, DeleteControl,
                    ShutdownRm, Continue, held
<1>8. CASE DeleteRest
  <2>1. devices' = <<>> /\ bus' = bus /\ pc' = "unloaded"
    BY <1>8 DEF DeleteRest, Continue
  <2>2. Len(bus) \in Nat /\ Len(<<>>) = 0
    BY BusesAssumption, MaxUint32Assumption DEF Cards
  <2> QED
    BY <2>1, <2>2 DEF Cards
<1>9. ASSUME NEW d, GetModule(d) \/ PutModule(d), UNCHANGED instance PROVE Cards'
  BY <1>1, <1>9 DEF GetModule, PutModule, Continue, instance, held, Cards
<1>10. CASE InitDriver \/ UninitDriver \/ Kms
  <2>1. CASE KmsGotModule \/ KmsLoad \/ KmsUnload
    BY <1>1, <2>1 DEF KmsGotModule, KmsLoad, KmsUnload, instance, Cards
  <2>2. CASE InitDriver \/ UninitDriver \/ KmsInit \/ KmsPutModule
    BY <1>9, <2>2 DEF InitDriver, UninitDriver, KmsInit, KmsPutModule, instance
  <2> QED
    BY <1>10, <2>1, <2>2 DEF Kms
<1> QED
  BY <1>2, <1>3, <1>4, <1>5, <1>6, <1>7, <1>8, <1>10 DEF Next, ModuleInit, ModuleUninit

LEMMA NamesStep ==
  ASSUME Private, Names, [Next]_vars
  PROVE  Names'
<1>1. ASSUME pc' \in {"names", "loaded"} => pc \in {"names", "loaded"} /\ UNCHANGED <<devices, names>>
      PROVE  Names'
  BY <1>1 DEF Names, NameOf
<1>2. CASE UNCHANGED vars
  BY <1>1, <1>2 DEF vars
<1>3. CASE ModuleInit
  <2>1. CASE InitPci \/ InitPool \/ InitRm \/ InitControl \/ ProbeFails \/ Probe \/ ProbeNotAdded
    BY <1>1, <2>1 DEF InitPci, InitPool, InitRm, InitControl, ProbeFails, Probe, ProbeNotAdded, Continue
  <2>2. CASE InitNames
    <3>1. CASE pc' = "delete"
      BY <1>1, <3>1
    <3>2. CASE names' = [i \in 1 .. 1 + Len(devices) |-> NoName] /\ devices' = devices
      BY <3>2 DEF Names
    <3> QED
      BY <2>2, <3>1, <3>2 DEF InitNames, Continue
  <2>3. CASE SetName
    <3>1. CASE UNCHANGED names
      BY <1>1, <2>3, <3>1 DEF SetName
    <3>2. CASE names' = [names EXCEPT ![next] = NameOf(next)]
      <4>0. pc = "names" /\ devices' = devices
        BY <2>3 DEF SetName
      <4> DEFINE N == 1 + Len(devices)
      <4>1. names = [i \in 1 .. N |-> names[i]] /\ \A i \in 1 .. N : names[i] \in {NoName, NameOf(i)}
        BY <4>0 DEF Names
      <4> HIDE DEF N
      <4>2. DOMAIN names = 1 .. N
        BY <4>1
      <4>3. /\ names' = [i \in 1 .. N |-> names'[i]]
            /\ \A i \in 1 .. N : names'[i] = IF i = next THEN NameOf(next) ELSE names[i]
        BY <3>2, <4>2
      <4>4. \A i \in 1 .. N : names'[i] \in {NoName, NameOf(i)}
        BY <4>1, <4>3
      <4>5. N' = N /\ \A i : NameOf(i)' = NameOf(i)
        BY <4>0 DEF N, NameOf
      <4> QED
        BY <4>3, <4>4, <4>5 DEF Names, N
    <3> QED
      BY <2>3, <3>1, <3>2 DEF SetName, NameOf
  <2>4. CASE InitDone
    BY <1>1, <2>4 DEF InitDone
  <2> QED
    BY <1>3, <2>1, <2>2, <2>3, <2>4 DEF ModuleInit
<1>4. CASE ModuleUninit
  BY <1>1, <1>4 DEF ModuleUninit, DeleteDevice, DeleteControl, ShutdownRm, DeleteRest, Continue
<1>5. CASE InitDriver \/ UninitDriver \/ Kms
  <2>1. UNCHANGED instance /\ (pc' \in {"names", "loaded"} => pc \in {"names", "loaded"})
    BY <1>5 DEF InitDriver, UninitDriver, GetModule, PutModule, Kms, KmsInit, KmsGotModule, KmsLoad,
                KmsUnload, KmsPutModule, Continue
  <2> QED
    BY <1>1, <2>1 DEF instance
<1> QED
  BY <1>2, <1>3, <1>4, <1>5 DEF Next

THEOREM NameInvariance == Spec => [](DriverInv /\ Cards /\ Names)
<1>1. Init => Cards /\ Names
  <2> SUFFICES ASSUME Init PROVE Cards /\ Names
    OBVIOUS
  <2>1. bus \in Buses /\ devices = <<>> /\ pc = "unloaded" /\ Len(<<>>) = 0
    BY DEF Init
  <2>2. Len(bus) \in Nat
    BY <2>1, BusesAssumption, MaxUint32Assumption
  <2> QED
    BY <2>1, <2>2 DEF Cards, Names
<1>2. DriverInv /\ Cards /\ Names /\ [Next]_vars => Cards' /\ Names'
  BY CardsStep, NamesStep DEF DriverInv
<1> QED
  BY <1>1, <1>2, DriverInvariance, PTL DEF Spec

\* The name of a device opens it.
LEMMA NameOpens ==
  ASSUME Cards, Len(devices) \in Nat, NEW n \in 0 .. Len(devices) - 1
  PROVE  Decimal[n] # NoName /\ FindDevice(Decimal[n]) = n + 1
<1>1. Len(bus) \in 0 .. MaxUint32 /\ Len(devices) <= Len(bus)
  BY BusesAssumption DEF Cards
<1>2. n \in 0 .. MaxUint32 /\ n # -1 /\ ~(n >= Len(devices))
  BY <1>1, MaxUint32Assumption
<1>3. ParseDeviceName(Decimal[n]) = n /\ Decimal[n] # Control /\ Decimal[n] # NoName
  BY <1>2, ParseOfDecimal
<1> QED
  BY <1>2, <1>3 DEF FindDevice

LEMMA HooksAreThere == {"control", "select", "deselect"} \subseteq GetDevfsNodeClass(HandleMethods)
BY DEF GetDevfsNodeClass, HandleMethods, Optional

\* A name that is no other way to write a number opens nothing but its device.
LEMMA OpenIsCanonical ==
  ASSUME NEW s \in Seq(0 .. 10), Open(s).class # "ENOENT"
  PROVE  s = Decimal[Open(s).instance - 1]
<1> DEFINE d == FindDevice(s)
           n == ParseDeviceName(s)
<1>1. Open(s).instance = d /\ d # -1
  BY DEF Open
<1>2. s # Control
  <2>1. \A i \in 1 .. Len(s) : s[i] # 11
    OBVIOUS
  <2>2. Len(<<11>>) = 1 /\ <<11>>[1] = 11 /\ 1 \in 1 .. 1
    OBVIOUS
  <2> QED
    BY <2>1, <2>2 DEF Control
<1>3. n # -1 /\ d = n + 1
  BY <1>1, <1>2 DEF FindDevice
<1>4. s \in Seq(Nat)
  OBVIOUS
<1> HIDE DEF d, n
<1>5. n \in 0 .. MaxUint32 /\ s = Decimal[n]
  BY <1>3, <1>4, ParseIs, Zenon DEF n
<1>6. d - 1 = n
  BY <1>3, <1>5, MaxUint32Assumption
<1> QED
  BY <1>1, <1>5, <1>6

LEMMA NamesAreRight ==
  ASSUME IsASequence(devices), Cards, Names
  PROVE  NamesOpenDevices
<1>0. Len(devices) \in Nat /\ DOMAIN devices = 1 .. Len(devices)
  BY DEF IsASequence
<1> SUFFICES ASSUME pc = "loaded" PROVE NamesOpenDevices
  BY DEF NamesOpenDevices
<1> DEFINE N == Len(devices)
<1>1. ASSUME NEW i \in PublishDevices
      PROVE  FindDevice(names[i]) = i - 1 /\ {"control", "select", "deselect"} \subseteq Open(names[i]).hooks
  <2>1. names = [j \in 1 .. 1 + N |-> names[j]] /\ \A j \in 1 .. 1 + N : names[j] \in {NoName, NameOf(j)}
    BY DEF Names
  <2>2. Len(names) = 1 + N
    <3> HIDE DEF N
    <3> QED
      BY <1>0, <2>1 DEF N
  <2>3. i \in 1 .. 1 + N /\ names[i] # NoName /\ names[i] = NameOf(i)
    <3>1. i \in 1 .. 1 + N /\ i \in 1 .. i
      BY <1>0, <2>2 DEF PublishDevices
    <3>2. names[i] # NoName
      BY <3>1 DEF PublishDevices
    <3> QED
      BY <2>1, <3>1, <3>2
  <2>4. FindDevice(names[i]) = i - 1
    <3>1. CASE i = 1
      BY <2>3, <3>1 DEF NameOf, FindDevice
    <3>2. CASE i # 1
      <4>1. i - 2 \in 0 .. N - 1 /\ names[i] = Decimal[i - 2]
        BY <1>0, <2>3, <3>2 DEF NameOf
      <4>2. FindDevice(names[i]) = i - 2 + 1
        BY <1>0, <4>1, NameOpens
      <4> QED
        BY <2>3, <4>2
    <3> QED
      BY <3>1, <3>2
  <2>5. FindDevice(names[i]) # -1
    BY <1>0, <2>3, <2>4
  <2>6. Open(names[i]).hooks = GetDevfsNodeClass(HandleMethods)
    BY <2>5 DEF Open
  <2> QED
    BY <2>4, <2>6, HooksAreThere
<1>2. ASSUME NEW s \in UNION {[1 .. n -> 0 .. 10] : n \in 0 .. 2}, Open(s).class # "ENOENT"
      PROVE  s = Decimal[Open(s).instance - 1]
  <2>1. PICK n \in 0 .. 2 : s \in [1 .. n -> 0 .. 10]
    OBVIOUS
  <2>2. s \in Seq(0 .. 10)
    BY <2>1, n \in Nat
  <2> QED
    BY <1>2, <2>2, OpenIsCanonical
<1>3. ASSUME NEW d \in DOMAIN devices
      PROVE  LET f == bus[devices[d].at] IN
             /\ f.gpu /\ devices[d].index = d - 1
             /\ devices[d].handle # 0 => PciConfig(devices[d].handle) = {devices[d].at}
             /\ \A b \in DOMAIN devices[d].bars : devices[d].bars[b] - 1 \notin f.wide
  <2> DEFINE f == bus[devices[d].at]
  <2>1. /\ devices[d].at \in 1 .. Len(bus) /\ f.gpu /\ devices[d].index = d - 1
        /\ devices[d].handle \in {0, devices[d].at} /\ devices[d].bars = ScanBars(f) /\ bus \in Buses
    BY <1>0 DEF Cards, CardOf
  <2>2. PciConfig(devices[d].at) = {devices[d].at}
    BY <2>1, OwnPlace
  <2>3. f.wide \subseteq 0 .. 5 /\ \A r \in f.wide : r + 1 \notin f.wide
    BY <2>1, BusesAssumption
  <2> HIDE DEF f
  <2>4. \A b \in DOMAIN ScanBars(f) : ScanBars(f)[b] - 1 \notin f.wide
    BY <2>3, BarsAreBars
  <2> QED
    BY <2>1, <2>2, <2>4 DEF f
<1>4. ASSUME NEW i \in DOMAIN CardInfo(N), CardInfo(N)[i].valid
      PROVE  LET d == Open(Decimal[CardInfo(N)[i].minor])
             IN d.class = "gpu" /\ bus[devices[d.instance].at].place[1] = CardInfo(N)[i].slot
  <2> DEFINE card == CardInfo(N)[i]
             dev == devices[i]
  <2>1. CardInfo(N) = [j \in 1 .. N |-> LET d == devices[j] IN
          IF bus[d.at].excluded THEN NoCard
          ELSE [valid |-> TRUE, slot |-> bus[d.at].place[1], minor |-> d.index, bars |-> SubSeq(d.bars, 1, 2)]]
    BY <1>0 DEF CardInfo
  <2>2. i \in 1 .. N
    BY <2>1
  <2>3. card = IF bus[dev.at].excluded THEN NoCard
               ELSE [valid |-> TRUE, slot |-> bus[dev.at].place[1], minor |-> dev.index, bars |-> SubSeq(dev.bars, 1, 2)]
    BY <2>1, <2>2
  <2>4. ~bus[dev.at].excluded
    BY <1>4, <2>3 DEF NoCard
  <2>5. card.slot = bus[dev.at].place[1] /\ card.minor = dev.index
    BY <2>3, <2>4
  <2> HIDE DEF card
  <2>6. dev.index = i - 1
    BY <2>2 DEF Cards, CardOf
  <2>7. i - 1 \in 0 .. N - 1 /\ i - 1 + 1 = i /\ i # 0 /\ i # -1
    BY <1>0, <2>2
  <2>8. FindDevice(Decimal[card.minor]) = i
    BY <1>0, <2>5, <2>6, <2>7, NameOpens
  <2>9. Open(Decimal[card.minor]).class = "gpu" /\ Open(Decimal[card.minor]).instance = i
    BY <2>7, <2>8 DEF Open
  <2> QED
    BY <2>5, <2>9 DEF card
<1> QED
  BY <1>1, <1>2, <1>3, <1>4 DEF NamesOpenDevices

\* Each published name opens its device and no other name opens one; a device is
\* a GPU of the bus with its own registers, and the number that is told of a
\* card opens it.
THEOREM NamesCorrect == Spec => []NamesOpenDevices
<1>1. DriverInv /\ Cards /\ Names => NamesOpenDevices
  BY NamesAreRight DEF DriverInv, Private
<1> QED
  BY <1>1, NameInvariance, PTL

\* And no other name of any length does: whatever opens a GPU is how the number
\* of that GPU is written, so no two names open the same one.
THEOREM OneNameEach ==
  ASSUME NEW s \in Seq(0 .. 10), NEW t \in Seq(0 .. 10),
         Open(s).class # "ENOENT", Open(s).instance = Open(t).instance, Open(t).class # "ENOENT"
  PROVE  s = t
BY OpenIsCanonical

=============================================================================
