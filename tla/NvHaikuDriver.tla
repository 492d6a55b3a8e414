---------------------------- MODULE NvHaikuDriver ----------------------------
(***************************************************************************)
(* How the two drivers of the add-on come and go: nvidia_gsp (Driver.cpp), *)
(* which is also the module NvidiaModule.cpp, and nvidia-modeset           *)
(* (KmsDriver.cpp), which holds a reference to that module.                *)
(*                                                                         *)
(* The kernel's module manager is as get_module() and put_module() promise:*)
(* the first reference runs module_init, the last put runs module_uninit,  *)
(* and other callers wait meanwhile.  Every step of Init() that can fail   *)
(* may fail; the destructor then takes back what was done so far.          *)
(***************************************************************************)
EXTENDS Integers, FiniteSets, SequencesExt, NvFirmware

CONSTANTS
  Buses,       \* sequences of PCI functions, as get_nth_pci_info() lists them
  MemoryFails, \* TRUE: strdup() of a device name may fail
  MaxUint32,   \* bound of ParseUint32()
  DataDirectories \* what the four data directories may be

ASSUME MemoryAssumption == MemoryFails \in BOOLEAN
ASSUME MaxUint32Assumption == MaxUint32 \in Nat

\* external: a PCI function has a place of its own; the upper half of a 64-bit BAR
\* is no BAR.
ASSUME BusesAssumption ==
  \A b \in Buses : Len(b) \in 0 .. MaxUint32 /\ \A i \in 1 .. Len(b) :
    /\ \A j \in 1 .. Len(b) : b[i].place = b[j].place => i = j
    /\ b[i].wide \subseteq 0 .. 5 /\ \A r \in b[i].wide : r + 1 \notin b[i].wide

\* external: there are four data directories, and read_pos() reads no more of a
\* file than there is.
ASSUME DirectoriesAssumption ==
  \A dirs \in DataDirectories : DOMAIN dirs = 1 .. 4 /\ \A i \in 1 .. 4 :
    /\ dirs[i].length \in Nat
    /\ \A n \in DOMAIN dirs[i].files : LET f == dirs[i].files[n] IN f.size \in Nat /\ f.read \in 0 .. f.size

VARIABLES
  bus,      \* what is plugged in
  pc,       \* where module_init or module_uninit is
  caller,   \* the driver whose get_module() runs module_init
  holders,  \* drivers that hold the nvidia module
  next,     \* i of the loop that Init() or the destructor is in
  pci,      \* references to the PCI module
  pool,     \* blocks in fIntrSafePool
  rm,       \* rm_init_rm() is done
  initRmDone, \* fInitRmDone
  locks,    \* event locks of the control device, 1 while it exists
  private,  \* PCI functions the RM keeps private state for
  devices,  \* fDevices
  names,    \* fNames, without the nullptr at its end
  kms,      \* where nvidia-modeset is
  kmsLoaded \* NVKMS is loaded

held == <<pci, pool, rm, locks, private>>
vars == <<bus, pc, caller, holders, next, held, initRmDone, devices, names, kms, kmsLoaded>>

Drivers == {"nvidia_gsp", "nvidia-modeset"}
NoName == <<>>

-----------------------------------------------------------------------------
(* Device names: what follows graphics/nvidia, as a sequence of characters. *)
(* 0 .. 9 are the digits, 10 is any other character.                        *)

Control == <<11>>  \* nvidiactl

Decimal[n \in Nat] == IF n < 10 THEN <<n>> ELSE Append(Decimal[n \div 10], n % 10)

DigitsOf(s) == {i \in 1 .. Len(s) : \A j \in 1 .. i : s[j] \in 0 .. 9}
Value(s) ==
  LET value[i \in 0 .. Len(s)] == IF i = 0 THEN 0 ELSE 10 * value[i - 1] + s[i]
  IN value[Len(s)]

\* Mutant: leading zeroes are allowed.
ParseDeviceNameZeroes(s) ==
  LET n == Cardinality(DigitsOf(s)) IN
  IF n = 0 \/ n # Len(s) \/ Value(s) > MaxUint32 THEN -1 ELSE Value(s)

\* ParseUint32 wants "0" or a first digit that is not 0, and takes the digits
\* that strtol takes; the name must end there.
ParseDeviceName(s) ==
  LET digits == SubSeq(s, 1, Cardinality(DigitsOf(s))) IN
  IF /\ s = <<0>> \/ (s # <<>> /\ s[1] \in 1 .. 9)
     /\ Value(digits) <= MaxUint32
     /\ digits = s
  THEN Value(digits) ELSE -1

\* The position in fDevices of a name, 0 for the control device, -1 for none.
FindDevice(s) ==
  IF s = Control THEN 0
  ELSE LET index == ParseDeviceName(s) IN
       IF index = -1 \/ index >= Len(devices) THEN -1 ELSE index + 1

\* The hooks of a class of device files: three that each class has, and one for
\* each method of the handle whose signature fits.
Optional == {"read", "write", "control", "select", "deselect"}
GetDevfsNodeClass(methods) == {"open", "close", "free"} \cup (methods \cap Optional)

\* What NvHaikuBaseDeviceHandle has, public and for both classes.
HandleMethods == {"close", "control", "select", "deselect"}

\* The class of the node that has a name, its hooks, its instance.
Open(s) ==
  LET d == FindDevice(s) IN
  [class |-> CASE d = -1 -> "ENOENT" [] d = 0 -> "control" [] OTHER -> "gpu",
   hooks |-> IF d = -1 THEN {} ELSE GetDevfsNodeClass(HandleMethods), instance |-> d]

\* devfs reads the names up to the first nullptr.
PublishDevices ==
  {i \in 1 .. Len(names) : \A j \in 1 .. i : names[j] # NoName}

-----------------------------------------------------------------------------
(* The BARs of a device: six registers, a 64-bit BAR takes two of them.    *)

\* The registers of the BARs with a size, in order, for as many BARs as the
\* RM has room for; nv->regs is the first, nv->fb the second.
ScanBars(f) ==
  LET scan[b \in 0 .. 7] ==
        IF b >= 6 THEN <<>>
        ELSE LET wide == b \in f.wide
                 used == f.size[b + 1] > 0 \/ (wide /\ b < 5 /\ f.size[b + 2] > 0)
             IN (IF used THEN <<b>> ELSE <<>>) \o scan[IF wide THEN b + 2 ELSE b + 1]
  IN LET found == scan[0] IN SubSeq(found, 1, IF Len(found) < 3 THEN Len(found) ELSE 3)

\* What os_pci_init_handle() finds for the n-th function: the first that is
\* listed at its place, 0 for nullptr.
PciHandle(n) ==
  LET at == {i \in 1 .. Len(bus) : bus[i].place = bus[n].place}
  IN {CHOOSE i \in at : \A j \in at : i <= j} \cup (IF MemoryFails THEN {0} ELSE {})

\* os_pci_read_* and os_pci_write_*: the functions whose registers an access
\* through the handle of the n-th function reads or writes.
PciConfig(n) == {i \in 1 .. Len(bus) : bus[i].place = bus[n].place}

\* NV_ESC_CARD_INFO on the control device, with room for so many cards: a
\* card the RM excludes leaves its entry blank.
NoCard == [valid |-> FALSE]
CardInfo(room) ==
  IF room < Len(devices) THEN <<>> \* EINVAL
  ELSE [i \in 1 .. Len(devices) |-> LET d == devices[i] IN
         IF bus[d.at].excluded THEN NoCard
         ELSE [valid |-> TRUE, slot |-> bus[d.at].place[1], minor |-> d.index, bars |-> SubSeq(d.bars, 1, 2)]]

-----------------------------------------------------------------------------
(* module_init: NvHaikuDriver::Init().                                      *)

Continue(to) == pc' = to /\ next' = 1

\* get_module() of the nvidia module.
GetModule(d) ==
  /\ \/ /\ pc = "unloaded"
        /\ pc' = "pci" /\ next' = 1 /\ caller' = d
        /\ UNCHANGED holders
     \/ /\ pc = "loaded"
        /\ holders' = holders \cup {d}
        /\ UNCHANGED <<pc, next, caller>>

InitPci ==
  /\ pc = "pci"
  /\ \/ pci' = pci + 1 /\ Continue("pool")
     \/ UNCHANGED pci /\ Continue("delete")
  /\ UNCHANGED <<bus, caller, holders, pool, rm, locks, private, initRmDone, devices, names, kms, kmsLoaded>>

InitPool ==
  /\ pc = "pool"
  /\ pool' = TRUE /\ Continue("rm")
  /\ UNCHANGED <<bus, caller, holders, pci, rm, locks, private, initRmDone, devices, names, kms, kmsLoaded>>

\* Mutant: fInitRmDone is not set.
InitRmUnflagged ==
  /\ pc = "rm"
  /\ \/ rm' = TRUE /\ Continue("control")
     \/ UNCHANGED rm /\ Continue("delete")
  /\ UNCHANGED <<bus, caller, holders, pci, pool, locks, private, initRmDone, devices, names, kms, kmsLoaded>>

InitRm ==
  /\ pc = "rm"
  /\ \/ rm' = TRUE /\ initRmDone' = TRUE /\ Continue("control")
     \/ UNCHANGED <<rm, initRmDone>> /\ Continue("delete")
  /\ UNCHANGED <<bus, caller, holders, pci, pool, locks, private, devices, names, kms, kmsLoaded>>

InitControl ==
  /\ pc = "control"
  /\ \/ locks' = locks + 1 /\ Continue("scan")
     \/ UNCHANGED locks /\ Continue("delete")
  /\ UNCHANGED <<bus, caller, holders, pci, pool, rm, private, initRmDone, devices, names, kms, kmsLoaded>>

\* Probe() refuses a function, or fails: the scan goes on.
ProbeFails ==
  /\ pc = "scan" /\ next <= Len(bus)
  /\ next' = next + 1
  /\ UNCHANGED <<bus, pc, caller, holders, held, initRmDone, devices, names, kms, kmsLoaded>>

\* A GPU: rm_init_private_state(), the next index, an entry in fDevices.
Probe ==
  /\ pc = "scan" /\ next <= Len(bus) /\ bus[next].gpu
  /\ \E handle \in PciHandle(next) :
       devices' = Append(devices, [at |-> next, index |-> Len(devices), handle |-> handle, bars |-> ScanBars(bus[next])])
  /\ private' = private \cup {next}
  /\ next' = next + 1
  /\ UNCHANGED <<bus, pc, caller, holders, pci, pool, rm, locks, initRmDone, names, kms, kmsLoaded>>

\* fDevices cannot grow: the deleter of the device takes its state back.
ProbeNotAdded ==
  /\ pc = "scan" /\ next <= Len(bus) /\ bus[next].gpu
  /\ Continue("delete")
  /\ UNCHANGED <<bus, caller, holders, held, initRmDone, devices, names, kms, kmsLoaded>>

\* The scan ends; fDeviceNamesArray.Init().
InitNames ==
  /\ pc = "scan" /\ next > Len(bus)
  /\ \/ names' = [i \in 1 .. 1 + Len(devices) |-> NoName] /\ Continue("names")
     \/ UNCHANGED names /\ Continue("delete")
  /\ UNCHANGED <<bus, caller, holders, held, initRmDone, devices, kms, kmsLoaded>>

\* SetName() of one entry; its result is not looked at.
SetName ==
  /\ pc = "names" /\ next <= Len(names)
  /\ \/ names' = [names EXCEPT ![next] = IF next = 1 THEN Control ELSE Decimal[next - 2]]
     \/ MemoryFails /\ UNCHANGED names
  /\ next' = next + 1
  /\ UNCHANGED <<bus, pc, caller, holders, pci, pool, rm, locks, private, initRmDone, devices, kms, kmsLoaded>>

InitDone ==
  /\ pc = "names" /\ next > Len(names)
  /\ Continue("loaded")
  /\ holders' = holders \cup {caller}
  /\ UNCHANGED <<bus, caller, held, initRmDone, devices, names, kms, kmsLoaded>>

-----------------------------------------------------------------------------
(* module_uninit, and module_init when Init() fails: ~NvHaikuDriver().      *)

PutModule(d) ==
  /\ pc = "loaded"
  /\ holders' = holders \ {d}
  /\ IF holders' = {} THEN Continue("delete") ELSE UNCHANGED <<pc, next>>

DeleteDevice ==
  /\ pc = "delete" /\ next <= Len(devices)
  /\ private' = private \ {devices[next].at}
  /\ next' = next + 1
  /\ UNCHANGED <<bus, pc, caller, holders, pci, pool, rm, locks, initRmDone, devices, names, kms, kmsLoaded>>

\* fControlDevice is not nullptr exactly when its event locks exist.
DeleteControl ==
  /\ pc = "delete" /\ next > Len(devices)
  /\ locks' = 0
  /\ Continue("shutdown")
  /\ UNCHANGED <<bus, caller, holders, pci, pool, rm, private, initRmDone, devices, names, kms, kmsLoaded>>

ShutdownRm ==
  /\ pc = "shutdown"
  /\ rm' = (rm /\ ~initRmDone)
  /\ Continue("reclaim")
  /\ UNCHANGED <<bus, caller, holders, pci, pool, locks, private, initRmDone, devices, names, kms, kmsLoaded>>

\* fIntrSafePool.ReclaimAll(), put_module() of the PCI module, the members.
DeleteRest ==
  /\ pc = "reclaim"
  /\ pool' = FALSE
  /\ pci' = IF pci > 0 THEN pci - 1 ELSE 0
  /\ names' = <<>> /\ devices' = <<>> /\ initRmDone' = FALSE
  /\ Continue("unloaded")
  /\ UNCHANGED <<bus, caller, holders, rm, locks, private, kms, kmsLoaded>>

-----------------------------------------------------------------------------
(* The drivers' init and uninit hooks.                                      *)

instance == <<bus, held, initRmDone, devices, names>>

InitDriver == "nvidia_gsp" \notin holders /\ GetModule("nvidia_gsp") /\ UNCHANGED <<instance, kms, kmsLoaded>>
UninitDriver == /\ "nvidia_gsp" \in holders /\ PutModule("nvidia_gsp")
                /\ UNCHANGED <<caller, instance, kms, kmsLoaded>>

\* NvHaikuKmsDriver::Init().
KmsInit ==
  /\ kms = "out"
  /\ GetModule("nvidia-modeset")
  /\ kms' = "waits"
  /\ UNCHANGED <<instance, kmsLoaded>>

\* get_module() is back, with the module or without.
KmsGotModule ==
  /\ kms = "waits" /\ (pc = "loaded" \/ caller # "nvidia-modeset" \/ pc = "unloaded")
  /\ kms' = IF "nvidia-modeset" \in holders THEN "queue" ELSE "out"
  /\ UNCHANGED <<pc, next, caller, holders, instance, kmsLoaded>>

\* The timer queue, then nvKmsModuleLoad() under the driver's lock.
KmsLoad ==
  /\ kms = "queue"
  /\ \/ kmsLoaded' = TRUE /\ kms' = "in"
     \/ UNCHANGED kmsLoaded /\ kms' = "put"
  /\ UNCHANGED <<pc, next, caller, holders, instance>>

\* Mutant: the module is put before NVKMS is unloaded.
KmsUnloadLate ==
  /\ kms = "in"
  /\ kms' = "put"
  /\ UNCHANGED <<pc, next, caller, holders, instance, kmsLoaded>>

\* ~NvHaikuKmsDriver(): NVKMS first, then the module.
KmsUnload ==
  /\ kms = "in"
  /\ kmsLoaded' = FALSE /\ kms' = "put"
  /\ UNCHANGED <<pc, next, caller, holders, instance>>

KmsPutModule ==
  /\ kms = "put"
  /\ PutModule("nvidia-modeset")
  /\ kms' = "out"
  /\ UNCHANGED <<caller, instance, kmsLoaded>>

-----------------------------------------------------------------------------

Init ==
  /\ bus \in Buses
  /\ pc = "unloaded" /\ caller = "nvidia_gsp" /\ holders = {} /\ next = 1
  /\ pci = 0 /\ pool = FALSE /\ rm = FALSE /\ initRmDone = FALSE
  /\ locks = 0 /\ private = {} /\ devices = <<>> /\ names = <<>>
  /\ kms = "out" /\ kmsLoaded = FALSE

ModuleInit ==
  \/ InitPci \/ InitPool \/ InitRm \/ InitControl
  \/ ProbeFails \/ Probe \/ ProbeNotAdded
  \/ InitNames \/ SetName \/ InitDone

ModuleUninit == DeleteDevice \/ DeleteControl \/ ShutdownRm \/ DeleteRest

Kms == KmsInit \/ KmsGotModule \/ KmsLoad \/ KmsUnload \/ KmsPutModule

Next == ModuleInit \/ ModuleUninit \/ InitDriver \/ UninitDriver \/ Kms

Spec == Init /\ [][Next]_vars

-----------------------------------------------------------------------------

\* Every variable keeps to its type.
TypeOK ==
  /\ bus \in Buses
  /\ holders \subseteq Drivers /\ caller \in Drivers
  /\ next \in Nat \ {0} /\ pci \in Nat /\ locks \in Nat
  /\ pool \in BOOLEAN /\ rm \in BOOLEAN /\ initRmDone \in BOOLEAN /\ kmsLoaded \in BOOLEAN

\* What a step of Init() did lasts as long as what later steps built on it:
\* event locks and private state of devices need the RM, the RM needs the pool
\* its allocations come from, and all of it needs the PCI module; module_init
\* that fails at any step, and module_uninit, leave none of it.
TeardownMirrorsInit ==
  /\ private # {} \/ locks > 0 => rm
  /\ rm => pool
  /\ pool => pci = 1
  /\ pc = "unloaded" => pci = 0

\* The name published at each position opens the device with that number, which
\* answers ioctl() and select(), a GPU of the bus whose BARs start where its
\* 64-bit BARs do not end and whose PCI handle reads and writes the registers
\* of its own function, not its neighbour's; any other name opens
\* nothing; and the number that NV_ESC_CARD_INFO tells of a card opens it.
NamesOpenDevices ==
  pc = "loaded" =>
    /\ \A i \in PublishDevices :
         FindDevice(names[i]) = i - 1 /\ {"control", "select", "deselect"} \subseteq Open(names[i]).hooks
    /\ \A s \in UNION {[1 .. n -> 0 .. 10] : n \in 0 .. 2} :
         Open(s).class # "ENOENT" => s = Decimal[Open(s).instance - 1]
    /\ \A d \in DOMAIN devices : LET f == bus[devices[d].at] IN
         /\ f.gpu /\ devices[d].index = d - 1
         /\ devices[d].handle # 0 => PciConfig(devices[d].handle) = {devices[d].at}
         /\ \A b \in DOMAIN devices[d].bars : devices[d].bars[b] - 1 \notin f.wide
    /\ \A i \in DOMAIN CardInfo(Len(devices)) : LET card == CardInfo(Len(devices))[i] IN
         card.valid =>
           LET d == Open(Decimal[card.minor]) IN
           d.class = "gpu" /\ bus[devices[d.instance].at].place[1] = card.slot

\* NVKMS is loaded only while the instance of the GPU driver it calls into is
\* whole, whichever driver came first and whichever goes first.
KmsOverModule == kmsLoaded => pc = "loaded" /\ "nvidia-modeset" \in holders

\* The RM never gives a GPU the firmware of another chip family or of another
\* type, nor a part of one; a file in a user's directory goes before the
\* system's, and what is handed out for a chip that is not known, whose path names
\* the directory, is nothing.
FirmwareWhole ==
  \A d \in DOMAIN devices, dirs \in DataDirectories, type \in Types :
    LET family == bus[devices[d].at].family
        told == nv_get_firmware(dirs, type, family)
        Has(dir) == dir.found /\ told.name \in DOMAIN dir.files /\ dir.length + Len(told.name) < PathLength
    IN told \notin {Nothing, Stops} =>
         LET file == dirs[told.from].files[told.name] IN
         /\ \/ family \in Ampere /\ told.name = <<type, "ga10x">>
            \/ family \in Turing /\ told.name = <<type, "tu10x">>
         /\ told.bytes = file.size /\ file.read = told.bytes
         /\ Has(dirs[told.from]) /\ \A i \in 1 .. told.from - 1 : ~Has(dirs[i])

=============================================================================
