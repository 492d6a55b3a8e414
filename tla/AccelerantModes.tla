--------------------------- MODULE AccelerantModes ---------------------------
(***************************************************************************)
(* Which modes the accelerant tells and takes (accelerant/Accelerant.cpp): *)
(* the constructor finds a display and lists its modes, the hooks convert  *)
(* between NVKMS's modes and the app_server's, propose, set and tell them, *)
(* and switch the display off.  NVKMS and the display are external: a      *)
(* display may be plugged in or out between any two calls.  NvAccelerant   *)
(* has the framebuffers that a mode set needs.                             *)
(*                                                                         *)
(* Sync pulses are left out of the timings, they are copied like totals.   *)
(***************************************************************************)
EXTENDS Integers, FiniteSets, Sequences

CONSTANTS
  Displays,  \* what may be connected: sequences of [timings, valid, preferred]
  Requests,  \* the display_mode records that the app_server comes with
  Highs,     \* upper bounds for ProposeMode
  Kilo,      \* 1000 in the code
  Attempts,  \* totalAttempts, 10 in the code
  EdidSize,  \* bytes in the EDID of a display
  None

ASSUME KiloAssumption == Kilo \in Nat \ {0}
ASSUME EdidAssumption == EdidSize \in Nat
ASSUME AttemptsAssumption == Attempts \in Nat \ {0}

\* external: the timings of NVKMS's modes and of the app_server's.
NvModeTimings ==
  [pixelClockHz : Nat, RRx1k : Nat, h : Nat, hTotal : Nat \ {0}, v : Nat, vTotal : Nat \ {0},
   interlaced : BOOLEAN, hSyncPos : BOOLEAN, vSyncPos : BOOLEAN]
TimingFlags == {"blankPedestal", "interlaced", "hSyncPos", "vSyncPos", "syncOnGreen"}
display_timing ==
  [clock : Nat, h : Nat, hTotal : Nat \ {0}, v : Nat, vTotal : Nat \ {0}, flags : SUBSET TimingFlags]

ASSUME DisplaysAssumption ==
  Displays \subseteq Seq([timings : NvModeTimings, valid : BOOLEAN, preferred : BOOLEAN])

\* A total of zero, by which CalcRefreshRate() divides, is left out.
ASSUME RequestsAssumption == Requests \subseteq [timing : display_timing, width : Nat, height : Nat]

VARIABLES
  display,  \* external: the modes of the connected display, None without one
  shown,    \* external: the timings NVKMS has set
  power,    \* external: the DPMS attribute of the display
  pc,       \* "none": no instance; "find", "list": in the constructor; "up"
  n,        \* attempts, or modeIndex, so far
  modeList, \* fModeList
  currentMode, \* fCurrentMode
  dpmsState,   \* fDpmsState
  answer,   \* what the last hook was asked and what it told
  replugged \* history: the display changed after the constructor found it

external == <<display, shown, power>>
vars == <<external, pc, n, modeList, currentMode, dpmsState, answer, replugged>>

-----------------------------------------------------------------------------
(* Conversions.                                                            *)

CalcRefreshRate(t) ==
  ((IF "interlaced" \in t.flags THEN 2 ELSE 1) * Kilo * Kilo * t.clock) \div (t.hTotal * t.vTotal)

\* Hz to kHz, a flag for each of three BOOLEANs.
ToHaikuModeTimings(m) ==
  [clock |-> m.pixelClockHz \div Kilo, h |-> m.h, hTotal |-> m.hTotal, v |-> m.v, vTotal |-> m.vTotal,
   flags |-> {f \in {"interlaced", "hSyncPos", "vSyncPos"} : m[f]}]

\* Mutant: the polarities of the sync pulses are not converted.
ToNvKmsModeTimingsPositive(t) ==
  [RRx1k |-> CalcRefreshRate(t), pixelClockHz |-> t.clock * Kilo,
   h |-> t.h, hTotal |-> t.hTotal, v |-> t.v, vTotal |-> t.vTotal,
   interlaced |-> "interlaced" \in t.flags, hSyncPos |-> TRUE, vSyncPos |-> TRUE]

\* The flags of an app_server's mode that NVKMS does not know are lost.
ToNvKmsModeTimings(t) ==
  [RRx1k |-> CalcRefreshRate(t), pixelClockHz |-> t.clock * Kilo,
   h |-> t.h, hTotal |-> t.hTotal, v |-> t.v, vTotal |-> t.vTotal,
   interlaced |-> "interlaced" \in t.flags,
   hSyncPos |-> "hSyncPos" \in t.flags, vSyncPos |-> "vSyncPos" \in t.flags]

ToHaikuMode(m) == [timing |-> ToHaikuModeTimings(m), width |-> m.h, height |-> m.v]

\* fModeList as the app_server gets it.
GetModeList == [i \in DOMAIN modeList |-> ToHaikuMode(modeList[i])]

-----------------------------------------------------------------------------
(* Proposing.                                                              *)

\* Every number of the timings and every flag.
ModeTimingsEqual(a, b) == a = b

IsDisplayModeWithinBounds(mode, low, high) ==
  /\ \A f \in {"clock", "h", "hTotal", "v", "vTotal"} :
       mode.timing[f] \in low.timing[f] .. high.timing[f]
  /\ mode.width \in low.width .. high.width
  /\ mode.height \in low.height .. high.height

SameSize(m, t) ==
  /\ m.h = t.h /\ m.v = t.v
  /\ m.interlaced = ("interlaced" \in t.flags)

Distance(m, rate) == IF m.RRx1k > rate THEN m.RRx1k - rate ELSE rate - m.RRx1k

\* Mutant: the last candidate is taken.
BestCandidateLast(t) ==
  LET best[i \in 0 .. Len(modeList)] ==
        IF i = 0 THEN 0 ELSE IF SameSize(modeList[i], t) THEN i ELSE best[i - 1]
  IN best[Len(modeList)]

\* The candidate with the nearest refresh rate, the first of them; 0: none.
BestCandidate(t) ==
  LET rate == CalcRefreshRate(t)
      Better(i, b) == b = 0 \/ Distance(modeList[i], rate) < Distance(modeList[b], rate)
      best[i \in 0 .. Len(modeList)] ==
        IF i = 0 THEN 0
        ELSE IF SameSize(modeList[i], t) /\ Better(i, best[i - 1]) THEN i ELSE best[i - 1]
  IN best[Len(modeList)]

\* Status and target of ProposeMode.
Proposal(target, low, high) ==
  LET Told(mode) == [status |-> IF IsDisplayModeWithinBounds(mode, low, high) THEN "ok" ELSE "bad value",
                     target |-> mode]
      best == BestCandidate(target.timing)
  IN IF \E i \in DOMAIN modeList : ModeTimingsEqual(ToHaikuModeTimings(modeList[i]), target.timing) THEN Told(target)
     ELSE IF best = 0 THEN [status |-> "error", target |-> target]
     ELSE Told([target EXCEPT !.timing = ToHaikuModeTimings(modeList[best])])

\* The clocks GetPixelClockLimits() goes through: it looks for the interlace
\* flag in v_display, 16 bits that cannot hold it, and compares with none.
LimitClocks(t) ==
  {ToHaikuModeTimings(modeList[i]).clock :
     i \in {j \in DOMAIN modeList : modeList[j].h = t.h /\ modeList[j].v = t.v /\ ~modeList[j].interlaced}}

-----------------------------------------------------------------------------
(* The instance.                                                           *)

Quiet == UNCHANGED <<modeList, currentMode, dpmsState, answer, replugged>>

\* external: hotplug.  A new display shows nothing yet.
Plug(d) ==
  /\ d # display
  /\ display' = d
  /\ replugged' = (replugged \/ pc \in {"list", "up"})
  /\ UNCHANGED <<shown, power, pc, n, modeList, currentMode, dpmsState, answer>>

\* Init() or Clone(): the calls before the search may throw as well, which
\* leaves no instance.
Construct ==
  /\ pc = "none"
  /\ pc' = "find" /\ n' = 0
  /\ modeList' = <<>> /\ currentMode' = None /\ dpmsState' = "on" /\ answer' = None
  /\ replugged' = FALSE
  /\ UNCHANGED external

\* FindConnectedDisplay(), and snooze() when there is none.
FindDisplay ==
  /\ pc = "find"
  /\ IF display # None THEN pc' = "list" /\ n' = 0
     ELSE /\ n' = n + 1
          /\ pc' = IF n' = Attempts THEN "none" ELSE "find"
  /\ UNCHANGED external /\ Quiet

\* Mutant: a mode that does not validate is listed.
ListModeUnvalidated ==
  /\ pc = "list" /\ display # None /\ n < Len(display)
  /\ modeList' = Append(modeList, display[n + 1].timings)
  /\ n' = n + 1
  /\ UNCHANGED <<external, pc, currentMode, dpmsState, answer, replugged>>

\* VALIDATE_MODE_INDEX tells the next mode, VALIDATE_MODE whether it will do.
ListMode ==
  /\ pc = "list" /\ display # None /\ n < Len(display)
  /\ modeList' = IF display[n + 1].valid THEN Append(modeList, display[n + 1].timings) ELSE modeList
  /\ n' = n + 1
  /\ UNCHANGED <<external, pc, currentMode, dpmsState, answer, replugged>>

ListDone ==
  /\ pc = "list" /\ (display # None => n >= Len(display))
  /\ pc' = "up" /\ n' = 0
  /\ UNCHANGED external /\ Quiet

\* A call throws: there is no instance.
ConstructFails ==
  /\ pc \in {"find", "list"}
  /\ pc' = "none" /\ n' = 0
  /\ UNCHANGED external /\ Quiet

\* The end of the KMS device takes its mode with it.
Uninit ==
  /\ pc = "up" /\ pc' = "none"
  /\ shown' = None /\ power' = "on"
  /\ UNCHANGED <<display, n>> /\ Quiet

-----------------------------------------------------------------------------
(* The hooks.                                                              *)

Hook == pc = "up" /\ UNCHANGED <<pc, n, modeList, display, replugged>>

ProposeMode(target, low, high) ==
  /\ Hook
  /\ answer' = [hook |-> "propose", asked |-> target, low |-> low, high |-> high,
                told |-> Proposal(target, low, high)]
  /\ UNCHANGED <<shown, power, currentMode, dpmsState>>

\* external: does NVKMS take these timings?  Their refresh rate is not looked
\* at, the clock may be lower than the display's.
Validates(m) ==
  display # None /\ \E i \in DOMAIN display :
    LET d == display[i].timings IN
    /\ display[i].valid
    /\ \A f \in {"h", "hTotal", "v", "vTotal", "interlaced"} : d[f] = m[f]
    /\ m.pixelClockHz <= d.pixelClockHz

Tell(hook, asked, told) == answer' = [hook |-> hook, asked |-> asked, told |-> told]

\* Virtual size and timing must agree, and NVKMS must take the mode.
SetDisplayModeRefused(mode) ==
  /\ Hook
  /\ \/ mode.width # mode.timing.h \/ mode.height # mode.timing.v
     \/ ~Validates(ToNvKmsModeTimings(mode.timing))
  /\ Tell("set", mode, "refused")
  /\ UNCHANGED <<shown, power, currentMode, dpmsState>>

\* No memory for the framebuffer, or SET_MODE fails.
SetDisplayModeFails(mode) ==
  /\ Hook
  /\ Tell("set", mode, "failed")
  /\ UNCHANGED <<shown, power, currentMode, dpmsState>>

SetDisplayMode(mode) ==
  LET m == ToNvKmsModeTimings(mode.timing) IN
  /\ Hook
  /\ mode.width = mode.timing.h /\ mode.height = mode.timing.v
  /\ Validates(m)
  /\ shown' = m
  /\ currentMode' = m
  /\ Tell("set", mode, "ok")
  /\ UNCHANGED <<power, dpmsState>>

\* ENOENT before the first mode set.
GetDisplayMode ==
  /\ Hook
  /\ Tell("get", None, IF currentMode = None THEN None ELSE ToHaikuMode(currentMode))
  /\ UNCHANGED <<shown, power, currentMode, dpmsState>>

\* The display's own list, not fModeList.
GetPreferredDisplayMode ==
  /\ Hook
  /\ LET preferred == IF display = None THEN <<>> ELSE SelectSeq(display, LAMBDA d : d.preferred)
     IN Tell("preferred", None,
             IF preferred = <<>> THEN None ELSE ToHaikuMode(preferred[1].timings))
  /\ UNCHANGED <<shown, power, currentMode, dpmsState>>

\* As many bytes as there is room for, of the display that is there now.
GetEdidInfo(size) ==
  /\ Hook
  /\ \/ Tell("edid", size, None)
     \/ /\ display # None
        /\ Tell("edid", size, [of |-> display, bytes |-> IF size < EdidSize THEN size ELSE EdidSize])
  /\ UNCHANGED <<shown, power, currentMode, dpmsState>>

DpmsCapabilities == {"on", "off"}

DpmsMode == IF dpmsState = "on" THEN "on" ELSE "off"

\* EINVAL for stand-by and suspend.
SetDpmsModeRefused(s) ==
  /\ Hook /\ s \notin {"on", "off"}
  /\ Tell("dpms", s, "refused")
  /\ UNCHANGED <<shown, power, currentMode, dpmsState>>

SetDpmsModeFails(s) ==
  /\ Hook /\ s \in {"on", "off"}
  /\ Tell("dpms", s, "failed")
  /\ UNCHANGED <<shown, power, currentMode, dpmsState>>

SetDpmsMode(s) ==
  /\ Hook /\ s \in {"on", "off"}
  /\ power' = s
  /\ dpmsState' = s
  /\ Tell("dpms", s, "ok")
  /\ UNCHANGED <<shown, currentMode>>

Init ==
  /\ display \in Displays \cup {None} /\ shown = None /\ power = "on"
  /\ pc = "none" /\ n = 0
  /\ modeList = <<>> /\ currentMode = None /\ dpmsState = "on"
  /\ answer = None /\ replugged = FALSE

Lowest == [timing |-> [clock |-> 0, h |-> 0, hTotal |-> 0, v |-> 0, vTotal |-> 0], width |-> 0, height |-> 0]

Next ==
  \/ \E d \in Displays \cup {None} : Plug(d)
  \/ Construct \/ FindDisplay \/ ListMode \/ ListDone \/ ConstructFails \/ Uninit
  \/ \E mode \in Requests :
       \/ \E high \in Highs : ProposeMode(mode, Lowest, high)
       \/ SetDisplayModeRefused(mode) \/ SetDisplayModeFails(mode) \/ SetDisplayMode(mode)
  \/ GetDisplayMode \/ GetPreferredDisplayMode
  \/ \E size \in {0, EdidSize + 1} : GetEdidInfo(size)
  \/ \E s \in {"on", "suspend", "off"} : SetDpmsModeRefused(s) \/ SetDpmsModeFails(s) \/ SetDpmsMode(s)

Spec == Init /\ [][Next]_vars

-----------------------------------------------------------------------------

Answers(hook) == pc = "up" /\ answer # None /\ answer.hook = hook

\* A mode that ProposeMode accepts is inside the bounds and has the timing of a
\* listed mode of the size asked for; none that is nearer in refresh rate was
\* passed over, and proposing the answer again changes nothing, nor does
\* proposing a mode of GetModeList() in bounds that fit it alone.
ProposalFits ==
  Answers("propose") =>
    /\ \A i \in DOMAIN GetModeList : LET mode == GetModeList[i] IN
         Proposal(mode, mode, mode) = [status |-> "ok", target |-> mode]
    /\ answer.told.status # "error" =>
         LET told == answer.told.target
             rate == CalcRefreshRate(answer.asked.timing)
             fitting == {i \in DOMAIN modeList : SameSize(modeList[i], answer.asked.timing)}
         IN /\ Proposal(told, answer.low, answer.high) = answer.told
            /\ answer.told.status = "ok" => IsDisplayModeWithinBounds(told, answer.low, answer.high)
            /\ told = answer.asked \/ \E i \in fitting :
                 /\ told.timing = ToHaikuModeTimings(modeList[i])
                 /\ \A j \in fitting : Distance(modeList[i], rate) <= Distance(modeList[j], rate)

\* A proposal that is accepted has a pixel clock between the limits told for
\* it, if it is progressive, and NVKMS does not refuse it as long as the display
\* is the one the list was made from; until then the EDID told is that display's
\* as well, and never longer than the room for it.
ProposalUsable ==
  /\ Answers("propose") /\ answer.told.status = "ok" =>
       LET told == answer.told.target IN
       /\ "interlaced" \notin told.timing.flags =>
            \E low, high \in LimitClocks(told.timing) : told.timing.clock \in low .. high
       /\ ~replugged => Validates(ToNvKmsModeTimings(told.timing))
  /\ Answers("edid") /\ answer.told # None => LET edid == answer.told IN
       /\ edid.bytes <= answer.asked
       /\ ~replugged => Len(modeList) = Cardinality({i \in DOMAIN edid.of : edid.of[i].valid})

\* GetDisplayMode tells the mode on the display as the app_server gave it, down
\* to the polarities, through both conversions and after mode sets that failed;
\* DpmsMode tells what the display does, and every state that the capabilities
\* name can be asked for.
ModeToldIsModeSet ==
  pc = "up" =>
    /\ currentMode = shown
    /\ (Answers("set") /\ answer.told = "ok" =>
         ToHaikuMode(shown).timing = [answer.asked.timing EXCEPT
           !.flags = @ \cap {"interlaced", "hSyncPos", "vSyncPos"}])
    /\ DpmsMode = power
    /\ (Answers("dpms") /\ answer.told = "refused" => answer.asked \notin DpmsCapabilities)

=============================================================================
