------------------------------ MODULE ConfigReader ------------------------------
(***************************************************************************)
(* What is configured, and with what: NSWConfig::readConf takes the        *)
(* enabled elements from the hierarchy of resources of the partition (OKS),*)
(* ConfigReader and JsonApi merge the settings of each element into the    *)
(* common ones of its kind, and turn off what is disabled.  A setting is a *)
(* register, its value is where it comes from: "common", "specific", or    *)
(* "off" for a 0 written by the reader.                                    *)
(***************************************************************************)
EXTENDS Integers, Sequences, FiniteSets, Functions

CONSTANT Setups
  (* set of [resources |-> [name, class, off, prefixed, matched, devices,
       contains] of each, contains |-> those of the application, a sequence,
     json |-> is the file named .json, common |-> registers of each section,
     file |-> elements in the file, [type, opcType, boardType, specific]] *)

MAX_NUMBER_OF_VMM == 8
NUM_SROCS         == 4

VARIABLES
  setup,
  progress,   \* "start", "parsing", "reading", "read" or "thrown"
  ahead,      \* what the calls of parseDeviceMap still have to do
  deviceMap,  \* m_devices: [thrown, found], and whether there is one
  names,      \* elements still to be read
  added,      \* configurations given to the device manager
  fatals      \* elements reported instead
readerVars == <<setup, progress, ahead, deviceMap, names, added, fatals>>

(***************************************************************************)
(* OKSDeviceHierarchy                                                      *)
(***************************************************************************)
NoElements == [name \in {} |-> {}]
NoDevices == [thrown |-> FALSE, found |-> NoElements]
PseudoDevices == {<<"VMM_DeviceID", 0>>, <<"VMM_DeviceID", 1>>, <<"TDC_DeviceID", 0>>}
SubDevices(resource) ==
  resource.devices \cup (IF resource.class = "FEB" THEN PseudoDevices ELSE {})

\* With a file named .json the sector in front of the name is removed.
NameOf(resource, json) ==
  IF resource.prefixed /\ ~json THEN "unknown" ELSE resource.name
Malformed(resource, json) ==
  \/ resource.class # "" /\ json /\ ~resource.prefixed
  \/ resource.class \in {"FEB", "ADDC"} /\ ~resource.matched

\* A call of parseDeviceMap looks at each resource, and again when the call
\* for what it contains has returned.
parseDeviceMap(contains) ==
  [i \in 1..Len(contains) |-> [resource |-> contains[i], back |-> FALSE]]

(***************************************************************************)
(* JsonApi: the settings of an element.                                    *)
(***************************************************************************)
Specific(element, part) ==
  IF part \in DOMAIN element.specific THEN element.specific[part] ELSE {}
Section(part) == part[1]

\* mergeI2cMasterTree, mergeVMMTree
Mergeable(element, part) ==
  /\ Section(part) \in DOMAIN setup.common
  /\ Specific(element, part) \subseteq setup.common[Section(part)]
Merge(element, part) ==
  [register \in setup.common[Section(part)] |->
     IF register \in Specific(element, part) THEN "specific" ELSE "common"]
\* gbtxMergeConfig and the top level of an ART: nothing is asked about the names.
MergeAny(element, part) ==
  [register \in setup.common[Section(part)] \cup Specific(element, part) |->
     IF register \in Specific(element, part) THEN "specific" ELSE "common"]

Thrown == [thrown |-> TRUE, parts |-> << >>]
Merged(element, parts) ==
  IF \E part \in parts : ~Mergeable(element, part) THEN Thrown
  ELSE [thrown |-> FALSE, parts |-> [part \in parts |-> Merge(element, part)]]

\* Fault: the pseudo-devices VMM0_DeviceID and VMM1_DeviceID count as VMMs.
HasVmm_Pseudo(devices, vmm) ==
  <<"VMM", vmm>> \in devices \/ <<"VMM_DeviceID", vmm>> \in devices
HasVmm(devices, vmm) == <<"VMM", vmm>> \in devices
HasTds(devices, tds, ntds) ==
  IF ntds = 1 THEN \E any \in devices : any[1] = "TDS" ELSE <<"TDS", tds>> \in devices

VmmsOf(type) == IF type = "PFEB" THEN 0..2 ELSE IF type = "SFEB6" THEN 2..7 ELSE 0..7
TdsEnd(type) ==
  CASE type = "MMFE8" -> 0 [] type = "PFEB" -> 1 [] type = "SFEB_old" -> 3 [] OTHER -> 4
Tdss(type) == (IF type = "SFEB6" THEN 1 ELSE 0)..TdsEnd(type) - 1

getRocVmmId(type, vmm) ==
  IF type \in {"SFEB6", "SFEB8", "PFEB"}
  THEN CASE vmm = 0 -> 2 [] vmm = 1 -> 3 [] vmm = 2 -> 0 [] vmm = 3 -> 1
         [] vmm = 4 -> 5 [] vmm = 5 -> 4 [] OTHER -> vmm
  ELSE vmm

\* Inputs of disabled VMMs and connections of disabled sROCs; an sROC itself
\* stays on.
adjustRocConfig(digital, type, devices) ==
  LET vmms  == {v \in 0..MAX_NUMBER_OF_VMM - 1 : ~HasVmm(devices, v)}
      srocs == {s \in 0..NUM_SROCS - 1 : <<"sROC", s>> \notin devices}
      off   == {<<"vmmEnable", getRocVmmId(type, v)>> : v \in vmms}
               \cup {<<"connection", s, getRocVmmId(type, v)>> : s \in 0..NUM_SROCS - 1, v \in vmms}
               \cup {<<"connection", s, v>> : s \in srocs, v \in 0..MAX_NUMBER_OF_VMM - 1}
  IN [register \in DOMAIN digital \cup off |->
        IF register \in off THEN "off" ELSE digital[register]]

RocParts == {<<"rocPllCoreAnalog", 0>>, <<"rocCoreDigital", 0>>}
\* used: is there a device map; devices: what is enabled on the board.
readFEB(element, used, devices) ==
  LET vmms  == {v \in VmmsOf(element.type) : used => HasVmm(devices, v)}
      tdss  == {t \in Tdss(element.type) : used => HasTds(devices, t, TdsEnd(element.type))}
      board == Merged(element, RocParts \cup ({"vmm"} \X vmms) \cup ({"tds"} \X tdss))
  IN IF used /\ <<"ROC", 0>> \notin devices THEN Thrown
     ELSE IF ~used \/ board.thrown THEN board
     ELSE [board EXCEPT !.parts[<<"rocCoreDigital", 0>>] =
             adjustRocConfig(@, element.opcType, devices)]

readADDC(element, used, devices) ==
  LET arts == {"art"} \X {a \in 0..1 : used => <<"ART", a>> \in devices}
      core(part) == {register \in Specific(element, part) : register[1] # "top"}
  IN IF arts # {} /\ ("art" \in DOMAIN setup.common =>
                        \E part \in arts : ~(core(part) \subseteq setup.common["art"]))
     THEN Thrown
     ELSE [thrown |-> FALSE, parts |-> [part \in arts |-> MergeAny(element, part)]]

Gbtxs == [mmg |-> 0..2, rim |-> {0}, sfeb |-> 0..1, pfeb |-> 0..1]
readL1DDC(element) ==
  IF element.boardType \notin DOMAIN Gbtxs \/ "gbtx" \notin DOMAIN setup.common THEN Thrown
  ELSE [thrown |-> FALSE,
        parts |-> [part \in {"gbtx"} \X Gbtxs[element.boardType] |-> MergeAny(element, part)]]

readPadTrigger(element) == Merged(element, {<<"padtriggerfpga", 0>>})

\* readTP, readSTGCTP, readTPCarrier, readRouter
AsItIs(element) ==
  [thrown |-> FALSE,
   parts |-> [part \in DOMAIN element.specific |->
                [register \in element.specific[part] |-> "specific"]]]

FebTypes == {"MMFE8", "PFEB", "SFEB_old", "SFEB", "SFEB8", "SFEB6"}
\* Nothing is known of a type MMTP.
read(name, used, found) ==
  LET element == setup.file[name]
      mapped  == ~used \/ name \in DOMAIN found
      devices == IF used /\ mapped THEN found[name] ELSE {}
  IN CASE element.type \in FebTypes -> IF mapped THEN readFEB(element, used, devices) ELSE Thrown
       [] element.type = "ADDC" -> IF mapped THEN readADDC(element, used, devices) ELSE Thrown
       [] element.type \in {"L1DDC", "RimL1DDC"} -> readL1DDC(element)
       [] element.type = "PadTrigger" -> readPadTrigger(element)
       [] element.type \in {"TPCarrier", "STGCTP", "TP", "Router"} -> AsItIs(element)
       [] OTHER -> Thrown

\* The names of the resources are those of elements but for the sector, a board
\* lists sub-devices of its type, has a ROC numbering (there is none for the
\* types SFEB and SFEB_old), and the common registers of a ROC are complete.
DigitalRegisters ==
  ({"vmmEnable"} \X (0..7)) \cup {<<"connection", s, v>> : s \in 0..3, v \in 0..7}
ReaderAssumption ==
  \A s \in Setups :
    /\ s.json \in BOOLEAN /\ s.contains \in Seq(DOMAIN s.resources)
    /\ \A i \in DOMAIN s.resources :
         LET r == s.resources[i]
         IN /\ r.off \in BOOLEAN /\ r.prefixed \in BOOLEAN /\ r.matched \in BOOLEAN
            /\ r.contains \in Seq(DOMAIN s.resources)
            /\ r.name \in DOMAIN s.file /\ s.file[r.name].type \in FebTypes =>
                 \A v \in 0..7 :
                   <<"VMM", v>> \in r.devices => v \in VmmsOf(s.file[r.name].type)
    /\ "unknown" \notin DOMAIN s.file
    /\ \A name \in DOMAIN s.file :
         s.file[name].type \in FebTypes =>
           s.file[name].opcType \in {"MMFE8", "PFEB", "SFEB6", "SFEB8"}
    /\ "rocCoreDigital" \in DOMAIN s.common => DigitalRegisters \subseteq s.common["rocCoreDigital"]
ASSUME ReaderInputs == ReaderAssumption

(***************************************************************************)
(* NSWConfig                                                               *)
(***************************************************************************)
ReaderInit ==
  /\ setup \in Setups
  /\ progress = "start" /\ ahead = << >> /\ deviceMap = NoDevices
  /\ names = {} /\ added = NoElements /\ fatals = {}

WithMap == setup.contains # << >>
readConf ==
  /\ progress = "start"
  /\ progress' = "parsing" /\ ahead' = parseDeviceMap(setup.contains)
  /\ UNCHANGED <<setup, deviceMap, names, added, fatals>>

\* An exception leaves what was found before.
Resource == setup.resources[Head(ahead).resource]
LookAtResource ==
  /\ progress = "parsing" /\ ahead # << >> /\ ~Head(ahead).back
  /\ \/ /\ Resource.off
        /\ ahead' = Tail(ahead) /\ UNCHANGED deviceMap
     \/ /\ ~Resource.off /\ Malformed(Resource, setup.json)
        /\ ahead' = << >> /\ deviceMap' = [deviceMap EXCEPT !.thrown = TRUE]
     \/ /\ ~Resource.off /\ ~Malformed(Resource, setup.json)
        /\ ahead' = parseDeviceMap(Resource.contains)
                      \o <<[resource |-> Head(ahead).resource, back |-> TRUE]>> \o Tail(ahead)
        /\ UNCHANGED deviceMap
  /\ UNCHANGED <<setup, progress, names, added, fatals>>

\* The first resource of a name counts; those of no interest are only looked into.
AddResource ==
  /\ progress = "parsing" /\ ahead # << >> /\ Head(ahead).back
  /\ ahead' = Tail(ahead)
  /\ LET name  == NameOf(Resource, setup.json)
         known == DOMAIN deviceMap.found
     IN IF Resource.class = "" \/ name \in known THEN UNCHANGED deviceMap
        ELSE deviceMap' = [deviceMap EXCEPT !.found =
               [n \in known \cup {name} |->
                  IF n = name THEN SubDevices(Resource) ELSE deviceMap.found[n]]]
  /\ UNCHANGED <<setup, progress, names, added, fatals>>

\* An application without resources configures everything in the file.  An
\* exception in the hierarchy is reported, and what was found is used.
validateDeviceMap ==
  /\ progress = "parsing" /\ ahead = << >>
  /\ LET all == IF WithMap THEN DOMAIN deviceMap.found ELSE DOMAIN setup.file
     IN IF all \subseteq DOMAIN setup.file
        THEN progress' = "reading" /\ names' = all
        ELSE progress' = "thrown" /\ names' = {}
  /\ UNCHANGED <<setup, ahead, deviceMap, added, fatals>>

\* What cannot be read is reported and left out; L1DDCs are skipped.
readConfigurationResource ==
  /\ progress = "reading" /\ names # {}
  /\ LET name == CHOOSE n \in names : TRUE
         got  == read(name, WithMap, deviceMap.found)
     IN /\ names' = names \ {name}
        /\ IF setup.file[name].type \in {"L1DDC", "RimL1DDC"} THEN UNCHANGED <<added, fatals>>
           ELSE IF got.thrown THEN fatals' = fatals \cup {name} /\ UNCHANGED added
           ELSE /\ added' = [n \in DOMAIN added \cup {name} |->
                             IF n = name THEN got.parts ELSE added[n]]
                /\ UNCHANGED fatals
  /\ UNCHANGED <<setup, progress, ahead, deviceMap>>

EndReading ==
  /\ progress = "reading" /\ names = {}
  /\ progress' = "read"
  /\ UNCHANGED <<setup, ahead, deviceMap, names, added, fatals>>

ReaderNext ==
  \/ readConf \/ LookAtResource \/ AddResource \/ validateDeviceMap
  \/ readConfigurationResource \/ EndReading
ReaderSpec == ReaderInit /\ [][ReaderNext]_readerVars
-----------------------------------------------------------------------------
ReaderTypeOK ==
  /\ progress \in {"start", "parsing", "reading", "read", "thrown"}
  /\ ahead \in Seq([resource : DOMAIN setup.resources, back : BOOLEAN])
  /\ names \cup DOMAIN added \cup fatals \subseteq DOMAIN setup.file
  /\ fatals \cap DOMAIN added = {} /\ names \cap (DOMAIN added \cup fatals) = {}
  /\ progress = "read" => names = {}

\* The input of the ROC each VMM is wired to.
Wire(type, vmm) ==
  IF type = "MMFE8" THEN vmm ELSE <<2, 3, 0, 1, 5, 4, 6, 7>>[vmm + 1]

\* Names of the devices that are enabled with all that contain them: those in
\* every set with the resources of the application and what its members contain.
Within(resources) ==
  /\ Range(setup.contains) \subseteq resources
  /\ \A i \in resources :
       ~setup.resources[i].off => Range(setup.resources[i].contains) \subseteq resources
Reached ==
  {i \in DOMAIN setup.resources :
     \A resources \in SUBSET DOMAIN setup.resources : Within(resources) => i \in resources}
Enabled ==
  {setup.resources[i].name :
     i \in {j \in Reached : ~setup.resources[j].off /\ setup.resources[j].class # ""}}

\* A VMM has a configuration, and its input of the ROC and the connections to the
\* enabled sROCs are left as they are, if it is enabled; else it has none and the
\* input and all connections are off.
VmmsAgree(board, type, devices) ==
  \A v \in 0..7 :
    LET on      == <<"VMM", v>> \in devices
        digital == board[<<"rocCoreDigital", 0>>]
    IN /\ on <=> <<"vmm", v>> \in DOMAIN board
       /\ on <=> digital[<<"vmmEnable", Wire(type, v)>>] # "off"
       /\ \A s \in 0..3 :
            on /\ <<"sROC", s>> \in devices
              <=> digital[<<"connection", s, Wire(type, v)>>] # "off"

\* Only what is enabled is configured, the sub-devices of a board agree with the
\* inputs of its ROC, nothing else is turned off, and an element's own setting
\* always wins; no element of the map is forgotten without a report
\* (ConfigReaderApi.cpp:63-110, ConfigReaderJsonApi.cpp:53-418,
\* NSWConfig.cpp:38-69, OKSDeviceHierarchy.cpp:29-205).
ReaderAgrees ==
  /\ \A name \in DOMAIN added :
       LET element == setup.file[name]
           board   == added[name]
       IN /\ WithMap => name \in Enabled
          /\ WithMap /\ element.type \in FebTypes =>
               VmmsAgree(board, element.opcType, deviceMap.found[name])
          /\ \A part \in DOMAIN board : \A register \in DOMAIN board[part] :
               /\ board[part][register] = "off" =>
                    WithMap /\ part[1] = "rocCoreDigital"
                      /\ register[1] \in {"vmmEnable", "connection"}
               /\ part \in DOMAIN element.specific /\ register \in element.specific[part] =>
                    board[part][register] \in {"specific", "off"}
  /\ progress = "read" /\ WithMap /\ ~deviceMap.thrown =>
       \A name \in Enabled \cap DOMAIN setup.file :
         \/ name \in DOMAIN added \cup fatals
         \/ setup.file[name].type \in {"L1DDC", "RimL1DDC"}
=============================================================================
