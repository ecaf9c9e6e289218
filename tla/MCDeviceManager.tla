--------------------------- MODULE MCDeviceManager ---------------------------
(***************************************************************************)
(* Small sectors.  Devices of different kinds do not meet in an operation  *)
(* but in its counters, so that a few devices at a time are enough.        *)
(***************************************************************************)
EXTENDS DeviceManager

NoBoards == [k \in Kinds |-> <<>>]

MCSectors ==
  {[NoBoards EXCEPT !["FEB"] = <<"feb1", "feb2">>],
   [NoBoards EXCEPT !["ADDC"] = <<"addc">>,
                    !["TPCarrier"] = <<"carrier1", "carrier2">>],
   [NoBoards EXCEPT !["MMTP"] = <<"mmtp">>, !["STGCTP"] = <<"stgctp1", "stgctp2">>],
   [NoBoards EXCEPT !["Router"] = <<"router1">>],
   [NoBoards EXCEPT !["Router"] = <<"router2">>, !["PadTrigger"] = <<"pad2">>],
   [NoBoards EXCEPT !["PadTrigger"] = <<"pad1">>],
   [NoBoards EXCEPT !["PadTrigger"] = <<"pad3">>]}

\* feb2 has a TDS of unknown name; router2 an address of no known form; pad2
\* and pad3 only scan their delays, which pad3 is never sent a configuration of.
MCSettings ==
  [feb1 |-> {}, feb2 |-> {"unknownTds"}, addc |-> {"failsafe"},
   mmtp |-> {"fibers", "rates"}, router1 |-> {"bitfile"}, router2 |-> {"badId"},
   pad1 |-> {"repeaters", "vttx", "bitfile", "forceUpload", "fpga", "gtReset",
             "deskew", "toggle", "ocr", "bcidReset", "rxLolReset"},
   pad2 |-> {"bitfile", "deskew", "scanOnly", "fpga", "toggle"},
   pad3 |-> {"deskew", "scanOnly"},
   stgctp1 |-> {"doReset"}, stgctp2 |-> {}, carrier1 |-> {}, carrier2 |-> {}]

MCOptions == {"resetVmm", "resetTds", "disableCaptures"}
=============================================================================
