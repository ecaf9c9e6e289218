---------------------------- MODULE TriggerDevices ----------------------------
(***************************************************************************)
(* Router, pad trigger, the two trigger processors (MMTP, STGCTP) and      *)
(* their carrier.                                                          *)
(***************************************************************************)
EXTENDS DeviceAccess

\* Constants.h, TPConstants.h
MAX_RESETS           == 3
MAX_GPIO_CHECKS      == 5
MMTP_FIBER_ALIGN_ATTEMPTS == 10

\* A readback that may differ from what was written: an issue, no exception.
CheckReadback(line) == Read(line) \o Choose({Nothing, Warn})

\* PadTrigger::writeAndReadbackFPGARegister, Router::sendAndReadbackGPIO,
\* SCAX::writeAndReadbackRegister
WriteAndReadback(line, value) == Write(line, value) \o CheckReadback(line)

\* OpcClient::writeXilinxFpga: a failed upload is an issue, no exception.
UploadBitfile == Attempt(Write("firmware", "loaded"), Warn)

(***************************************************************************)
(* Router                                                                  *)
(***************************************************************************)
RouterLines == {"firmware", "controlMode", "softReset", "gpios", "id"}

\* Router::writeSoftReset
WriteSoftReset ==
  Do(<<WriteAndReadback("controlMode", "partial"),
       WriteAndReadback("controlMode", "sca"),
       WriteAndReadback("softReset", "active"),
       WriteAndReadback("softReset", "inactive")>>)

\* Router::checkGPIOsAFewTimes, then "good" or "bad"
CheckGPIOsAFewTimes(good, bad) ==
  LET check[n \in 0..MAX_GPIO_CHECKS] ==
        IF n = 0 THEN bad
        ELSE Read("gpios")
               \o Choose({Settle("gpios", "good") \o good, check[n - 1]})
  IN check[MAX_GPIO_CHECKS]

\* Router::writeSoftResetAndCheckGPIO, then "next": a router that never looks
\* right is an issue and goes on as if it did.
WriteSoftResetAndCheckGPIO(next) ==
  LET reset[n \in 0..MAX_RESETS] ==
        IF n = 0 THEN Settle("gpios", "bad") \o Warn \o next
        ELSE WriteSoftReset \o CheckGPIOsAFewTimes(next, reset[n - 1])
  IN reset[MAX_RESETS]

\* Router::writeScaId; an unexpected address is an issue (crashId).
WriteScaId(settings) ==
  Do(<<If("badId" \in settings, Warn), WriteAndReadback("id", "partial"),
       WriteAndReadback("id", "written")>>)

\* Router::writeConfiguration
WriteRouter(settings) ==
  If("bitfile" \in settings, UploadBitfile)
    \o WriteSoftResetAndCheckGPIO(WriteScaId(settings))

RouterReady(hw, settings) ==
  /\ "bitfile" \in settings => hw["firmware"] = "loaded"
  /\ hw["controlMode"] = "sca" /\ hw["softReset"] = "inactive"
  /\ hw["gpios"] = "good" /\ hw["id"] = "written" /\ "badId" \notin settings

(***************************************************************************)
(* Trigger processors and carrier                                          *)
(***************************************************************************)
MmtpLines == {"registers", "l1aReset", "idleState", "latTxIdle", "fibers",
              "qpllReset", "channelRates"}

\* MMTP::alignArtGbtx: one reset more than the attempts, then an issue.
AlignArtGbtx ==
  LET align[resets \in 0..MMTP_FIBER_ALIGN_ATTEMPTS + 1] ==
        IF resets > MMTP_FIBER_ALIGN_ATTEMPTS THEN Settle("fibers", "bad") \o Warn
        ELSE Read("fibers")
               \o Choose({Settle("fibers", "aligned"),
                          Toggle("qpllReset", "active", "inactive")
                            \o align[resets + 1]})
  IN align[0]

\* MMTP::writeConfiguration; a failing register is an issue and thrown on.
WriteMmtp(settings) ==
  Do(<<Attempt(
         Do(<<Write("registers", "partial"),
              Toggle("l1aReset", "active", "inactive"),
              Write("idleState", "configured"),
              Toggle("latTxIdle", "active", "inactive"),
              Write("registers", "configured")>>),
         Warn \o Raise),
       If("fibers" \in settings, AlignArtGbtx)>>)

\* MMTP::enableChannelRates and toggleIdleStateHigh
EnableChannelRates(state) == Write("channelRates", state)
ToggleIdleStateHigh ==
  Write("idleState", "high") \o Toggle("latTxIdle", "active", "inactive")

MmtpReady(hw, settings) ==
  /\ hw["registers"] = "configured" /\ hw["l1aReset"] = "inactive"
  /\ hw["idleState"] = "configured" /\ hw["latTxIdle"] = "inactive"
  /\ "fibers" \in settings => hw["fibers"] = "aligned"

StgctpLines == {"registers", "rxReset", "txReset"}

\* STGCTP::doReset
DoReset(settings) ==
  If("doReset" \in settings, Toggle("rxReset", "active", "inactive")
                               \o Toggle("txReset", "active", "inactive"))

\* STGCTP::writeConfiguration; the final readout stops at the first failure.
WriteStgctp(settings) ==
  Do(<<DoReset(settings), WriteAndReadback("registers", "partial"),
       WriteAndReadback("registers", "configured"),
       Attempt(Read("registers"), Nothing)>>)

StgctpReady(hw, settings) ==
  /\ hw["registers"] = "configured"
  /\ "doReset" \in settings =>
       hw["rxReset"] = "inactive" /\ hw["txReset"] = "inactive"

\* TPCarrier::writeConfiguration
CarrierLines        == {"rjOutSel"}
WriteCarrier        == Write("rjOutSel", "configured")
CarrierReady(hw)    == hw["rjOutSel"] = "configured"
=============================================================================
