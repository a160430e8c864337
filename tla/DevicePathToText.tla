--------------------------- MODULE DevicePathToText ---------------------------
(***************************************************************************)
(* Text conversion: DevicePathNode::to_string and DevicePath::to_string,   *)
(* open_text_protocol, the DevicePathToTextError they return and the       *)
(* crate::Error it wraps.                                                  *)
(*                                                                         *)
(* A call makes three firmware calls in order, and returns at the first    *)
(* that fails: boot::locate_handle_buffer(ByProtocol), then                *)
(* boot::open_protocol(GetProtocol) on the first handle, then the          *)
(* protocol's convert function.  The path or node itself is not read by    *)
(* this code: it is passed through, so only which of the two is converted  *)
(* is kept.                                                                *)
(*                                                                         *)
(* The firmware answers as the UEFI specification says: LocateHandleBuffer *)
(* fails with NOT_FOUND when no handle has the protocol, and may fail with *)
(* OUT_OF_RESOURCES; OpenProtocol with GET_PROTOCOL fails exactly when the *)
(* handle does not support the protocol; a conversion returns NULL (an     *)
(* OUT_OF_RESOURCES error) when it cannot allocate the string.  Other      *)
(* images' code (drivers, event notification functions) may install or     *)
(* uninstall the protocol at any time, also between two of these calls.    *)
(***************************************************************************)
EXTENDS Naturals, FiniteSets, DevicePathToTextError

CONSTANT Handles            \* the handles of the handle database
ASSUME HandlesAssumption == IsFiniteSet(Handles) /\ Handles # {}

VARIABLES
  providers,  \* the handles on which DevicePathToText is installed
  call,       \* the to_string call: [pc, target, handle, answers]
  result      \* what the last call returned, or NoResult

vars == <<providers, call, result>>

(***************************************************************************)
(* The firmware's answers.  `answers` is a history of the current call:    *)
(* what each firmware call returned, the providers LocateHandleBuffer saw  *)
(* and whether the opened handle still had the protocol.                   *)
(***************************************************************************)
\* The handle buffers listing every provider once, in any order.
HandleBuffers ==
  {b \in [1 .. Cardinality(providers) -> providers] :
     \A h \in providers : \E i \in DOMAIN b : b[i] = h}

LocateAnswers ==
  IF providers = {} THEN {[status |-> "NOT_FOUND", buffer |-> <<>>]}
  ELSE {[status |-> "OUT_OF_RESOURCES", buffer |-> <<>>]}
       \cup {[status |-> "SUCCESS", buffer |-> b] : b \in HandleBuffers}

OpenAnswer(h) == IF h \in providers THEN "SUCCESS" ELSE "UNSUPPORTED"

ConvertAnswers == {"SUCCESS", "OUT_OF_RESOURCES"}

NoAnswers ==
  [locate |-> None, seen |-> {}, open |-> None, supported |-> FALSE,
   convert |-> None]

Idle == [pc |-> "idle", target |-> None, handle |-> None, answers |-> NoAnswers]

(* The first line of to_string: open_text_protocol()? *)
StartCall(target) ==
  /\ call.pc = "idle"
  /\ call' = [Idle EXCEPT !.pc = "locate", !.target = target]
  /\ result' = NoResult
  /\ UNCHANGED providers

NodeToString == StartCall("node")
PathToString == StartCall("path")

\* A plausible bug: the error of locate_handle_buffer not returned early,
\* so that open_protocol is still called.
LocateHandleBufferNoReturn ==
  /\ call.pc = "locate"
  /\ \E a \in LocateAnswers :
       LET c == [call EXCEPT !.answers.locate = a.status, !.answers.seen = providers]
       IN  IF a.status # "SUCCESS"
           THEN /\ result' = WithError("CantLocateHandleBuffer", ErrorFromStatus(a.status))
                /\ call' = [c EXCEPT !.pc = "open"]
           ELSE /\ call' = [c EXCEPT !.pc = "open", !.handle = a.buffer[1]]
                /\ UNCHANGED result
  /\ UNCHANGED providers

(* open_text_protocol: locate_handle_buffer(..).map_err(..)?.first()      *)
(* .ok_or(NoHandle)?, copying the first handle out of the buffer, which is *)
(* freed at the end of the statement.                                      *)
LocateHandleBuffer ==
  /\ call.pc = "locate"
  /\ \E a \in LocateAnswers :
       LET c == [call EXCEPT !.answers.locate = a.status, !.answers.seen = providers]
       IN  IF a.status # "SUCCESS" THEN
             /\ result' = WithError("CantLocateHandleBuffer", ErrorFromStatus(a.status))
             /\ call' = [c EXCEPT !.pc = "idle"]
           ELSE IF a.buffer = <<>> THEN
             /\ result' = Plain("NoHandle")
             /\ call' = [c EXCEPT !.pc = "idle"]
           ELSE
             /\ call' = [c EXCEPT !.pc = "open", !.handle = a.buffer[1]]
             /\ UNCHANGED result
  /\ UNCHANGED providers

(* open_text_protocol: open_protocol(handle, GetProtocol).map_err(CantOpenProtocol) *)
OpenProtocol ==
  /\ call.pc = "open"
  /\ LET s == OpenAnswer(call.handle)
         c == [call EXCEPT !.answers.open = s,
                           !.answers.supported = call.handle \in providers]
     IN  IF s = "SUCCESS"
         THEN /\ call' = [c EXCEPT !.pc = "convert"]
              /\ UNCHANGED result
         ELSE /\ result' = WithError("CantOpenProtocol", ErrorFromStatus(s))
              /\ call' = [c EXCEPT !.pc = "idle"]
  /\ UNCHANGED providers

\* A plausible bug: the conversion's error status passed on in OutOfMemory.
ConvertedKeepsStatus(text) ==
  /\ call.pc = "convert"
  /\ \E s \in ConvertAnswers :
       /\ result' = IF s = "SUCCESS" THEN Ok(text)
                    ELSE WithError("OutOfMemory", ErrorFromStatus(s))
       /\ call' = [call EXCEPT !.pc = "idle", !.answers.convert = s]
  /\ UNCHANGED providers

(* The rest of to_string: convert_device_*_to_text(self, ..)               *)
(*   .map(|pool_string| CString16::from(&*pool_string))                    *)
(*   .map_err(|_| OutOfMemory)                                             *)
Converted(text) ==
  /\ call.pc = "convert"
  /\ \E s \in ConvertAnswers :
       /\ result' = IF s = "SUCCESS" THEN Ok(text) ELSE Plain("OutOfMemory")
       /\ call' = [call EXCEPT !.pc = "idle", !.answers.convert = s]
  /\ UNCHANGED providers

\* A plausible bug: the node's to_string calling the path conversion.
ConvertNodeAsPath == call.target = "node" /\ Converted("PathText")

ConvertNode == call.target = "node" /\ Converted("NodeText")
ConvertPath == call.target = "path" /\ Converted("PathText")

(* Another image installs or uninstalls DevicePathToText on a handle. *)
Install == \E h \in Handles \ providers :
             /\ providers' = providers \cup {h}
             /\ UNCHANGED <<call, result>>
Uninstall == \E h \in providers :
               /\ providers' = providers \ {h}
               /\ UNCHANGED <<call, result>>

Init ==
  /\ providers \in SUBSET Handles
  /\ call = Idle
  /\ result = NoResult

Next ==
  \/ NodeToString \/ PathToString
  \/ LocateHandleBuffer \/ OpenProtocol \/ ConvertNode \/ ConvertPath
  \/ Install \/ Uninstall

Spec == Init /\ [][Next]_vars

-----------------------------------------------------------------------------
Results ==
  {Ok(t) : t \in {"NodeText", "PathText"}} \cup {Plain(k) : k \in TextErrorKinds}
  \cup {WithError(k, ErrorFromStatus(s)) :
          k \in {"CantLocateHandleBuffer", "CantOpenProtocol"},
          s \in {"NOT_FOUND", "OUT_OF_RESOURCES", "UNSUPPORTED"}}

Answers ==
  [locate : {None, "NOT_FOUND", "OUT_OF_RESOURCES", "SUCCESS"},
   seen : SUBSET Handles, open : {None, "SUCCESS", "UNSUPPORTED"},
   supported : BOOLEAN, convert : {None} \cup ConvertAnswers]

(* Type invariant. *)
TypeOK ==
  /\ providers \subseteq Handles
  /\ call \in [pc : {"idle", "locate", "open", "convert"},
               target : {None, "node", "path"},
               handle : Handles \cup {None}, answers : Answers]
  /\ result \in Results \cup {NoResult}

\* The call has returned.
Returned == call.pc = "idle" /\ result # NoResult

(***************************************************************************)
(* Every value to_string returns says which firmware call failed first and *)
(* carries that call's status: CantLocateHandleBuffer and CantOpenProtocol *)
(* (through source()) the status of locate_handle_buffer and of            *)
(* open_protocol (split into that status and no data), NoHandle an empty   *)
(* handle buffer, OutOfMemory a failed conversion; no later call was      *)
(* made after a failure; and Ok holds the text of what the caller passed,  *)
(* node or path.                                                           *)
(***************************************************************************)
ToStringReportsFirstFailure ==
  Returned =>
    LET a == call.answers IN
    CASE result.kind = "Ok" ->
           /\ a.open = "SUCCESS" /\ a.convert = "SUCCESS"
           /\ result.text = IF call.target = "node" THEN "NodeText" ELSE "PathText"
      [] result.kind = "CantLocateHandleBuffer" ->
           a.locate # "SUCCESS" /\ ErrSplit(ErrorSource(result)) = <<a.locate, "()">>
           /\ a.open = None
      [] result.kind = "NoHandle" -> a.locate = "SUCCESS" /\ a.open = None
      [] result.kind = "CantOpenProtocol" ->
           a.open # "SUCCESS" /\ ErrStatus(ErrorSource(result)) = a.open /\ a.convert = None
      [] result.kind = "OutOfMemory" -> a.open = "SUCCESS" /\ a.convert # "SUCCESS"

(***************************************************************************)
(* A value to_string returned stays what the caller got: no firmware call, *)
(* and no protocol installed or uninstalled by another image, changes it;  *)
(* only the next call, starting, clears it.  Each early return of          *)
(* open_text_protocol ends the call.                                       *)
(***************************************************************************)
ReturnedValueKept ==
  [][result # NoResult /\ result' # result =>
       call.pc = "idle" /\ call'.pc = "locate" /\ result' = NoResult]_vars

\* The conversion a running to_string call was asked for, or None between
\* calls: the call is running from its first line to its return.
CallPending == IF call.pc = "idle" THEN None ELSE call.target

TextCall == INSTANCE DevicePathToTextCall WITH pending <- CallPending

(***************************************************************************)
(* to_string keeps the promise of DevicePathToTextCall: with the firmware  *)
(* calls hidden, every call returns once, in the step where its last       *)
(* firmware call answers, a value the handles having the protocol at that *)
(* moment allow (NOT_FOUND exactly when none has it, CantOpenProtocol only *)
(* while one lacks it, never NoHandle), and nothing else changes what the *)
(* caller sees.                                                            *)
(***************************************************************************)
ToStringRefinement == TextCall!CallSpec

(***************************************************************************)
(* The doc comment of DevicePathToTextError::NoHandle: "There is no handle *)
(* supporting the DevicePathToText protocol".  When no handle has the      *)
(* protocol, to_string returns NoHandle.                                   *)
(***************************************************************************)
NoProviderGivesNoHandle ==
  Returned /\ call.answers.locate # None /\ call.answers.seen = {}
    => result.kind = "NoHandle"

(***************************************************************************)
(* The doc comment of DevicePathToTextError::CantOpenProtocol: "The handle *)
(* supporting the DevicePathToText protocol exists but it could not be     *)
(* opened".  CantOpenProtocol is returned only for a handle that has the   *)
(* protocol.                                                               *)
(***************************************************************************)
CantOpenOnSupportingHandle ==
  Returned /\ result.kind = "CantOpenProtocol" => call.answers.supported

=============================================================================
