------------------------- MODULE DevicePathToTextCall -------------------------
(***************************************************************************)
(* What a to_string call promises its caller, with the firmware calls it   *)
(* makes hidden: a call starts, and later returns in one step one of the   *)
(* values that the handles having DevicePathToText at that moment allow.   *)
(* Other images change those handles at any time.                          *)
(*                                                                         *)
(*   pending  the conversion asked for while a call runs, or None          *)
(*   result   what the last call returned, or NoResult while one runs      *)
(***************************************************************************)
EXTENDS DevicePathToTextError

CONSTANT Handles

VARIABLES providers, pending, result

callVars == <<providers, pending, result>>

\* The text of the conversion asked for.
TextOf(target) == IF target = "node" THEN "NodeText" ELSE "PathText"

(***************************************************************************)
(* The values a call may return: the text it asked for; OutOfMemory;       *)
(* CantLocateHandleBuffer with NOT_FOUND exactly when no handle has the    *)
(* protocol, with OUT_OF_RESOURCES otherwise; CantOpenProtocol with        *)
(* UNSUPPORTED only while some handle lacks the protocol.  NoHandle is not *)
(* among them.                                                             *)
(***************************************************************************)
Replies(target) ==
  {Ok(TextOf(target)), Plain("OutOfMemory"),
   WithError("CantLocateHandleBuffer",
             ErrorFromStatus(IF providers = {} THEN "NOT_FOUND" ELSE "OUT_OF_RESOURCES"))}
  \cup {WithError("CantOpenProtocol", ErrorFromStatus("UNSUPPORTED")) :
          h \in Handles \ providers}

CallStart(target) ==
  /\ pending = None
  /\ pending' = target
  /\ result' = NoResult
  /\ UNCHANGED providers

CallReturn ==
  /\ pending # None
  /\ result' \in Replies(pending)
  /\ pending' = None
  /\ UNCHANGED providers

ProvidersChange ==
  /\ providers' \in SUBSET Handles
  /\ UNCHANGED <<pending, result>>

CallInit ==
  /\ providers \in SUBSET Handles
  /\ pending = None
  /\ result = NoResult

CallNext ==
  \/ \E target \in {"node", "path"} : CallStart(target)
  \/ CallReturn
  \/ ProvidersChange

CallSpec == CallInit /\ [][CallNext]_callVars

=============================================================================
